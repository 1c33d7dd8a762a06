------------------------- MODULE MCHandoffReaders -------------------------
EXTENDS HandoffReaders
=============================================================================
