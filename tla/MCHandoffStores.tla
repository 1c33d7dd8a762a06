------------------------- MODULE MCHandoffStores -------------------------
EXTENDS HandoffStores
=============================================================================
