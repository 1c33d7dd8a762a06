------------------------- MODULE MCNodeProjection -------------------------
EXTENDS NodeProjection
=============================================================================
