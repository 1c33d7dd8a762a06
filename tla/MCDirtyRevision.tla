-------------------------- MODULE MCDirtyRevision --------------------------
EXTENDS DirtyRevision
=============================================================================
