------------------------ MODULE MCLocalShellJournal ------------------------
EXTENDS LocalShellJournal
=============================================================================
