--------------------------- MODULE MCWorkspaceCwd ---------------------------
EXTENDS WorkspaceCwd, TLC

\* Creations, projects, changes of a directory and handlers are
\* interchangeable.
Interchangeable ==
  Permutations(Creates) \cup Permutations(Projects)
    \cup Permutations(Moves) \cup Permutations(Closers)
=============================================================================
