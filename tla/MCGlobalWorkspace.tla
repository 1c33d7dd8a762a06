-------------------------- MODULE MCGlobalWorkspace --------------------------
EXTENDS GlobalWorkspace, TLC

\* Names of Workspaces, creations, projects and handlers are interchangeable.
Interchangeable ==
  Permutations(Workspaces) \cup Permutations(Creates)
    \cup Permutations(Projects) \cup Permutations(Closers)
===============================================================================
