-------------------------- MODULE MCNodeRegistration --------------------------
EXTENDS NodeRegistration, TLC

\* Routed requests are interchangeable, and so are the clients of each kind.
Interchangeable ==
  Permutations(Operations) \cup Permutations(Editors)
    \cup Permutations(Upgraders)
===============================================================================
