---- MODULE MCTransitionCoordinator ----
EXTENDS TransitionCoordinator
====
