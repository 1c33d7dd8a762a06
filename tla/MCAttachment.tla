---------------------------- MODULE MCAttachment ----------------------------
EXTENDS Attachment, TLC

\* Clients are interchangeable.
Interchangeable == Permutations(Clients)

\* The view of a state: which output a client has, is being written or is queued
\* for it matters only while it is a participant or about to become one, which
\* it is once.  No guard and no other property looks at these numbers.
Counts(c) == Member(c) \/ pc[c] = "install"
Blank(i) == IF i # None /\ i.is = "output" THEN [i EXCEPT !.n = 0] ELSE i
View ==
  <<readerVars, held, pc, kind, worker, members, lives, bossVars, history,
    [c \in Clients |->
       IF Counts(c) THEN <<shown[c], hand[c], queue[c]>>
       ELSE <<0, Blank(hand[c]),
              [i \in 1..Len(queue[c]) |-> Blank(queue[c][i])]>>]>>
=============================================================================
