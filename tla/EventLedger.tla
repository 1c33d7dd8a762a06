----------------------------- MODULE EventLedger -----------------------------
(***************************************************************************)
(* What the daemon promises a client of its event stream, without locks,   *)
(* writers, queues or retries: a set of durable facts on stable storage    *)
(* that only grows, and a log of announced events.  A fact reaches storage *)
(* in one step and is announced in a later one, at most once; a restart    *)
(* begins a new stream and loses no fact.                                  *)
(***************************************************************************)
EXTENDS Integers, Sequences

CONSTANT Fact(_)    \* whether an event announces a durable fact

VARIABLES facts, log

ledger == <<facts, log>>

Init == log = <<>>

Persist == facts \subseteq facts' /\ UNCHANGED log

\* The events a step appends to the log.
Appended == {log'[i] : i \in (Len(log) + 1)..Len(log')}

Publish ==
  /\ UNCHANGED facts
  /\ Len(log) <= Len(log') /\ \A i \in 1..Len(log) : log'[i] = log[i]
  /\ \A x \in Appended : Fact(x) => x \in facts
  /\ \A i \in 1..Len(log'), j \in (Len(log) + 1)..Len(log') :
       i # j /\ Fact(log'[j]) => log'[i] # log'[j]

Restart == facts \subseteq facts' /\ log' = <<>>

Next == Persist \/ Publish \/ Restart

Spec == Init /\ [][Next]_ledger
=============================================================================
