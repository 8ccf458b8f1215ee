------------------------------ MODULE WorkPool ------------------------------
(***************************************************************************)
(* What the dynamic scheduler promises: a pool of queries, handed out in   *)
(* the order of their ids, each of them searched exactly once, and the     *)
(* searching phase over only when all of them have been.                   *)
(***************************************************************************)
EXTENDS Integers

CONSTANT QueryNum

Queries == 0 .. QueryNum - 1

VARIABLES
  handedOut,  \* the number of queries handed out
  answers,    \* how often a query was searched
  closed      \* is the searching phase over?

vars == <<handedOut, answers, closed>>

Init ==
  /\ handedOut = 0
  /\ answers = [q \in Queries |-> 0]
  /\ closed = FALSE

HandOut ==
  /\ handedOut < QueryNum
  /\ handedOut' = handedOut + 1
  /\ UNCHANGED <<answers, closed>>

Answer(q) ==
  /\ q < handedOut
  /\ answers[q] = 0
  /\ answers' = [answers EXCEPT ![q] = 1]
  /\ UNCHANGED <<handedOut, closed>>

Close ==
  /\ ~ closed
  /\ \A q \in Queries : answers[q] = 1
  /\ closed' = TRUE
  /\ UNCHANGED <<handedOut, answers>>

Next ==
  \/ HandOut
  \/ \E q \in Queries : Answer(q)
  \/ Close

Spec == Init /\ [][Next]_vars /\ WF_vars(Next)
=============================================================================
