----------------------------- MODULE RoundRobin -----------------------------
(***************************************************************************)
(* What the scheduler promises, without saying how: tasks are admitted one *)
(* at a time at the end of the line, and the processor goes from each task *)
(* to the one after it, the last being followed by the first.              *)
(***************************************************************************)
EXTENDS Integers, Sequences

CONSTANT Task      \* names of tasks; 0 is no task

VARIABLES ready,   \* the tasks that may run, in the order they take turns
          cur      \* the one that runs

Members == {ready[i] : i \in DOMAIN ready}

Init == ready = <<>> /\ cur = 0

Start ==
    /\ ready = <<>>
    /\ \E t \in Task : ready' = <<t>> /\ cur' = t

Admit ==
    /\ ready # <<>>
    /\ \E t \in Task \ Members : ready' = Append(ready, t)
    /\ UNCHANGED cur

Rotate ==
    /\ \E i \in DOMAIN ready :
          /\ ready[i] = cur
          /\ cur' = ready[(i % Len(ready)) + 1]
    /\ UNCHANGED ready

Next == Start \/ Admit \/ Rotate

Spec == Init /\ [][Next]_<<ready, cur>>
=============================================================================
