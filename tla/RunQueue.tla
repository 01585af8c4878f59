------------------------------ MODULE RunQueue ------------------------------
(***************************************************************************)
(* What the scheduler promises about order, stated without slots, scans or *)
(* contexts: the normal tasks wait in a FIFO queue; a preempted task goes  *)
(* to its tail, a killed one leaves it, and idle runs when it is empty.    *)
(*                                                                         *)
(* The queue is the set of the tasks in it and the order they are in.      *)
(***************************************************************************)
EXTENDS Integers

CONSTANTS Normal, Idle, Nobody

VARIABLES
  waiting,   \* the tasks in the queue
  behind,    \* behind[t]: the tasks behind t in it
  running,
  event      \* what the kernel is to serve: "none", "tick" or "fault"

vars == <<waiting, behind, running, event>>

Init ==
  /\ waiting = {} /\ behind = [t \in {} |-> {}]
  /\ running = Nobody /\ event = "none"

\* Once, before the first dispatch: the tasks created so far, in slot order.
Admit ==
  /\ running = Nobody /\ waiting = {} /\ event = "none"
  /\ waiting' \in SUBSET Normal
  /\ behind' = [t \in waiting' |-> {u \in waiting' : t < u}]
  /\ UNCHANGED <<running, event>>

\* A timer tick, or an access fault of the running task.
Arrive ==
  /\ event = "none"
  /\ event' \in {"tick"} \cup IF running \in Normal THEN {"fault"} ELSE {}
  /\ UNCHANGED <<waiting, behind, running>>

\* The head of the queue, the task all others come after, leaves it and runs.
Dispatch(tasks, order) ==
  /\ event' = "none"
  /\ IF tasks = {} THEN running' = Idle
     ELSE running' \in tasks /\ tasks \ {running'} \subseteq order[running']
  /\ waiting' = tasks \ {running'}
  /\ behind' = [t \in waiting' |-> order[t] \cap waiting']

\* Every tick takes the head of the queue, and the preempted task its tail.
Tick ==
  /\ event = "tick"
  /\ IF running \in Normal
     THEN Dispatch(waiting \cup {running},
                   [t \in waiting \cup {running} |->
                      IF t = running THEN {} ELSE behind[t] \cup {running}])
     ELSE Dispatch(waiting, behind)

Kill == event = "fault" /\ Dispatch(waiting, behind)

Next == Admit \/ Arrive \/ Tick \/ Kill

Spec == Init /\ [][Next]_vars
=============================================================================
