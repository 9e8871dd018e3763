-------------------------- MODULE HostCallBarrier ---------------------------
(***************************************************************************)
(* What the teardown protocol of an instance promises to the host: every   *)
(* call into the host runs behind an open gate, a gate once shut stays     *)
(* shut, and destroy() returns (after which the host may free its handle)  *)
(* only when every gate is shut and nobody is inside a call. How gates are *)
(* shut and calls counted is HostQuiescence's business.                    *)
(***************************************************************************)

CONSTANTS
  Threads,       \* the threads that may call the host
  Coordinators,  \* the gates: host_log.log() and every other host call
  Nobody         \* no gate

VARIABLES
  gate,      \* gate[c]: calls through c are admitted
  inside,    \* inside[t]: the gate thread t is calling the host through
  returned   \* destroy() has returned

barrierVars == <<gate, inside, returned>>

Init ==
  /\ gate = [c \in Coordinators |-> TRUE]
  /\ inside = [t \in Threads |-> Nobody]
  /\ returned = FALSE

Enter(t, c) ==
  /\ inside[t] = Nobody
  /\ gate[c]
  /\ inside' = [inside EXCEPT ![t] = c]
  /\ UNCHANGED <<gate, returned>>

Leave(t) ==
  /\ inside[t] # Nobody
  /\ inside' = [inside EXCEPT ![t] = Nobody]
  /\ UNCHANGED <<gate, returned>>

Shut(c) ==
  /\ gate' = [gate EXCEPT ![c] = FALSE]
  /\ UNCHANGED <<inside, returned>>

Return ==
  /\ \A c \in Coordinators : ~gate[c]
  /\ \A t \in Threads : inside[t] = Nobody
  /\ returned' = TRUE
  /\ UNCHANGED <<gate, inside>>

Next ==
  \/ \E t \in Threads, c \in Coordinators : Enter(t, c)
  \/ \E t \in Threads : Leave(t)
  \/ \E c \in Coordinators : Shut(c)
  \/ Return

Spec == Init /\ [][Next]_barrierVars

=============================================================================
