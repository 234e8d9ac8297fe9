----------------------------- MODULE AgentGate -----------------------------
(***************************************************************************)
(* What a circuit breaker promises the service behind it, without saying   *)
(* how: while the gate is shut the service is spared.  From the moment the *)
(* gate shuts until it opens again, the calls outstanding never exceed     *)
(* those that were outstanding when it shut plus one, the single trial     *)
(* call that finds out whether the service is back.                        *)
(***************************************************************************)
EXTENDS Naturals, FiniteSets

CONSTANT Callers      \* who may call the service

VARIABLES
  waiting,            \* the callers with a call outstanding
  shut,               \* whether the gate is shut
  allowance           \* how many calls may be outstanding while it is shut

gateVars == <<waiting, shut, allowance>>

Init ==
  /\ waiting = {}
  /\ shut = FALSE
  /\ allowance = 0

(* A call starts: freely while the gate is open, within the allowance else. *)
Start(c) ==
  /\ c \notin waiting
  /\ shut => Cardinality(waiting) < allowance
  /\ waiting' = waiting \cup {c}
  /\ UNCHANGED <<shut, allowance>>

(* A call ends and leaves the gate as it was. *)
Finish(c) ==
  /\ c \in waiting
  /\ waiting' = waiting \ {c}
  /\ UNCHANGED <<shut, allowance>>

(* A call ends badly and the gate shuts. *)
Shut(c) ==
  /\ c \in waiting
  /\ ~shut
  /\ waiting' = waiting \ {c}
  /\ shut' = TRUE
  /\ allowance' = Cardinality(waiting') + 1

(* A call ends well and the gate opens. *)
Reopen(c) ==
  /\ c \in waiting
  /\ shut
  /\ waiting' = waiting \ {c}
  /\ shut' = FALSE
  /\ allowance' = 0

Next == \E c \in Callers : Start(c) \/ Finish(c) \/ Shut(c) \/ Reopen(c)

Spec == Init /\ [][Next]_gateVars

=============================================================================
