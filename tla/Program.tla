------------------------------ MODULE Program -------------------------------
(***************************************************************************)
(* What the testbed scripts rely on of satencap and satdecap: a stop that  *)
(* is noticed is never forgotten again, and leads to the end.              *)
(***************************************************************************)
EXTENDS Phases

VARIABLE phase

Init == phase = "new"

MovesOn == MovesTo(phase) # phase /\ phase' = MovesTo(phase)

\* A stop signal, or a loop error.
Stops == phase = "running" /\ phase' = Interrupted(phase)

\* An init error, or a signal that kills.
Ends == phase \in {"new", "handling", "running", "stopping"} /\ phase' = "gone"

Next == MovesOn \/ Stops \/ Ends

Spec == Init /\ [][Next]_phase /\ WF_phase(MovesOn)
=============================================================================
