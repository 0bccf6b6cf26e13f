------------------------------- MODULE Phases -------------------------------
(***************************************************************************)
(* A C program as whoever starts and stops it sees it.                     *)
(*                                                                         *)
(*   new       no handler is installed yet                                 *)
(*   handling  there is a handler, but `alive = 0` is still to come        *)
(*   running   a stop signal will be honoured                              *)
(*   stopping  one was, or a loop error was met: it is about to return     *)
(*   gone      it returned or was killed                                   *)
(***************************************************************************)

PhaseNames == {"new", "handling", "running", "stopping", "gone"}

\* What the program does by itself, sooner or later.
MovesTo(phase) ==
    CASE phase = "new"      -> "handling"
      [] phase = "handling" -> "running"
      [] phase = "stopping" -> "gone"
      [] OTHER              -> phase

\* kill -2, where SIGINT is ignored until there is a handler: lost before
\* `alive = 0`, and nothing new once the program stops.
Interrupted(phase) == IF phase = "running" THEN "stopping" ELSE phase
=============================================================================
