------------------------------ MODULE StopFlag ------------------------------
(***************************************************************************)
(* How satencap and satdecap are asked to stop.  Both C programs hold the  *)
(* same lines: a global `alive`, a sighandler() that stores 1 in it, two   *)
(* calls of signal(), a later `alive = 0`, and a pselect() that waits with *)
(* SIGTERM and SIGINT blocked.                                             *)
(*                                                                         *)
(*   alive = 0   keep looping      alive = 1    a stop signal was handled  *)
(*   alive = -1  a loop error ends the process                             *)
(***************************************************************************)
EXTENDS Integers

CONSTANT MaxSignals      \* bound: how many signals the user sends

ASSUME MaxSignalsAssumption == MaxSignals \in Nat

VARIABLES alive,         \* the global `alive`
          installed,     \* the signals whose handler is installed
          pending,       \* the signals that wait for pselect() to return
          signals        \* how many signals were sent so far

stopVars == <<alive, installed, pending, signals>>

Sigs == {"SIGTERM", "SIGINT"}

StopTypeOK ==
    /\ alive \in {-1, 0, 1}
    /\ installed \in SUBSET Sigs
    /\ pending \in SUBSET Sigs
    /\ signals \in 0..MaxSignals

\* A global int without initializer is 0; no handler is installed.
StopInit ==
    /\ alive = 0
    /\ installed = {}
    /\ pending = {}
    /\ signals = 0

\* A new process.
StopRestart ==
    /\ alive' = 0 /\ installed' = {} /\ pending' = {}
    /\ UNCHANGED signals

\* Mutant: `while (alive >= 0)`.
RunningUnlessFailed == alive >= 0

\* while (alive == 0)
Running == alive = 0

\* signal(s, sighandler)
Install(s) ==
    /\ installed' = installed \union {s}
    /\ UNCHANGED <<alive, pending, signals>>

SetAlive(v) ==
    /\ alive' = v
    /\ UNCHANGED <<installed, pending, signals>>

\* The signal has its default action: it kills the process.
RaiseDefault(s) ==
    /\ signals < MaxSignals
    /\ s \notin installed
    /\ signals' = signals + 1
    /\ UNCHANGED <<alive, installed, pending>>

\* A shell without job control starts `satencap &` with SIGINT ignored, which
\* holds until a handler is installed.
RaiseIgnored(s) ==
    /\ signals < MaxSignals
    /\ s = "SIGINT" /\ s \notin installed
    /\ signals' = signals + 1
    /\ UNCHANGED <<alive, installed, pending>>

\* The signal meets the handler: at once, or, when pselect() blocks it, as
\* soon as pselect() puts the old mask back.
RaiseHandled(s, blocked) ==
    /\ signals < MaxSignals
    /\ s \in installed
    /\ signals' = signals + 1
    /\ alive' = IF blocked THEN alive ELSE 1
    /\ pending' = IF blocked THEN pending \union {s} ELSE pending
    /\ UNCHANGED installed

\* Mutant: `alive = 0` in every turn of the loop.
UnblockRearms ==
    /\ alive' = IF pending = {} THEN 0 ELSE 1
    /\ pending' = {}
    /\ UNCHANGED <<installed, signals>>

\* pselect() returns: the mask is restored and what was pending is handled
\* before the caller sees the result.
Unblock ==
    /\ alive' = IF pending = {} THEN alive ELSE 1
    /\ pending' = {}
    /\ UNCHANGED <<installed, signals>>
=============================================================================
