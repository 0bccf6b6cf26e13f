--------------------------- MODULE TestbedProofs ----------------------------
(***************************************************************************)
(* Proofs about the testbed scripts, for every number of starts and stops: *)
(* the type invariant, and that no process of the last start escapes.      *)
(***************************************************************************)
EXTENDS Testbed, TLAPS

\* A command that runs is at one of its lines, and start has counted itself.
CommandLines ==
    /\ cmd = "none" => at = "none"
    /\ cmd = "start" => at \in {"rx", "tx", "write"} /\ starts > 0
    /\ cmd \in {"stop", "force-stop"} => at \in {"int", "term", "ps"}

\* Processes of the starts to come do not exist yet.
Unstarted == \A p \in PID : p[2] > starts => proc[p] = "none"

\* Whom the script must not lose: what is alive of the last start.
Watched == {p \in PID : Alive(p) /\ p[2] = starts}

\* The invariant behind Tracked: while a command runs, PID_LIST holds who is
\* watched, and check_running() has kept them or has still to look at them.
Held ==
    /\ cmd = "none" => Watched \subseteq pid_file
    /\ cmd # "none" => Watched \subseteq pid_list
    /\ at = "ps" => Watched \subseteq todo \union new_pid_list

IInv == TypeOK /\ CommandLines /\ Unstarted /\ Held

-----------------------------------------------------------------------------
\* A signal keeps the type of a state and raises nobody from the dead.
LEMMA SignalFacts ==
    ASSUME NEW state \in States
    PROVE  /\ AfterInt(state) \in States /\ Terminated(state) \in States
           /\ state = "none" => AfterInt(state) = "none" /\ Terminated(state) = "none"
           /\ state = "gone" => AfterInt(state) = "gone" /\ Terminated(state) = "gone"
BY DEF AfterInt, Terminated, Interrupted, States, PhaseNames

\* When only one process changes, and a dead one stays dead, nobody new is
\* watched and nobody of a start to come appears.
LEMMA NobodyRises ==
    ASSUME TypeOK, Unstarted,
           NEW p \in PID, NEW state \in States,
           Becomes(p, state), UNCHANGED starts,
           proc[p] = "none" => state = "none",
           proc[p] = "gone" => state = "gone"
    PROVE  /\ proc' \in [PID -> States]
           /\ Unstarted'
           /\ Watched' \subseteq Watched
BY DEF TypeOK, Unstarted, Becomes, Watched, Alive

LEMMA InitHolds == Init => IInv
BY TestbedAssumption
   DEF Init, IInv, TypeOK, CommandLines, Unstarted, Held, Watched, Alive, States, PhaseNames

LEMMA ProgramSteps ==
    ASSUME IInv, NEW p \in PID, MovesOn(p) \/ Ends(p)
    PROVE  IInv'
<1>1. PICK state \in States : Becomes(p, state) /\ Alive(p)
  <2>1. CASE MovesOn(p)
    BY <2>1 DEF MovesOn, MovesTo, States, PhaseNames, IInv, TypeOK
  <2>2. CASE Ends(p)
    BY <2>2 DEF Ends, States, PhaseNames
  <2> QED BY <2>1, <2>2
<1>2. UNCHANGED <<binaries, pid_file, script, starts, stops>>
  BY DEF MovesOn, Ends
<1>3. proc' \in [PID -> States] /\ Unstarted' /\ Watched' \subseteq Watched
  BY <1>1, <1>2, NobodyRises DEF IInv, Alive
<1> QED
  BY <1>2, <1>3 DEF IInv, TypeOK, CommandLines, Held, script

\* kill in a loop over PID_LIST.
LEMMA KillSteps ==
    ASSUME IInv, KillInt \/ KillTerm
    PROVE  IInv'
<1>1. PICK p \in PID : Visit(p) /\ (\/ Becomes(p, AfterInt(proc[p]))
                                    \/ Becomes(p, Terminated(proc[p])))
  BY DEF KillInt, KillTerm, Killed, KillSignal
<1>2. /\ UNCHANGED <<binaries, pid_file, cmd, at, pid_list, new_pid_list, starts, stops>>
      /\ at \in {"int", "term"}
  BY DEF KillInt, KillTerm
<1>3. proc[p] \in States
  BY DEF IInv, TypeOK
<1>4. proc' \in [PID -> States] /\ Unstarted' /\ Watched' \subseteq Watched
  BY <1>1, <1>2, <1>3, SignalFacts, NobodyRises DEF IInv
<1> QED
  BY <1>1, <1>2, <1>4 DEF IInv, TypeOK, CommandLines, Held, Visit

LEMMA NextInv == IInv /\ [Next]_vars => IInv'
<1> SUFFICES ASSUME IInv, [Next]_vars PROVE IInv'
  OBVIOUS
<1>1. CASE Start
  <2>1. \A p \in PID : p[2] \in Nat
    BY DEF PID
  <2>2. starts' = starts + 1 /\ starts \in Nat /\ UNCHANGED proc
    BY <1>1, TestbedAssumption DEF Start, Runs, IInv, TypeOK
  <2>3. Unstarted' /\ Watched' = {}
    BY <2>1, <2>2 DEF IInv, Unstarted, Watched, Alive
  <2> QED
    BY <1>1, <2>2, <2>3, TestbedAssumption
       DEF Start, Runs, IInv, TypeOK, CommandLines, Held
<1>2. CASE Stop
  BY <1>2, TestbedAssumption
     DEF Stop, Runs, IInv, TypeOK, CommandLines, Unstarted, Held, Watched, Alive
<1>3. CASE StartProgram
  <2>1. <<at, starts>> \in PID
    BY <1>3, TestbedAssumption DEF StartProgram, IInv, TypeOK, CommandLines, PID
  <2>2. /\ proc' \in [PID -> States]
        /\ \A q \in PID : q # <<at, starts>> => proc'[q] = proc[q]
    BY <1>3, <2>1 DEF StartProgram, Becomes, IInv, TypeOK, States, PhaseNames
  <2>3. TypeOK' /\ CommandLines'
    BY <1>3, <2>1, <2>2 DEF StartProgram, IInv, TypeOK, CommandLines
  <2>4. Unstarted'
    BY <1>3, <2>1, <2>2, TestbedAssumption DEF StartProgram, IInv, TypeOK, Unstarted
  <2>5. Watched' \subseteq Watched \union {<<at, starts>>}
    BY <1>3, <2>2 DEF StartProgram, Watched, Alive
  <2> QED
    BY <1>3, <2>3, <2>4, <2>5 DEF StartProgram, IInv, Held
<1>4. CASE WritePids
  BY <1>4 DEF WritePids, Listed, IInv, TypeOK, CommandLines, Unstarted, Held, Watched, Alive
<1>5. CASE KillInt \/ KillTerm
  BY <1>5, KillSteps
<1>6. CASE Sleep
  BY <1>6 DEF Sleep, IInv, TypeOK, CommandLines, Unstarted, Held, Watched, Alive
<1>7. CASE CheckRunning
  BY <1>7 DEF CheckRunning, Visit, Survivors, IInv, TypeOK, CommandLines, Unstarted, Held,
              Watched, Alive
<1>8. CASE CheckEnds
  BY <1>8 DEF CheckEnds, AfterLoop, IInv, TypeOK, CommandLines, Unstarted, Held, Watched, Alive
<1>9. CASE \E p \in PID : MovesOn(p) \/ Ends(p)
  BY <1>9, ProgramSteps
<1>10. CASE UNCHANGED vars
  BY <1>10 DEF vars, script, IInv, TypeOK, CommandLines, Unstarted, Held, Watched, Alive
<1> QED
  BY <1>1, <1>2, <1>3, <1>4, <1>5, <1>6, <1>7, <1>8, <1>9, <1>10 DEF Next, Script

-----------------------------------------------------------------------------
\* Every variable of the scripts and the programs keeps its type, and no loop
\* over PIDs is left half done.
THEOREM TypeCorrect == Spec => []TypeOK
<1>1. IInv => TypeOK
  BY DEF IInv
<1> QED BY InitHolds, NextInv, <1>1, PTL DEF Spec

\* Whatever programs end while start, stop and force-stop run, what is alive
\* of the last start is in PID_FILE between two commands.
THEOREM NothingEscapes == Spec => []Tracked
<1>1. IInv => Tracked
  BY DEF IInv, Held, Watched, Tracked
<1> QED BY InitHolds, NextInv, <1>1, PTL DEF Spec
=============================================================================
