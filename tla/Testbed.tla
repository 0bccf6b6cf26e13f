------------------------------ MODULE Testbed -------------------------------
(***************************************************************************)
(* testbed-netns.sh start, stop and force-stop: a receiver and a sender in *)
(* the background, a file with their PIDs, and signals to whoever is in    *)
(* it.  The script runs beside the programs: each command of the shell is  *)
(* a step, and a program may move on or end between any two of them.       *)
(*                                                                         *)
(* A shell without job control starts background commands with SIGINT      *)
(* ignored.  The C programs replace that by their handler; those in Rust   *)
(* leave it, and leave SIGTERM its default action.                         *)
(***************************************************************************)
EXTENDS Naturals, Phases

CONSTANTS Binaries,      \* bound: which programs BIN_DIR holds
          MaxStarts,     \* bound: how often `start` is run
          MaxStops       \* bound: how often `stop` or `force-stop` is run

ASSUME TestbedAssumption ==
    /\ Binaries \subseteq {"c", "rust"}
    /\ MaxStarts \in Nat /\ MaxStops \in Nat

VARIABLES binaries,      \* what BIN_DIR holds
          proc,          \* the state of every process
          pid_file,      \* the PIDs in PID_FILE, {} when there is no file
          cmd, at,       \* the command that runs, "none" if none; its next line
          pid_list,      \* its PID_LIST
          todo,          \* the PIDs its current loop has still to visit
          new_pid_list,  \* NEW_PID_LIST of check_running()
          starts, stops

script == <<cmd, at, pid_list, todo, new_pid_list>>
vars == <<binaries, proc, pid_file, script, starts, stops>>

\* "rx" is satdecap, "tx" is satencap; a PID is the role and the start.
PID == {"rx", "tx"} \X (1..MaxStarts)
Role(p) == p[1]

\* A Rust program, which has no handler, is new and then running.
States == PhaseNames \union {"none"}
Alive(p) == proc[p] \notin {"none", "gone"}

TypeOK ==
    /\ binaries \in Binaries
    /\ proc \in [PID -> States]
    /\ pid_file \subseteq PID
    /\ cmd \in {"none", "start", "stop", "force-stop"}
    /\ at \in {"none", "rx", "tx", "write", "int", "term", "ps"}
    /\ pid_list \subseteq PID /\ todo \subseteq pid_list /\ new_pid_list \subseteq PID
    /\ at \in {"none", "rx", "tx", "write"} => todo = {}
    /\ starts \in 0..MaxStarts /\ stops \in 0..MaxStops

Init ==
    /\ binaries \in Binaries
    /\ proc = [p \in PID |-> "none"]
    /\ pid_file = {} /\ cmd = "none" /\ at = "none"
    /\ pid_list = {} /\ todo = {} /\ new_pid_list = {}
    /\ starts = 0 /\ stops = 0

-----------------------------------------------------------------------------
\* The programs

Becomes(p, state) == proc' = [proc EXCEPT ![p] = state]

\* The TAP interface belongs to one process at a time; the UDP port need not,
\* as open_udp() sets SO_REUSEADDR.
Taken(p) ==
    \E q \in PID \ {p} : Role(q) = Role(p) /\ proc[q] \in {"handling", "running", "stopping"}

\* The program moves on: it takes its devices or fails, clears `alive`, returns.
MovesOn(p) ==
    /\ Alive(p) /\ proc[p] # "running"
    /\ Becomes(p, IF proc[p] = "new" /\ Taken(p) THEN "gone"
                  ELSE IF binaries = "rust" THEN "running"
                  ELSE MovesTo(proc[p]))
    /\ UNCHANGED <<binaries, pid_file, script, starts, stops>>

\* The program ends for a reason of its own.
Ends(p) ==
    /\ Alive(p)
    /\ Becomes(p, "gone")
    /\ UNCHANGED <<binaries, pid_file, script, starts, stops>>

\* kill -2
AfterInt(state) == IF binaries = "c" THEN Interrupted(state) ELSE state

\* kill -15
Terminated(state) ==
    IF state = "none" THEN "none"
    ELSE IF binaries = "rust" \/ state = "new" THEN "gone"
    ELSE AfterInt(state)

-----------------------------------------------------------------------------
\* The script

Runs(command) ==
    /\ cmd = "none"
    /\ cmd' = command
    /\ UNCHANGED <<binaries, proc, pid_file, new_pid_list>>

Start ==
    /\ Runs("start") /\ starts < MaxStarts
    /\ starts' = starts + 1
    /\ at' = "rx"
    /\ pid_list' = {} /\ todo' = {}
    /\ UNCHANGED stops

\* PID_LIST=$(cat ${PID_FILE})
Stop ==
    /\ \E command \in {"stop", "force-stop"} : Runs(command)
    /\ stops < MaxStops
    /\ stops' = stops + 1
    /\ at' = "int"
    /\ pid_list' = pid_file /\ todo' = pid_file
    /\ UNCHANGED starts

\* start_encap_rx, then start_encap_tx
StartProgram ==
    /\ cmd = "start" /\ at \in {"rx", "tx"}
    /\ Becomes(<<at, starts>>, "new")
    /\ pid_list' = pid_list \union {<<at, starts>>}
    /\ at' = IF at = "rx" THEN "tx" ELSE "write"
    /\ UNCHANGED <<binaries, pid_file, cmd, todo, new_pid_list, starts, stops>>

\* Mutant: PID_LIST holds the last PID only.
LastStarted == {<<"tx", starts>>}

Listed == pid_list

WritePids ==
    /\ cmd = "start" /\ at = "write"
    /\ pid_file' = Listed
    /\ cmd' = "none" /\ at' = "none"
    /\ UNCHANGED <<binaries, proc, pid_list, todo, new_pid_list, starts, stops>>

\* One turn of the loop `for PID in ${PID_LIST}` that runs now.
Visit(p) == p \in todo /\ todo' = todo \ {p}

\* Mutant: the signal goes to the receiver only.
KilledReceiver(p, state) == IF Role(p) = "rx" THEN AfterInt(state) ELSE state

Killed(p, state) == AfterInt(state)

KillInt ==
    /\ at = "int"
    /\ \E p \in PID : Visit(p) /\ Becomes(p, Killed(p, proc[p]))
    /\ UNCHANGED <<binaries, pid_file, cmd, at, pid_list, new_pid_list, starts, stops>>

\* sleep 1, and the next loop
Sleep ==
    /\ todo = {}
    /\ \/ at = "int" /\ at' = IF cmd = "stop" THEN "ps" ELSE "term"
       \/ at = "term" /\ at' = "ps"
    /\ todo' = pid_list
    /\ new_pid_list' = {}
    /\ UNCHANGED <<binaries, proc, pid_file, cmd, pid_list, starts, stops>>

\* Mutant: kill -2 once more.
KillSignal2(state) == AfterInt(state)

KillSignal(state) == Terminated(state)

\* ps -p ${PID}, and kill -15 ${PID} if it is there
KillTerm ==
    /\ at = "term"
    /\ \E p \in PID : Visit(p) /\ Becomes(p, KillSignal(proc[p]))
    /\ UNCHANGED <<binaries, pid_file, cmd, at, pid_list, new_pid_list, starts, stops>>

\* Mutant: NEW_PID_LIST="${PID}"
OnlyLast(p) == {p}

Survivors(p) == new_pid_list \union {p}

\* check_running() asks for one process after the other.
CheckRunning ==
    /\ at = "ps"
    /\ \E p \in PID :
         /\ Visit(p)
         /\ new_pid_list' = IF Alive(p) THEN Survivors(p) ELSE new_pid_list
    /\ UNCHANGED <<binaries, proc, pid_file, cmd, at, pid_list, starts, stops>>

\* Mutant: the loop of check_running() ends with the first survivor.
AfterFirstSurvivor == todo = {} \/ new_pid_list # {}

AfterLoop == todo = {}

\* The survivors are written to PID_FILE; without any it is removed.
CheckEnds ==
    /\ at = "ps" /\ AfterLoop
    /\ pid_file' = new_pid_list
    /\ cmd' = "none" /\ at' = "none"
    /\ UNCHANGED <<binaries, proc, pid_list, todo, new_pid_list, starts, stops>>

Script == StartProgram \/ WritePids \/ KillInt \/ Sleep \/ KillTerm \/ CheckRunning \/ CheckEnds

Next == Start \/ Stop \/ Script \/ \E p \in PID : MovesOn(p) \/ Ends(p)

\* A command that runs goes on, and so does every program.
Spec == Init /\ [][Next]_vars /\ WF_vars(Script) /\ \A p \in PID : WF_vars(MovesOn(p))

-----------------------------------------------------------------------------
\* Properties

\* No process of the last start escapes the script: between two commands, what
\* is still alive of it is in PID_FILE, so that the next stop or force-stop
\* reaches it, however the programs end while the script looks at them.
\* Processes of an earlier start do escape when start is run over them.
Tracked == cmd = "none" => \A p \in PID : (Alive(p) /\ p[2] = starts) => p \in pid_file

\* What force-stop promises: a listed program ends, a C one if its loop has been
\* reached, a Rust one always, though it ignores the first signal.
ForceStopEnds ==
    \A p \in PID :
        (/\ cmd = "force-stop" /\ at = "int" /\ p \in pid_list
         /\ binaries = "rust" \/ proc[p] = "running")
        ~> ~Alive(p)

\* stop ends a C program whose loop has been reached, also when other commands
\* and programs come and go meanwhile.
StopEndsC ==
    \A p \in PID :
        (cmd = "stop" /\ at = "int" /\ p \in todo /\ proc[p] = "running" /\ binaries = "c")
        ~> ~Alive(p)

\* What README.md:104 promises of stop, for every directory that line 97 names.
StopEnds ==
    \A p \in PID :
        (cmd = "stop" /\ at = "int" /\ p \in todo /\ proc[p] = "running") ~> ~Alive(p)
=============================================================================
