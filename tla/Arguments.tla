----------------------------- MODULE Arguments ------------------------------
(***************************************************************************)
(* The command line of satencap and satdecap, from main() to the check of  *)
(* the parameters that process_encap() and process_decap() begin with: the *)
(* getopt() loop, the parsing of numbers and addresses, the defaults, the  *)
(* narrowing of an unsigned long to an int, and the exit status.           *)
(*                                                                         *)
(* A number is what strtoul() makes of its text: `zero` when the text is   *)
(* "0", the value, and whether characters follow the digits.  strtoul()    *)
(* wraps a negative number around and saturates at ULONG_MAX.              *)
(***************************************************************************)
EXTENDS Integers, Sequences

CONSTANTS UINT_MAX, ULONG_MAX, USHRT_MAX,
          MIN_ENCAP_FRAME_SIZE,
          DEFAULT_PAYLOAD_LENGTH, DEFAULT_BUFFER_LENGTH, DEFAULT_READ_TIMEOUT,
          Options,       \* bound: the options that may be given, any number of times
          MaxOptions     \* bound: how many are given

INT_MAX == UINT_MAX \div 2

Numbers == [zero : BOOLEAN, val : 0..ULONG_MAX, rest : BOOLEAN]

\* ADDRESS:PORT: whether the first token is an address, and the other tokens.
Addresses == [address : BOOLEAN, tokens : Seq(Numbers)]

Option ==
    [opt : {"h", "?", "c"}]
    \union [opt : {"i"}, exists : BOOLEAN]
    \union [opt : {"l", "r"}, at : Addresses]
    \union [opt : {"p", "b", "t"}, number : Numbers]

ASSUME ArgumentsAssumption ==
    /\ UINT_MAX \in Nat /\ UINT_MAX = 2 * INT_MAX + 1
    /\ ULONG_MAX \in Nat /\ UINT_MAX < ULONG_MAX
    /\ USHRT_MAX \in Nat
    /\ MIN_ENCAP_FRAME_SIZE \in Nat \ {0}
    /\ DEFAULT_PAYLOAD_LENGTH \in MIN_ENCAP_FRAME_SIZE..INT_MAX
    /\ DEFAULT_BUFFER_LENGTH \in 1..INT_MAX
    /\ DEFAULT_READ_TIMEOUT \in 1..ULONG_MAX
    /\ Options \subseteq Option
    /\ MaxOptions \in Nat

VARIABLES program, pc,   \* which program runs, and where it is
          given,         \* the options getopt() returned so far
          flags, params, exit_status

vars == <<program, pc, given, flags, params, exit_status>>

Required == {"tap_iface", "local", "remote"}
Flags == Required \union {"error", "help", "payload_len", "buffer_len", "read_timeout"}
NotExited == 1

-----------------------------------------------------------------------------
\* utils.c

\* In nanoseconds.
Millisecond == 1000000
Second == 1000 * Millisecond

SetTime(ms) == [tv_sec |-> ms \div 1000, tv_nsec |-> (ms % 1000) * Millisecond]
TimeToLong(time) == time.tv_sec * 1000 + time.tv_nsec \div Millisecond

ParseUnsignedLong(number) == number.zero \/ (~number.rest /\ number.val # 0)

\* strtok() finds an address, a port, and nothing behind them.
ParseUdpArguments(at) ==
    /\ at.address
    /\ Len(at.tokens) = 1
    /\ ~at.tokens[1].rest
    /\ at.tokens[1].val \in 1..USHRT_MAX

\* Mutant: the field is as wide as the value.
ToIntWide(val) == val

\* int = unsigned long keeps the low bits, as a two's complement.
ToInt(val) ==
    LET low == val % (UINT_MAX + 1)
    IN  IF low > INT_MAX THEN low - (UINT_MAX + 1) ELSE low

-----------------------------------------------------------------------------
\* parse_arguments()

\* Mutant: `val > UINT_MAX` is not tested.
ParseLengthWraps(number) == ParseUnsignedLong(number)

ParseLength(number) == ParseUnsignedLong(number) /\ number.val <= UINT_MAX

Raise(flag) == flags' = flags \union {flag} /\ UNCHANGED params
Store(flag, value) == flags' = flags \union {flag} /\ params' = [params EXCEPT ![flag] = value]

\* One turn of the switch.
Switch(o) ==
    \/ o.opt = "h" /\ Raise("help")
    \/ o.opt \in {"?", "c"} /\ Raise("error")
    \/ o.opt = "i" /\ Raise(IF o.exists THEN "tap_iface" ELSE "error")
    \/ o.opt = "l" /\ Raise(IF ParseUdpArguments(o.at) THEN "local" ELSE "error")
    \/ o.opt = "r" /\ Raise(IF ParseUdpArguments(o.at) THEN "remote" ELSE "error")
    \/ o.opt = "p" /\ ParseLength(o.number) /\ Store("payload_len", ToInt(o.number.val))
    \/ o.opt = "b" /\ ParseLength(o.number) /\ Store("buffer_len", ToInt(o.number.val))
    \/ o.opt \in {"p", "b"} /\ ~ParseLength(o.number) /\ Raise("error")
    \/ o.opt = "t" /\ ParseUnsignedLong(o.number) /\ Store("read_timeout", SetTime(o.number.val))
    \/ o.opt = "t" /\ ~ParseUnsignedLong(o.number) /\ Raise("error")

\* `params` is a local of main() that nothing clears.  sched_period is never
\* stored to: whether it reads as zero depends on what the stack held.  The
\* other fields are stored before they are read.
Init ==
    /\ program \in {"satencap", "satdecap"}
    /\ pc = "getopt" /\ given = <<>> /\ flags = {} /\ exit_status = NotExited
    /\ params \in [payload_len : {0}, buffer_len : {0}, read_timeout : {SetTime(0)},
                   sched_period : {0, 1}]

\* Mutant: the loop goes on after an error.
LoopIgnoresErrors == "help" \notin flags

LoopGoesOn == "error" \notin flags /\ "help" \notin flags

GetOpt ==
    /\ pc = "getopt" /\ LoopGoesOn
    /\ Len(given) < MaxOptions
    /\ \E o \in Options :
         /\ given' = Append(given, o)
         /\ Switch(o)
    /\ UNCHANGED <<program, pc, exit_status>>

Exit(status) == pc' = "exited" /\ exit_status' = status

Defaulted(flag, value) == IF flag \in flags THEN params[flag] ELSE value

Rejected == "error" \in flags \/ ~(Required \subseteq flags)

\* Behind the loop: help comes before an error, and both before what is
\* missing; main() prints the usage and returns 0 or -1.
GetOptEnds ==
    /\ pc = "getopt"
    /\ \/ "help" \in flags /\ Exit(0) /\ UNCHANGED params
       \/ "help" \notin flags /\ Rejected /\ Exit(-1) /\ UNCHANGED params
       \/ /\ "help" \notin flags /\ ~Rejected
          /\ params' = [params EXCEPT
               !.read_timeout = Defaulted("read_timeout", SetTime(DEFAULT_READ_TIMEOUT)),
               !.payload_len  = Defaulted("payload_len", DEFAULT_PAYLOAD_LENGTH),
               !.buffer_len   = Defaulted("buffer_len", DEFAULT_BUFFER_LENGTH)]
          /\ pc' = "check" /\ UNCHANGED exit_status
    /\ UNCHANGED <<program, given, flags>>

-----------------------------------------------------------------------------
\* check_encap_params(), check_decap_params(), and the rest of main()

TimeoutPositive == params.read_timeout.tv_sec # 0 \/ params.read_timeout.tv_nsec # 0
PayloadLenValid ==
    \/ program = "satencap" /\ params.payload_len = 0
    \/ params.payload_len >= MIN_ENCAP_FRAME_SIZE
SchedPeriodPositive == program = "satencap" => params.sched_period # 0

Check ==
    /\ pc = "check"
    /\ IF TimeoutPositive /\ SchedPeriodPositive /\ PayloadLenValid
         THEN pc' = "running" /\ UNCHANGED exit_status
         ELSE Exit(-2)
    /\ UNCHANGED <<program, given, flags, params>>

\* process_encap() or process_decap() returns: any error becomes -2.
ProcessReturns ==
    /\ pc = "running"
    /\ \E ret \in {0, -1, -2} : Exit(IF ret = 0 THEN 0 ELSE -2)
    /\ UNCHANGED <<program, given, flags, params>>

Next == GetOpt \/ GetOptEnds \/ Check \/ ProcessReturns

Spec == Init /\ [][Next]_vars

-----------------------------------------------------------------------------
\* Properties

TypeOK ==
    /\ program \in {"satencap", "satdecap"}
    /\ pc \in {"getopt", "check", "running", "exited"}
    /\ given \in Seq(Option)
    /\ flags \in SUBSET Flags
    /\ params.payload_len \in -(INT_MAX + 1)..INT_MAX
    /\ params.buffer_len \in -(INT_MAX + 1)..INT_MAX
    /\ params.read_timeout \in [tv_sec : Nat, tv_nsec : 0..(Second - 1)]
    /\ params.sched_period \in {0, 1}
    /\ exit_status \in {-2, -1, 0, NotExited}

\* The value of the last option o on the command line, or the default.
LastOf(o, default) ==
    LET at == {k \in DOMAIN given : given[k].opt = o}
    IN  IF at = {} THEN default
        ELSE given[CHOOSE k \in at : \A j \in at : j <= k].number.val

\* The loop runs with the payload length and the timeout the user gave last:
\* neither the wrap of an int nor the split into seconds and nanoseconds lets
\* another value through the checks.
RunsAsGiven ==
    pc = "running" =>
        /\ params.payload_len = LastOf("p", DEFAULT_PAYLOAD_LENGTH)
        /\ TimeToLong(params.read_timeout) = LastOf("t", DEFAULT_READ_TIMEOUT)
        /\ TimeToLong(params.read_timeout) > 0

\* An option that makes the program exit, whatever stands around it.
Faulty(o) ==
    \/ o.opt \in {"?", "c"}
    \/ o.opt = "i" /\ ~o.exists
    \/ o.opt \in {"l", "r"} /\ ~ParseUdpArguments(o.at)
    \/ o.opt \in {"p", "b", "t"} /\ ~ParseUnsignedLong(o.number)
    \/ o.opt \in {"p", "b"} /\ o.number.val > UINT_MAX

\* The first help or faulty option decides how the program ends: what comes
\* before it is forgotten and nothing behind it is looked at.
FirstStopDecides ==
    \A k \in DOMAIN given :
        (given[k].opt = "h" \/ Faulty(given[k])) =>
            /\ k = Len(given)
            /\ pc # "getopt" => exit_status = IF given[k].opt = "h" THEN 0 ELSE -1

\* The usage (satencap.c:28) lists three required arguments: with those, and
\* nothing wrong in the optional ones, satencap starts.
RequiredArgumentsSuffice ==
    [][(pc = "check" /\ TimeoutPositive /\ PayloadLenValid) => pc' = "running"]_vars
=============================================================================
