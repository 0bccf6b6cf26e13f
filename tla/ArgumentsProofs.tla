--------------------------- MODULE ArgumentsProofs --------------------------
(***************************************************************************)
(* The command line of satencap and satdecap, for every set of options and *)
(* numbers, every width of an int and every default: what the loop runs    *)
(* with, and how the first stop decides the exit status.                   *)
(***************************************************************************)
EXTENDS Arguments, QueueProofs

\* Where option o stands on a command line, and the value it gives last.
At(o, line) == {k \in DOMAIN line : line[k].opt = o}
HasLast(o, line) == At(o, line) # {} => \E k \in At(o, line) : \A j \in At(o, line) : j <= k
Last(o, default, line) ==
    IF At(o, line) = {} THEN default
    ELSE line[CHOOSE k \in At(o, line) : \A j \in At(o, line) : j <= k].number.val

Params == [payload_len  : -(INT_MAX + 1)..INT_MAX,
           buffer_len   : -(INT_MAX + 1)..INT_MAX,
           read_timeout : [tv_sec : Nat, tv_nsec : 0..(Second - 1)],
           sched_period : {0, 1}]

TypeInv ==
    /\ TypeOK
    /\ params \in Params
    /\ HasLast("p", given) /\ HasLast("t", given)

\* `params` holds the last values given, narrowed and split; a default is
\* stored behind the loop.
NothingWrong == "error" \notin flags /\ "help" \notin flags

PayloadKept ==
    NothingWrong =>
        LET last == Last("p", DEFAULT_PAYLOAD_LENGTH, given)
        IN  /\ last \in 0..UINT_MAX
            /\ "payload_len" \notin flags => last = DEFAULT_PAYLOAD_LENGTH
            /\ "payload_len" \in flags \/ pc \in {"check", "running"} =>
                   params.payload_len = ToInt(last)

TimeoutKept ==
    NothingWrong =>
        LET last == Last("t", DEFAULT_READ_TIMEOUT, given)
        IN  /\ last \in Nat
            /\ "read_timeout" \notin flags => last = DEFAULT_READ_TIMEOUT
            /\ "read_timeout" \in flags \/ pc \in {"check", "running"} =>
                   params.read_timeout = SetTime(last)

\* The checks have let the parameters through.
Checked ==
    pc = "running" =>
        /\ params.payload_len >= 0
        /\ TimeoutPositive

\* What stops the loop is the last option, and it is remembered.
StopRemembered ==
    /\ ~("help" \in flags /\ "error" \in flags)
    /\ \A k \in DOMAIN given :
         (given[k].opt = "h" \/ Faulty(given[k])) =>
             /\ k = Len(given)
             /\ IF given[k].opt = "h" THEN "help" \in flags ELSE "error" \in flags
    /\ pc # "getopt" /\ "help" \in flags => pc = "exited" /\ exit_status = 0
    /\ pc # "getopt" /\ "error" \in flags => pc = "exited" /\ exit_status = -1

-----------------------------------------------------------------------------
\* Numbers

LEMMA ConstantsType ==
    /\ UINT_MAX \in Nat /\ INT_MAX \in Nat /\ UINT_MAX = 2 * INT_MAX + 1
    /\ ULONG_MAX \in Nat /\ UINT_MAX < ULONG_MAX
    /\ MIN_ENCAP_FRAME_SIZE \in Nat \ {0}
    /\ DEFAULT_PAYLOAD_LENGTH \in MIN_ENCAP_FRAME_SIZE..INT_MAX
    /\ DEFAULT_BUFFER_LENGTH \in 1..INT_MAX
    /\ DEFAULT_READ_TIMEOUT \in 1..ULONG_MAX
<1>1. UINT_MAX \in Nat /\ UINT_MAX = 2 * INT_MAX + 1
  BY ArgumentsAssumption DEF ArgumentsAssumption
<1>2. INT_MAX \in Nat
  BY <1>1 DEF INT_MAX
<1>3. QED
  BY <1>1, <1>2, ArgumentsAssumption DEF ArgumentsAssumption

\* An int takes the low bits: a length up to INT_MAX is kept, and one up to
\* UINT_MAX becomes negative.
LEMMA ToIntType ==
    ASSUME NEW val \in Nat
    PROVE  /\ ToInt(val) \in -(INT_MAX + 1)..INT_MAX
           /\ val <= INT_MAX => ToInt(val) = val
           /\ INT_MAX < val /\ val <= UINT_MAX => ToInt(val) < 0
<1>1. UINT_MAX \in Nat /\ INT_MAX \in Nat /\ UINT_MAX = 2 * INT_MAX + 1
  BY ConstantsType
<1>2. ASSUME NEW m \in Nat, NEW w \in Nat, w > 0
      PROVE  /\ m % w \in 0..(w - 1)
             /\ m < w => m % w = m
  BY <1>2, Z3
<1>3. PICK low \in 0..UINT_MAX : low = val % (UINT_MAX + 1) /\ (val < UINT_MAX + 1 => low = val)
  BY <1>1, <1>2
<1>4. ToInt(val) = IF low > INT_MAX THEN low - (UINT_MAX + 1) ELSE low
  BY <1>3 DEF ToInt
<1>5. QED
  BY <1>1, <1>3, <1>4

\* set_time() loses no millisecond.
LEMMA SetTimeType ==
    ASSUME NEW ms \in Nat
    PROVE  /\ SetTime(ms) \in [tv_sec : Nat, tv_nsec : 0..(Second - 1)]
           /\ TimeToLong(SetTime(ms)) = ms
           /\ SetTime(ms).tv_sec # 0 \/ SetTime(ms).tv_nsec # 0 => ms > 0
<1>1. PICK q \in Nat, r \in 0..999 : q = ms \div 1000 /\ r = ms % 1000 /\ ms = 1000 * q + r
  BY SMT
<1>2. Second \in Nat /\ Millisecond \in Nat
  BY SMT DEF Second, Millisecond
<1>3. r * Millisecond \in Nat /\ r * Millisecond <= Second - 1
  BY SMT DEF Second, Millisecond
<1>4. (r * Millisecond) \div Millisecond = r
  BY SMT DEF Millisecond
<1>5. r = 0 => r * Millisecond = 0
  BY <1>2, SMT
<1>6. PICK nsec \in 0..(Second - 1) :
         nsec = r * Millisecond /\ nsec \div Millisecond = r /\ (nsec # 0 => r # 0)
  BY <1>2, <1>3, <1>4, <1>5
<1>7. SetTime(ms) = [tv_sec |-> q, tv_nsec |-> nsec]
  BY <1>1, <1>6 DEF SetTime
<1>8. TimeToLong(SetTime(ms)) = ms
  <2>1. SetTime(ms).tv_sec = q /\ SetTime(ms).tv_nsec = nsec
    BY <1>7
  <2>2. TimeToLong(SetTime(ms)) = q * 1000 + r
    BY <1>6, <2>1 DEF TimeToLong
  <2>3. QED
    BY <1>1, <2>2
<1>9. q # 0 \/ r # 0 => ms > 0
  BY <1>1
<1>10. QED
  BY <1>6, <1>7, <1>8, <1>9

-----------------------------------------------------------------------------
\* Options

LEMMA OptionType ==
    ASSUME NEW o \in Options
    PROVE  /\ o \in Option
           /\ o.opt \in {"h", "?", "c", "i", "l", "r", "p", "b", "t"}
           /\ o.opt \in {"p", "b", "t"} => o.number.val \in Nat
<1>1. o \in Option
  BY ArgumentsAssumption DEF ArgumentsAssumption
<1>2. CASE o \in [opt : {"h", "?", "c"}]
  BY <1>1, <1>2
<1>3. CASE o \in [opt : {"i"}, exists : BOOLEAN]
  BY <1>1, <1>3
<1>4. CASE o \in [opt : {"l", "r"}, at : Addresses]
  BY <1>1, <1>4
<1>5. CASE o \in [opt : {"p", "b", "t"}, number : Numbers]
  <2>1. o.number.val \in 0..ULONG_MAX
    BY <1>5 DEF Numbers
  <2>2. QED
    BY <1>1, <1>5, <2>1, ConstantsType
<1>6. QED
  BY <1>1, <1>2, <1>3, <1>4, <1>5 DEF Option

\* The last value after one option more.
LEMMA LastAppend ==
    ASSUME NEW line \in Seq(Option), NEW x \in Option, NEW o, NEW default, HasLast(o, line)
    PROVE  /\ HasLast(o, Append(line, x))
           /\ Last(o, default, Append(line, x))
                = IF x.opt = o THEN x.number.val ELSE Last(o, default, line)
<1>1. PICK more : more = Append(line, x)
  OBVIOUS
<1>2. /\ Len(line) \in Nat /\ DOMAIN line = 1..Len(line) /\ DOMAIN more = 1..(Len(line) + 1)
      /\ more[Len(line) + 1] = x
      /\ \A k \in 1..Len(line) : more[k] = line[k]
      /\ \A k : k \in 1..(Len(line) + 1) <=> k \in 1..Len(line) \/ k = Len(line) + 1
  BY <1>1
<1>3. CASE x.opt = o
  <2>1. Len(line) + 1 \in At(o, more) /\ \A j \in At(o, more) : j <= Len(line) + 1
    BY <1>2, <1>3 DEF At
  <2>2. \A k \in At(o, more) : (\A j \in At(o, more) : j <= k) => k = Len(line) + 1
    BY <1>2, <2>1 DEF At
  <2>3. (CHOOSE k \in At(o, more) : \A j \in At(o, more) : j <= k) = Len(line) + 1
    BY <2>1, <2>2
  <2>4. Last(o, default, more) = x.number.val
    BY <1>2, <2>1, <2>3 DEF Last
  <2>5. HasLast(o, more)
    BY <2>1 DEF HasLast
  <2>6. QED
    BY <1>1, <1>3, <2>4, <2>5
<1>4. CASE x.opt # o
  <2>1. \A k : k \in At(o, more) <=> k \in At(o, line)
    BY <1>2, <1>4 DEF At
  <2>2. At(o, more) = At(o, line)
    BY <2>1
  <2>3. HasLast(o, more)
    BY <2>2 DEF HasLast
  <2>4. CASE At(o, line) = {}
    BY <1>1, <1>4, <2>2, <2>3, <2>4 DEF Last
  <2>5. CASE At(o, line) # {}
    <3>1. PICK n : n = CHOOSE k \in At(o, line) : \A j \in At(o, line) : j <= k
      OBVIOUS
    <3>2. n \in At(o, line)
      BY <2>5, <3>1 DEF HasLast
    <3>3. more[n] = line[n]
      BY <1>2, <3>2 DEF At
    <3>4. Last(o, default, more) = more[n].number.val /\ Last(o, default, line) = line[n].number.val
      BY <2>2, <2>5, <3>1 DEF Last
    <3>5. QED
      BY <1>1, <1>4, <2>3, <3>3, <3>4
  <2>6. QED
    BY <2>4, <2>5
<1>5. QED
  BY <1>3, <1>4

\* What one turn of the switch does: a stop is raised, or a value is kept.
LEMMA SwitchCases ==
    ASSUME NEW o \in Options, Switch(o)
    PROVE  \/ o.opt = "h" /\ flags' = flags \union {"help"} /\ params' = params
           \/ Faulty(o) /\ o.opt # "h" /\ flags' = flags \union {"error"} /\ params' = params
           \/ /\ o.opt \in {"i", "l", "r"} /\ ~Faulty(o) /\ params' = params
              /\ \E flag \in Required : flags' = flags \union {flag}
           \/ /\ o.opt = "p" /\ ~Faulty(o) /\ o.number.val <= UINT_MAX
              /\ Store("payload_len", ToInt(o.number.val))
           \/ o.opt = "b" /\ ~Faulty(o) /\ Store("buffer_len", ToInt(o.number.val))
           \/ o.opt = "t" /\ ~Faulty(o) /\ Store("read_timeout", SetTime(o.number.val))
<1>1. /\ o.opt \in {"h", "?", "c", "i", "l", "r", "p", "b", "t"}
      /\ o.opt \in {"p", "b", "t"} => o.number.val \in Nat
      /\ UINT_MAX \in Nat
  BY OptionType, ConstantsType
<1>2. CASE o.opt \in {"h", "?", "c"}
  BY <1>2 DEF Switch, Raise, Faulty
<1>3. CASE o.opt = "i"
  BY <1>3 DEF Switch, Raise, Faulty, Required
<1>4. CASE o.opt \in {"l", "r"}
  BY <1>4 DEF Switch, Raise, Faulty, Required
<1>5. CASE o.opt \in {"p", "b"}
  BY <1>1, <1>5 DEF Switch, Raise, Faulty, ParseLength
<1>6. CASE o.opt = "t"
  BY <1>6 DEF Switch, Raise, Faulty
<1>7. QED
  BY <1>1, <1>2, <1>3, <1>4, <1>5, <1>6

-----------------------------------------------------------------------------
\* Type correctness

LEMMA InitType == Init => TypeInv /\ PayloadKept /\ TimeoutKept /\ Checked /\ StopRemembered
<1> SUFFICES ASSUME Init
             PROVE  TypeInv /\ PayloadKept /\ TimeoutKept /\ Checked /\ StopRemembered
  OBVIOUS
<1>1. given = <<>> /\ given \in Seq(Option) /\ DOMAIN given = {}
  BY DEF Init
<1>2. /\ At("p", given) = {} /\ At("t", given) = {}
  BY <1>1 DEF At
<1>3. SetTime(0) \in [tv_sec : Nat, tv_nsec : 0..(Second - 1)]
  BY SetTimeType, SMT
<1>4. 0 \in -(INT_MAX + 1)..INT_MAX
  BY ConstantsType
<1>5. params \in Params
  BY <1>3, <1>4, SMT DEF Init, Params
<1>6. TypeOK
  <2>1. /\ params.payload_len \in -(INT_MAX + 1)..INT_MAX
        /\ params.buffer_len \in -(INT_MAX + 1)..INT_MAX
        /\ params.read_timeout \in [tv_sec : Nat, tv_nsec : 0..(Second - 1)]
        /\ params.sched_period \in {0, 1}
    BY <1>5, SMT DEF Params
  <2>2. QED
    BY <1>1, <2>1, SMT DEF Init, TypeOK, NotExited
<1>7. TypeInv
  BY <1>2, <1>5, <1>6 DEF TypeInv, HasLast
<1>8. PayloadKept /\ TimeoutKept
  <2>1. DEFAULT_PAYLOAD_LENGTH \in 0..UINT_MAX /\ DEFAULT_READ_TIMEOUT \in Nat
    BY ConstantsType
  <2>2. QED
    BY <1>2, <2>1 DEF Init, PayloadKept, TimeoutKept, Last
<1>9. QED
  BY <1>1, <1>7, <1>8 DEF Init, Checked, StopRemembered

\* What the options leave, with one option more.
LEMMA GetOptType == TypeInv /\ GetOpt => TypeInv'
<1> SUFFICES ASSUME TypeInv, GetOpt
             PROVE  TypeInv'
  OBVIOUS
<1>1. PICK o \in Options : given' = Append(given, o) /\ Switch(o)
  BY DEF GetOpt
<1>2. /\ o \in Option
      /\ o.opt \in {"p", "b", "t"} => o.number.val \in Nat
  BY OptionType
<1>3. given \in Seq(Option) /\ given' \in Seq(Option)
  BY <1>1, <1>2 DEF TypeInv, TypeOK
<1>4. HasLast("p", given') /\ HasLast("t", given')
  BY <1>1, <1>2, <1>3, LastAppend DEF TypeInv
<1>5. params \in Params /\ flags \in SUBSET Flags
  BY DEF TypeInv, TypeOK
<1>6. params' \in Params /\ flags' \in SUBSET Flags
  <2>1. CASE params' = params /\ \E flag \in Required \union {"help", "error"} :
                                   flags' = flags \union {flag}
    BY <1>5, <2>1 DEF Flags
  <2>2. CASE \E flag \in {"payload_len", "buffer_len"} :
                Store(flag, ToInt(o.number.val)) /\ o.opt \in {"p", "b"}
    <3>1. ToInt(o.number.val) \in -(INT_MAX + 1)..INT_MAX
      BY <1>2, <2>2, ToIntType
    <3>2. PICK flag \in {"payload_len", "buffer_len"} : Store(flag, ToInt(o.number.val))
      BY <2>2
    <3>3. QED
      BY <1>5, <3>1, <3>2 DEF Store, Params, Flags
  <2>3. CASE o.opt = "t" /\ Store("read_timeout", SetTime(o.number.val))
    <3>1. SetTime(o.number.val) \in [tv_sec : Nat, tv_nsec : 0..(Second - 1)]
      BY <1>2, <2>3, SetTimeType
    <3>2. QED
      BY <1>5, <2>3, <3>1 DEF Store, Params, Flags
  <2>4. QED
    BY <1>1, <2>1, <2>2, <2>3, SwitchCases
<1>7. TypeOK'
  <2>1. /\ params'.payload_len \in -(INT_MAX + 1)..INT_MAX
        /\ params'.buffer_len \in -(INT_MAX + 1)..INT_MAX
        /\ params'.read_timeout \in [tv_sec : Nat, tv_nsec : 0..(Second - 1)]
        /\ params'.sched_period \in {0, 1}
    BY <1>6 DEF Params
  <2>2. UNCHANGED <<program, pc, exit_status>>
    BY DEF GetOpt
  <2>3. QED
    BY <1>3, <1>6, <2>1, <2>2 DEF TypeInv, TypeOK
<1>8. QED
  BY <1>4, <1>6, <1>7 DEF TypeInv

\* The option that is kept is the last one given.
LEMMA GetOptKeeps ==
    TypeInv /\ PayloadKept /\ TimeoutKept /\ GetOpt => PayloadKept' /\ TimeoutKept'
<1> SUFFICES ASSUME TypeInv, PayloadKept, TimeoutKept, GetOpt, NothingWrong'
             PROVE  PayloadKept' /\ TimeoutKept'
  BY DEF PayloadKept, TimeoutKept
<1>1. PICK o \in Options : given' = Append(given, o) /\ Switch(o)
  BY DEF GetOpt
<1>2. /\ o \in Option
      /\ o.opt \in {"p", "b", "t"} => o.number.val \in Nat
  BY OptionType
<1>3. NothingWrong /\ pc = "getopt" /\ pc' = "getopt"
  BY DEF GetOpt, LoopGoesOn, NothingWrong
<1>4. /\ Last("p", DEFAULT_PAYLOAD_LENGTH, given')
           = IF o.opt = "p" THEN o.number.val ELSE Last("p", DEFAULT_PAYLOAD_LENGTH, given)
      /\ Last("t", DEFAULT_READ_TIMEOUT, given')
           = IF o.opt = "t" THEN o.number.val ELSE Last("t", DEFAULT_READ_TIMEOUT, given)
  BY <1>1, <1>2, LastAppend DEF TypeInv, TypeOK
<1>5. PICK p : p = Last("p", DEFAULT_PAYLOAD_LENGTH, given)
  OBVIOUS
<1>6. PICK t : t = Last("t", DEFAULT_READ_TIMEOUT, given)
  OBVIOUS
<1>7. /\ p \in 0..UINT_MAX
      /\ "payload_len" \notin flags => p = DEFAULT_PAYLOAD_LENGTH
      /\ "payload_len" \in flags => params.payload_len = ToInt(p)
  BY <1>3, <1>5 DEF PayloadKept
<1>8. /\ t \in Nat
      /\ "read_timeout" \notin flags => t = DEFAULT_READ_TIMEOUT
      /\ "read_timeout" \in flags => params.read_timeout = SetTime(t)
  BY <1>3, <1>6 DEF TimeoutKept
<1>9. params \in Params /\ UINT_MAX \in Nat
  BY ConstantsType DEF TypeInv
<1>10. CASE o.opt \in {"i", "l", "r"} /\ params' = params
            /\ \E flag \in Required : flags' = flags \union {flag}
  <2>1. /\ "payload_len" \in flags' <=> "payload_len" \in flags
        /\ "read_timeout" \in flags' <=> "read_timeout" \in flags
    BY <1>10 DEF Required
  <2>2. QED
    BY <1>3, <1>4, <1>5, <1>6, <1>7, <1>8, <1>10, <2>1 DEF PayloadKept, TimeoutKept
<1>11. CASE o.opt = "p" /\ o.number.val <= UINT_MAX /\ Store("payload_len", ToInt(o.number.val))
  <2>1. /\ params'.payload_len = ToInt(o.number.val)
        /\ params'.read_timeout = params.read_timeout
    BY <1>9, <1>11 DEF Store, Params
  <2>2. "payload_len" \in flags' /\ ("read_timeout" \in flags' <=> "read_timeout" \in flags)
    BY <1>11 DEF Store
  <2>3. o.number.val \in 0..UINT_MAX
    BY <1>2, <1>9, <1>11
  <2>4. QED
    BY <1>3, <1>4, <1>6, <1>8, <1>11, <2>1, <2>2, <2>3 DEF PayloadKept, TimeoutKept
<1>12. CASE o.opt = "b" /\ Store("buffer_len", ToInt(o.number.val))
  <2>1. /\ params'.payload_len = params.payload_len
        /\ params'.read_timeout = params.read_timeout
    BY <1>9, <1>12 DEF Store, Params
  <2>2. /\ "payload_len" \in flags' <=> "payload_len" \in flags
        /\ "read_timeout" \in flags' <=> "read_timeout" \in flags
    BY <1>12 DEF Store
  <2>3. QED
    BY <1>3, <1>4, <1>5, <1>6, <1>7, <1>8, <1>12, <2>1, <2>2 DEF PayloadKept, TimeoutKept
<1>13. CASE o.opt = "t" /\ Store("read_timeout", SetTime(o.number.val))
  <2>1. /\ params'.read_timeout = SetTime(o.number.val)
        /\ params'.payload_len = params.payload_len
    BY <1>9, <1>13 DEF Store, Params
  <2>2. "read_timeout" \in flags' /\ ("payload_len" \in flags' <=> "payload_len" \in flags)
    BY <1>13 DEF Store
  <2>3. QED
    BY <1>2, <1>3, <1>4, <1>5, <1>7, <1>13, <2>1, <2>2 DEF PayloadKept, TimeoutKept
<1>14. "help" \notin flags' /\ "error" \notin flags'
  BY DEF NothingWrong
<1>15. QED
  BY <1>1, <1>10, <1>11, <1>12, <1>13, <1>14, SwitchCases

\* The loop stops at the first stop, so no earlier option is one.
LEMMA GetOptStops == TypeInv /\ StopRemembered /\ GetOpt => StopRemembered'
<1> SUFFICES ASSUME TypeInv, StopRemembered, GetOpt
             PROVE  StopRemembered'
  OBVIOUS
<1>1. PICK o \in Options : given' = Append(given, o) /\ Switch(o)
  BY DEF GetOpt
<1>2. /\ given \in Seq(Option) /\ o \in Option
      /\ Len(given) \in Nat /\ DOMAIN given = 1..Len(given)
  BY OptionType DEF TypeInv, TypeOK
<1>3. pc' = "getopt" /\ "help" \notin flags /\ "error" \notin flags
  BY DEF GetOpt, LoopGoesOn
<1>4. /\ Len(given') = Len(given) + 1 /\ DOMAIN given' = 1..(Len(given) + 1)
      /\ given'[Len(given) + 1] = o
      /\ \A k \in DOMAIN given : given'[k] = given[k]
      /\ \A k : k \in 1..(Len(given) + 1) => k \in 1..Len(given) \/ k = Len(given) + 1
  BY <1>1, <1>2
<1>5. \A k \in DOMAIN given : ~(given[k].opt = "h" \/ Faulty(given[k]))
  BY <1>3 DEF StopRemembered
<1>6. /\ o.opt = "h" => "help" \in flags' /\ "error" \notin flags'
      /\ o.opt # "h" /\ Faulty(o) => "error" \in flags' /\ "help" \notin flags'
      /\ ~("help" \in flags' /\ "error" \in flags')
  BY <1>1, <1>3, SwitchCases DEF Store, Required
<1>7. ASSUME NEW k \in DOMAIN given', given'[k].opt = "h" \/ Faulty(given'[k])
      PROVE  k = Len(given') /\ given'[k] = o
  BY <1>2, <1>4, <1>5, <1>7
<1>8. \A k \in DOMAIN given' :
         (given'[k].opt = "h" \/ Faulty(given'[k])) =>
             /\ k = Len(given')
             /\ IF given'[k].opt = "h" THEN "help" \in flags' ELSE "error" \in flags'
  BY <1>6, <1>7
<1>9. QED
  BY <1>3, <1>6, <1>8 DEF StopRemembered, Faulty

-----------------------------------------------------------------------------
\* Behind the loop

LEMMA GetOptEndsKeeps ==
    TypeInv /\ PayloadKept /\ TimeoutKept /\ GetOptEnds =>
        TypeInv' /\ PayloadKept' /\ TimeoutKept' /\ Checked'
<1> SUFFICES ASSUME TypeInv, PayloadKept, TimeoutKept, GetOptEnds
             PROVE  TypeInv' /\ PayloadKept' /\ TimeoutKept' /\ Checked'
  OBVIOUS
<1>1. UNCHANGED <<program, given, flags>> /\ pc = "getopt"
  BY DEF GetOptEnds
<1>2. params \in Params
  BY DEF TypeInv
<1>3. CASE /\ pc' = "exited" /\ exit_status' \in {0, -1} /\ params' = params
  <2>1. TypeInv'
    BY <1>1, <1>3 DEF TypeInv, TypeOK
  <2>2. PayloadKept' /\ TimeoutKept'
    BY <1>1, <1>3 DEF PayloadKept, TimeoutKept, NothingWrong
  <2>3. QED
    BY <1>3, <2>1, <2>2 DEF Checked
<1>4. CASE /\ NothingWrong /\ pc' = "check" /\ exit_status' = exit_status
           /\ params' = [params EXCEPT
                !.read_timeout = Defaulted("read_timeout", SetTime(DEFAULT_READ_TIMEOUT)),
                !.payload_len  = Defaulted("payload_len", DEFAULT_PAYLOAD_LENGTH),
                !.buffer_len   = Defaulted("buffer_len", DEFAULT_BUFFER_LENGTH)]
  <2> DEFINE timeout == Defaulted("read_timeout", SetTime(DEFAULT_READ_TIMEOUT))
             payload == Defaulted("payload_len", DEFAULT_PAYLOAD_LENGTH)
             buffer  == Defaulted("buffer_len", DEFAULT_BUFFER_LENGTH)
  <2>1. /\ DEFAULT_READ_TIMEOUT \in Nat
        /\ DEFAULT_PAYLOAD_LENGTH \in Nat /\ DEFAULT_PAYLOAD_LENGTH <= INT_MAX
        /\ DEFAULT_PAYLOAD_LENGTH \in -(INT_MAX + 1)..INT_MAX
        /\ DEFAULT_BUFFER_LENGTH \in -(INT_MAX + 1)..INT_MAX
    BY ConstantsType
  <2>2. SetTime(DEFAULT_READ_TIMEOUT) \in [tv_sec : Nat, tv_nsec : 0..(Second - 1)]
    BY <2>1, SetTimeType
  <2>3. /\ timeout = IF "read_timeout" \in flags THEN params.read_timeout
                                                 ELSE SetTime(DEFAULT_READ_TIMEOUT)
        /\ payload = IF "payload_len" \in flags THEN params.payload_len
                                                ELSE DEFAULT_PAYLOAD_LENGTH
        /\ buffer = IF "buffer_len" \in flags THEN params.buffer_len
                                              ELSE DEFAULT_BUFFER_LENGTH
    BY DEF Defaulted
  <2>4. /\ timeout \in [tv_sec : Nat, tv_nsec : 0..(Second - 1)]
        /\ payload \in -(INT_MAX + 1)..INT_MAX /\ buffer \in -(INT_MAX + 1)..INT_MAX
    BY <1>2, <2>1, <2>2, <2>3 DEF Params
  <2>5. /\ params' \in Params
        /\ params'.payload_len = payload /\ params'.buffer_len = buffer
        /\ params'.read_timeout = timeout /\ params'.sched_period \in {0, 1}
    <3> HIDE DEF timeout, payload, buffer
    <3>1. params' = [params EXCEPT !.read_timeout = timeout, !.payload_len = payload,
                                   !.buffer_len = buffer]
      BY <1>4 DEF timeout, payload, buffer
    <3>2. QED
      BY <1>2, <2>4, <3>1 DEF Params
  <2>6. TypeInv'
    BY <1>1, <1>4, <2>4, <2>5 DEF TypeInv, TypeOK
  <2>7. PayloadKept'
    <3>1. ToInt(DEFAULT_PAYLOAD_LENGTH) = DEFAULT_PAYLOAD_LENGTH
      BY <2>1, ToIntType
    <3>2. QED
      BY <1>1, <1>4, <2>3, <2>5, <3>1 DEF PayloadKept, NothingWrong
  <2>8. TimeoutKept'
    BY <1>1, <1>4, <2>3, <2>5 DEF TimeoutKept, NothingWrong
  <2>9. QED
    BY <1>4, <2>6, <2>7, <2>8 DEF Checked
<1>5. QED
  BY <1>3, <1>4 DEF GetOptEnds, Exit, NothingWrong, Rejected

LEMMA GetOptEndsStops == StopRemembered /\ GetOptEnds => StopRemembered'
BY DEF StopRemembered, GetOptEnds, Exit, Rejected, Faulty

LEMMA CheckKeeps ==
    TypeInv /\ PayloadKept /\ TimeoutKept /\ StopRemembered /\ Check =>
        TypeInv' /\ PayloadKept' /\ TimeoutKept' /\ Checked' /\ StopRemembered'
<1> SUFFICES ASSUME TypeInv, PayloadKept, TimeoutKept, StopRemembered, Check
             PROVE  TypeInv' /\ PayloadKept' /\ TimeoutKept' /\ Checked' /\ StopRemembered'
  OBVIOUS
<1>1. /\ UNCHANGED <<program, given, flags, params>> /\ pc = "check"
      /\ \/ TimeoutPositive /\ PayloadLenValid /\ pc' = "running" /\ exit_status' = exit_status
         \/ pc' = "exited" /\ exit_status' = -2
  BY DEF Check, Exit
<1>2. TypeInv'
  BY <1>1 DEF TypeInv, TypeOK
<1>3. PayloadKept' /\ TimeoutKept'
  BY <1>1 DEF PayloadKept, TimeoutKept, NothingWrong
<1>4. Checked'
  <2>1. MIN_ENCAP_FRAME_SIZE \in Nat /\ params.payload_len \in -(INT_MAX + 1)..INT_MAX
        /\ INT_MAX \in Nat
    BY ConstantsType DEF TypeInv, TypeOK
  <2>2. PayloadLenValid => params.payload_len >= 0
    BY <2>1 DEF PayloadLenValid
  <2>3. QED
    BY <1>1, <2>2 DEF Checked, TimeoutPositive
<1>5. StopRemembered'
  <2>1. "help" \notin flags /\ "error" \notin flags
    BY <1>1 DEF StopRemembered
  <2>2. QED
    BY <1>1, <2>1 DEF StopRemembered, Faulty
<1>6. QED
  BY <1>2, <1>3, <1>4, <1>5

LEMMA ProcessReturnsKeeps ==
    TypeInv /\ PayloadKept /\ TimeoutKept /\ StopRemembered /\ ProcessReturns =>
        TypeInv' /\ PayloadKept' /\ TimeoutKept' /\ Checked' /\ StopRemembered'
<1> SUFFICES ASSUME TypeInv, PayloadKept, TimeoutKept, StopRemembered, ProcessReturns
             PROVE  TypeInv' /\ PayloadKept' /\ TimeoutKept' /\ Checked' /\ StopRemembered'
  OBVIOUS
<1>1. /\ UNCHANGED <<program, given, flags, params>> /\ pc = "running"
      /\ pc' = "exited" /\ exit_status' \in {0, -2}
  BY DEF ProcessReturns, Exit
<1>2. TypeInv' /\ Checked'
  BY <1>1 DEF TypeInv, TypeOK, Checked
<1>3. PayloadKept' /\ TimeoutKept'
  BY <1>1 DEF PayloadKept, TimeoutKept, NothingWrong
<1>4. StopRemembered'
  <2>1. "help" \notin flags /\ "error" \notin flags
    BY <1>1 DEF StopRemembered
  <2>2. QED
    BY <1>1, <2>1 DEF StopRemembered, Faulty
<1>5. QED
  BY <1>2, <1>3, <1>4

-----------------------------------------------------------------------------
\* The theorems

Inv == TypeInv /\ PayloadKept /\ TimeoutKept /\ Checked /\ StopRemembered

LEMMA Invariant == Spec => []Inv
<1>1. Init => Inv
  BY InitType DEF Inv
<1>2. Inv /\ [Next]_vars => Inv'
  <2> SUFFICES ASSUME Inv, [Next]_vars
               PROVE  Inv'
    OBVIOUS
  <2>1. CASE GetOpt
    <3>1. Checked'
      BY <2>1 DEF GetOpt, Checked
    <3>2. QED
      BY <2>1, <3>1, GetOptType, GetOptKeeps, GetOptStops DEF Inv
  <2>2. CASE GetOptEnds
    BY <2>2, GetOptEndsKeeps, GetOptEndsStops DEF Inv
  <2>3. CASE Check
    BY <2>3, CheckKeeps DEF Inv
  <2>4. CASE ProcessReturns
    BY <2>4, ProcessReturnsKeeps DEF Inv
  <2>5. CASE UNCHANGED vars
    <3>1. TypeInv' /\ Checked'
      BY <2>5 DEF Inv, vars, TypeInv, TypeOK, Checked, TimeoutPositive
    <3>2. PayloadKept' /\ TimeoutKept'
      BY <2>5 DEF Inv, vars, PayloadKept, TimeoutKept, NothingWrong
    <3>3. StopRemembered'
      BY <2>5 DEF Inv, vars, StopRemembered, Faulty
    <3>4. QED
      BY <3>1, <3>2, <3>3 DEF Inv
  <2>6. QED
    BY <2>1, <2>2, <2>3, <2>4, <2>5 DEF Next
<1>3. QED
  BY <1>1, <1>2, PTL DEF Spec

\* Every field of main()'s parameters stays within its C type, whatever
\* numbers are given.
THEOREM TypeCorrect == Spec => []TypeOK
<1>1. Inv => TypeOK
  BY DEF Inv, TypeInv
<1>2. QED
  BY <1>1, Invariant, PTL

\* process_encap() and process_decap() run with the payload length and the
\* timeout given last: a length that would wrap turns negative and is refused,
\* and no millisecond is lost.
THEOREM LoopRunsAsGiven == Spec => []RunsAsGiven
<1>1. Inv => RunsAsGiven
  <2> SUFFICES ASSUME Inv, pc = "running"
               PROVE  RunsAsGiven
    BY DEF RunsAsGiven
  <2>1. /\ LastOf("p", DEFAULT_PAYLOAD_LENGTH) = Last("p", DEFAULT_PAYLOAD_LENGTH, given)
        /\ LastOf("t", DEFAULT_READ_TIMEOUT) = Last("t", DEFAULT_READ_TIMEOUT, given)
    BY DEF LastOf, Last, At
  <2>2. NothingWrong
    BY DEF Inv, StopRemembered, NothingWrong
  <2>3. PICK p \in 0..UINT_MAX :
           p = Last("p", DEFAULT_PAYLOAD_LENGTH, given) /\ params.payload_len = ToInt(p)
    BY <2>2 DEF Inv, PayloadKept
  <2>4. params.payload_len = p
    <3>1. p \in Nat /\ p <= UINT_MAX /\ INT_MAX \in Nat
      BY <2>3, ConstantsType
    <3>2. /\ params.payload_len >= 0 /\ params.payload_len \in -(INT_MAX + 1)..INT_MAX
      BY DEF Inv, Checked, TypeInv, TypeOK
    <3>3. QED
      BY <2>3, <3>1, <3>2, ToIntType
  <2>5. PICK t \in Nat :
           t = Last("t", DEFAULT_READ_TIMEOUT, given) /\ params.read_timeout = SetTime(t)
    BY <2>2 DEF Inv, TimeoutKept
  <2>6. TimeToLong(params.read_timeout) = t /\ t > 0
    <3>1. TimeoutPositive
      BY DEF Inv, Checked
    <3>2. QED
      BY <2>5, <3>1, SetTimeType DEF TimeoutPositive
  <2>7. QED
    BY <2>1, <2>3, <2>4, <2>5, <2>6 DEF RunsAsGiven
<1>2. QED
  BY <1>1, Invariant, PTL

\* The first -h or faulty option is the last one looked at, and gives main()'s
\* exit status.
THEOREM FirstStopEnds == Spec => []FirstStopDecides
<1>1. Inv => FirstStopDecides
  <2> SUFFICES ASSUME Inv, NEW k \in DOMAIN given, given[k].opt = "h" \/ Faulty(given[k])
               PROVE  /\ k = Len(given)
                      /\ pc # "getopt" => exit_status = IF given[k].opt = "h" THEN 0 ELSE -1
    BY DEF FirstStopDecides
  <2>1. /\ k = Len(given)
        /\ IF given[k].opt = "h" THEN "help" \in flags ELSE "error" \in flags
    BY DEF Inv, StopRemembered
  <2>2. QED
    BY <2>1 DEF Inv, StopRemembered
<1>2. QED
  BY <1>1, Invariant, PTL
=============================================================================
