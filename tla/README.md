# Verification of dvb_gse_tunnel

TLA+ models of the GSE tunnel: the C programs `satencap` and `satdecap`, the
network between them, their command line, the same tunnel in Rust, and the
scripts that start and stop the programs. TLC checks small instances, TLAPS
proves part of the results for every value of the constants. `PROJECT.json`
lists the runs, the lines every definition translates, the hazards of the code,
the findings and the theorems. Paths below are relative to `src/`; `tap_udp`
stands for `c/src/tap_udp`.

## The system

`satencap` reads Ethernet frames from a TAP interface, gives each to libgse,
which cuts it into GSE packets, and sends every packet in a UDP datagram of its
own. `satdecap` reads the datagrams, gives the packets in each to libgse, and
writes every frame that libgse completes to another TAP interface. The tunnel is
one way; nothing is acknowledged or sent again.

    frames -> TAP -> satencap -> libgse FIFO -> UDP ~~~ network ~~~ UDP -> satdecap -> libgse -> TAP -> frames

| Component | State | Operations | Interacts with |
|---|---|---|---|
| Stop signals (`process_encap.c`, `process_decap.c`) | `alive`, the handlers installed, signals held back by `pselect()` | `signal()`, `sighandler()`, stores to `alive`, tests of it, `pselect()` | shared variable between handler and loop |
| Encapsulation process (`process_encap.c`, `tap.c`, `udp.c`) | descriptors, `vfrag_pdu`, libgse's FIFO, `err`, return value | check, create contexts, arm, read a frame, queue it, drain the FIFO, pad, send, clean | kernel (TAP, UDP), libgse, signals |
| Decapsulation process (`process_decap.c`, `tap.c`, `udp.c`) | descriptors, `data_received`, `len_received`, `len_decapsulated`, `gse_length`, libgse's reassembly context | check, create context, arm, read a datagram, walk through it, write a frame, clean | kernel, libgse, signals |
| Command line (`satencap.c`, `satdecap.c`, `utils.c`) | `flags`, `params`, exit status | `getopt()` loop, parsing, defaults, parameter checks | starts the processes |
| libgse | FIFO of PDUs, one reassembly context per QoS value | queue, cut, join | external |
| Network | datagrams in flight | carry, lose, copy, reorder | external |
| Packet headers (`c/src/common/pkt_header.c`) | none | parse MAC and IPv4 headers, print addresses | one error message uses it |
| Rust tunnel (`rust/`) | connected sockets, free storages, counter | open, bind, connect, read, encapsulate, pad, send; receive, decapsulate, write, provision; no signal is handled, every error ends the program | kernel (TAP, UDP, ICMP errors), crate dvb_gse_rust |
| Rust transparent tunnel (`rust_testimonial/`) | connected sockets | copies frames into datagrams and back | kernel |
| Testbed (`testbed/`) | PID file, interfaces | setup, start, stop, force-stop, cleanup | starts the programs, sends SIGINT and SIGTERM |

What is hard about it, and what has to hold:

- **Stop signals.** A handler writes the variable the loop tests, and loop errors
  are kept in the same variable. A stop must end the process, also under load
  and in the middle of a datagram, and must not let more than one more frame or
  packet through.
- **Encapsulation.** The drain loop gives up after five errors and leaves PDUs
  in the FIFO, to which the next frames are queued; a `sendto()` may fail
  between two fragments; a freed PDU is asked for its length; a full FIFO
  disables the process. No byte may be sent twice, skipped or overtaken.
- **Decapsulation.** A datagram may hold several packets, padding or a cut
  packet. When libgse sets no length, the length of the packet before is added
  once more. The walk must never parse the middle of a packet, skip a packet or
  run for ever.
- **End to end.** UDP loses, duplicates and reorders fragments that are joined
  in one context, and either program may be started again while the other holds
  half of a frame. What comes out must be what went in, and the tunnel must
  recover once the losses and restarts stop.
- **Rust.** An error of one end is an exit, and an exit of the receiver becomes
  an error of the sender. Short frames must get through for ever, and nothing
  but what is known to end a program may end it.
- **Testbed.** Signals are sent to programs that may not have a handler yet, may
  be ending, or ignore them. No program of the last start may be lost.
- **Command line.** Numbers are narrowed from `unsigned long` to `int`; errors
  and help may come in any order; one parameter is checked but never set.

## Modules

| Module | Models |
|---|---|
| `Phases`, `Program` | A C program as the testbed sees it: five phases, and what leads from one to the next. |
| `StopFlag` | `alive` and the signals, as both C programs use them. Extended by the two processes. |
| `Gse` | What the programs rely on of libgse, and datagrams as lists of packets. External, except `MIN_ENCAP_FRAME_SIZE`. |
| `ProcessEncap` | `process_encap()` from its first line to its return; implements `Program`. |
| `ProcessDecap` | `process_decap()` likewise. |
| `TunnelService` | The abstract tunnel: frames are offered and delivered. |
| `CTunnel` | Both processes (by `INSTANCE`), their restarts and the network; implements `TunnelService`. |
| `RustTunnel` | The two tunnels in Rust, each with both programs and the network; implements `TunnelService`. |
| `Testbed` | `start`, `stop` and `force-stop` beside the programs, which are taken as `Phases` describes them. |
| `Arguments` | `main()`, `parse_arguments()`, `utils.c`, the parameter checks. |
| `GseProofs`, `QueueProofs` | Lemmas about the operators of `Gse` and about queues, used by the modules below. |
| `ProcessEncapProofs`, `ProcessDecapProofs`, `CTunnelProofs`, `RustTunnelProofs`, `ArgumentsProofs`, `TestbedProofs` | Theorems about the module of that name. |
| `MC*` | Values of the constants for TLC. |

`Program` joins two parts that meet only through signals: `ProcessEncap` and
`ProcessDecap` are shown to implement it, and `Testbed` moves its C programs by
the same `MovesTo` and `Interrupted`.

### How state and actions correspond to the code

`pc` names the code that runs next. In the processes, a step is the code between
two points at which a signal makes a difference: a store to `alive`, a test of
it, and `pselect()`. Between two such points the process only touches what no
one else sees, so the code may run as one step. `alive`, `vfrag_pdu`, `err`,
`len_received`, `len_decapsulated` and `gse_length` are the variables of the
same names; `fds` is the set of open descriptors; `tap` and `sock` are the
kernel's queues (in `ProcessDecap`, `tap` is what was written); `fifo` and `ctx`
are libgse's; `status` is the returned value. `net`, `accepted`, `lost`, `late`
and `seen` are history variables that no guard reads (`net` is also what enters
the network in `CTunnel`). In `RustTunnel`, `tap_d` holds the sender's frames that
came out and `foreign` counts the others.

| `ProcessEncap` | `tap_udp/process_encap.c` |
|---|---|
| `CheckParams`, `CreateRecv`, `CreateSend` | 77-86 with the functions they call |
| `InstallHandlers`, `Arm`, `EncapInit` | 88-99, 101-104, 106-118 |
| `LoopTest`, `EnterSelect`, `SelectReturns`, `LoopFailed` | 119-130 |
| `ReceiveFrame` | 132-200: dropped, refused by libgse, or accepted |
| `GetPacket`, `GetPacketFails`, `DrainEnds` | the drain loop, 201-230 |
| `Clean` | 234-239 |

| `ProcessDecap` | `tap_udp/process_decap.c` |
|---|---|
| `CheckParams`, `CreateCtxt`, `InstallHandlers`, `Arm`, `DeencapInit` | 58-97 |
| `LoopTest` ... `LoopFailed` | 99-113, and 120 for a failed read |
| `ReadDatagram` | 115-135 with `read_udp()` |
| `InnerTest` | 136 |
| `DecapPacket` | 137-193: `VfragFails`, `TooShort`, `CutPacket`, `WholePacket`, `PaddingFound` |
| `Clean` | 197-201 |

Data are byte ranges: packet `[id, from, to, total]` carries bytes `from+1..to`
of frame `id`. A datagram is the list of its packets and a number of padding
bytes; the receiver walks through it by byte position, and what libgse answers
depends on what starts at that position.

| `RustTunnel` | `rust/src` | `rust_testimonial/src` |
|---|---|---|
| `SenderSetsUp`, `ReceiverSetsUp` | `common.rs` 98-128, `satencap.rs` 60-61, `satdecap.rs` 41-42 | the same |
| `SenderReads`, `SenderReadFails`, `SenderSends` | `satencap.rs` 64-66, 78-113 | `satencap.rs` 44-46 |
| `ReceiverReads`, `ReceiverReadFails`, `ReceiverWrites` | `satdecap.rs` 57-70, 72-73 | `satdecap.rs` 41-42 |
| `Accepts`, `Carry` | a connected socket takes its peer's datagrams only; a datagram without a socket may make the next `send()` fail | the same |

| `Testbed` | `testbed/testbed-common.sh` |
|---|---|
| `Start`, `StartProgram`, `WritePids` | `start()` of `testbed-netns.sh` 98-110, 110-134 |
| `Stop`, `KillInt`, `Sleep`, `KillTerm` | 155-160, 164-176 |
| `CheckRunning`, `CheckEnds` | 136-153 |

A step of `Testbed` is one command of the shell. The shell visits PIDs in the
order of the list; the model in any order. In `RustTunnel` a step is the code up
to the next call that touches a queue, because each program is one task. A panic
is an end like any other: the kernel closes what was open.

In `Arguments` an option's text is what `strtoul()` and `strtok()` make of it.
`Int` values are narrowed as two's complement with widths given by constants.

### What the models assume

- **libgse** (not in the repository). PDUs leave the FIFO in order;
  a packet is at most the demanded length and `GSE_MAX_PACKET_LENGTH` long and
  carries at least one byte; a PDU that is packed whole is destroyed; a
  reassembled PDU is handed out only when its length and CRC are right, which the
  model takes as "exactly the bytes of one PDU"; `gse_length` is set as soon
  as a header was read, also when the packet was cut, and not otherwise. One
  reassembly context, because `QOS_COUNT` is 1.
- When libgse cannot create a virtual fragment it leaves NULL in the caller's
  pointer, and it refuses NULL later on. The C programs go on after such a failure
  (`process_encap.c:134`, `process_decap.c:146`): if the pointer kept its old value
  they would touch a fragment that libgse has freed.
- Headers have one length; the CRC trailer takes no room and labels are left
  out: no property depends on them.
- A field `payload_len` above the receive buffer (`GSE_MAX_PACKET_LENGTH + 2`) is
  outside `ProcessDecap` (`DecapAssumption`). `malloc()` does not fail.
- `Recovers` is about a satdecap whose `-p` is at least as long as the sender's
  datagrams (`SizesAgree`): with a shorter one every large frame is cut and lost.
- The uninitialised `gse_length` and `sched_period` are nondeterministic choices.
- A stray datagram, from elsewhere, has another source address than the peer's.
- A C program that is started again loses its memory, its socket's queue and
  the frames that waited on its TAP interface. It gets its devices again.
- A shell without job control starts background programs with SIGINT ignored
  (`RaiseIgnored`, `Phases`); in a shell with job control the signal kills until
  a handler is installed (`RaiseDefault`).
- In `Testbed` a PID is never used twice, and at most one process holds the TAP
  interface of a role; a second one ends, although `SO_REUSEADDR` (`udp.c:26`) may
  let it bind the port first.
- **dvb_gse_rust** (not in the repository) fills the buffer it is given, answers
  a complete packet with a frame in a storage of its own, and anything else with
  a status on which `satdecap.rs` leaves its loop. Frames stay below the 65535
  bytes it can encapsulate.

## Runs

| Run | Question | Result |
|---|---|---|
| `encap_constant` | safety and stop of `satencap` with datagrams of constant size, every call failing at will | holds |
| `encap_variable` | the same FIFO with datagrams of variable size: is the freed PDU ever relied on? | holds |
| `encap_lost_stop` | does every handled signal stop the process? | violated: finding 1 |
| `encap_masked_error` | is a loop error returned as -2? | violated: finding 2 |
| `decap` | alignment, completeness, termination and stop of `satdecap` | holds |
| `tunnel_adversarial` | does the tunnel implement `TunnelService` with restarts, failing writes, and a network that reorders, loses, copies and brings strays? | holds |
| `tunnel_recovery` | does it, with order, with losses and restarts, and does it recover? | holds |
| `arguments` | does the loop run with what the user gave; who decides the exit status? | holds |
| `arguments_sched_period` | are the three required arguments enough to start? | violated: finding 3 |
| `rust_tunnel` | do the Rust tunnels implement `TunnelService`, what ends their programs, and do short frames get through? | holds |
| `testbed` | does any program of the last start escape the scripts, and do signals end what they should? | holds |
| `testbed_rust_stop` | does `stop` end the Rust programs? | violated: finding 4 |

### Bounds and why they are enough

- Headers of 2 bytes and trailers of 1 make `MIN_ENCAP_FRAME_SIZE` 6, and packets
  have at most 7 bytes: a frame of 3 bytes is sent whole, one of 9 is cut to
  `BufferLen` = 8 and sent in two or three fragments. First, middle and last
  fragments, padding and the minimal payload length all occur.
- `MAX_FRAG` = 2 and `ErrLimit` = 2 instead of 100 and 5, with three or four
  frames: PDUs stay behind twice, the FIFO fills up, and a frame is refused
  after that. The code only hands the
  one to libgse and compares `err` with the other.
- Two signals in `encap_constant`: one may be handled before the other is held
  back by `pselect()`. One suffices elsewhere, as a second stores 1 over 1.
- Three datagrams in `decap`, drawn from eleven: a rest shorter than a header,
  a cut packet, packets behind an error, a foreign source, an empty datagram, a
  context left half full. `MaxDatagrams` = 3 gives a complete fragmented frame.
- The adversarial tunnel carries two frames with any two of: a loss, a copy, a
  stray, a restart of either process; fragments of two frames mix in every
  order. The recovery run has two frames and two losses or restarts: the second
  frame meets what is left of the first, on either side. Three frames with one
  incident were checked as well and hold; the run is left out for its length.
- `rust_tunnel` has two storages and three frames: a storage that is not given
  back is missed at the third (the code has three storages; four frames hold as
  well). `-p` is 0, between a short and a full packet, or beyond the buffer; `-b`
  cuts frames or is beyond the buffer. Two incidents: for instance a restart of
  the receiver and a stray between its `bind()` and `connect()`.
- `testbed` runs `start` twice, so that one may run over the other, and three
  stops of either kind: a process may survive one because it had no handler, a
  second because it had not cleared `alive`, and meet a third.
- Command lines have up to five options of sixteen, each any number of times:
  enough for the three required ones and two others, for instance the same `-p`
  twice or two of them in either order. The theorems hold for any number. An `int` has 16 bits and an `unsigned long` 24.

### Fairness

`WF_vars(Step)` for each process: it is scheduled, `pselect()` returns after at
most `read_timeout` (positive by the parameter checks), and no call blocks for
ever (`recvfrom()` is called on a readable socket). `WF_vars(Carry)`: the network
delivers what it does not lose. Frames, signals, losses, copies and failures are
under no fairness: they need never happen. `Next` of a process contains several
actions that are enabled together only as outcomes of one call, so one weak
fairness condition on all of `Step` is right. The same holds of
`Sender` and `Receiver` in `RustTunnel`, where fairness is on the steps in which no
call fails (`AllWell`): a program that waits for a frame or a datagram for ever
need not fail for that. In
`Testbed` the shell goes on (`Script`) and so does every program that is not in
its main loop (`MovesOn`); nobody has to run a command. `Program` has
`WF_phase(MovesOn)`, which the processes are shown to provide.

`CHECK_DEADLOCK FALSE` is set in every configuration, because the programs end.

## Findings

1. **A stop signal can be lost** (`process_encap.c:104`, also
   `process_decap.c:80`): `alive = 0` comes after `signal()`.
2. **A loop error can be reported as success** (`process_encap.c:238`, also
   `process_decap.c:200`): a signal overwrites the -1. The header's "1 on stop"
   is never returned either.
3. **`satencap` may refuse to start** (`process_encap.c:248`): `sched_period` is
   checked but never initialised.
4. **`stop` does not stop the Rust programs** (`testbed-common.sh:158`): they
   inherit SIGINT as ignored and install no handler. `force-stop` ends them
   (`ForceStopEnds`).

Behaviour that no document contradicts but that the runs make visible: a FIFO
that is full when the drain loop gives up disables `satencap` for good
(`WedgedForever`); an early return leaves descriptors open (`Released`); a first
datagram shorter than a header may make `satdecap` spin until it is stopped,
because `gse_length` is uninitialised (`DatagramFinishes` starts behind that).
`start` run over living programs leaves the first pair where no stop reaches it
(`Tracked` speaks of the last start only). One long frame ends the Rust receiver and, by the ICMP error that
follows, the Rust sender (`ReceiverSurvives`, `SenderSurvives`). A datagram that
arrives between `bind()` and `connect()` comes out of the Rust tunnel whoever sent
it (`ForeignOnlyEarly`). With `-p` the Rust `satencap` sends datagrams longer than
that when a frame fills a packet (`Padding`), although its usage calls the size
constant; the usage also prints 2048 as the default of `-p`, which is 0.

## Proofs

Every theorem holds for all values of the constants that the `ASSUME` of the
module admits: any number of frames, datagrams, signals, incidents and options,
any lengths and capacities, and any set of failing calls. The assumptions are
the named ones of the modules (`GseAssumption`, `EncapAssumption`, ...) and no
others; TLC evaluates each of them in a run.

| Module | Theorem | States |
|---|---|---|
| `ProcessEncapProofs` | `TypeCorrect` | `TypeOK`; its hard part is that the padding is never negative |
| | `DatagramsInOrder` | `InOrder` |
| | `EveryByteAccounted` | `Accounted` |
| | `StaleLengthIsHarmless` | `StaleLengthHarmless`: the freed PDU is only asked when the answer does not matter |
| | `LeftoverMeansErrors` | `LeftoverOnlyAfterErrors` |
| | `OneLateRead` | `AtMostOneLateRead` |
| | `WedgeIsPermanent` | `WedgedForever` |
| | `NothingLeaks` | `Released` |
| | `ObeysProgram` | the safety part of `ImplementsProgram`: `P!Init` and `[][P!Next]_Phase` |
| `ProcessDecapProofs` | `TypeCorrect` | `TypeOK` |
| | `NeverInsideAPacket` | `Aligned` |
| | `NothingSkipped` | `EveryPacketParsed` |
| | `OneLatePacket` | `AtMostOneLatePacket` |
| | `NothingLeaks` | `Released` |
| | `ObeysProgram` | the safety part of `ImplementsProgram` |
| `CTunnelProofs` | `TunnelImplementsService` | `ImplementsService`, the whole refinement |
| `RustTunnelProofs` | `TypeCorrect` | `TypeOK` |
| | `OnlyEarlyStraysAreWritten` | `ForeignOnlyEarly` |
| | `WhatTheSenderEndsOver` | `SenderSurvives` |
| | `WhatTheReceiverEndsOver` | `ReceiverSurvives` |
| | `TunnelImplementsService` | `ImplementsService`, the whole refinement |
| `ArgumentsProofs` | `TypeCorrect` | `TypeOK` |
| | `LoopRunsAsGiven` | `RunsAsGiven` |
| | `FirstStopEnds` | `FirstStopDecides` |
| `TestbedProofs` | `TypeCorrect` | `TypeOK` |
| | `NothingEscapes` | `Tracked` |

Each proof is an invariant that is inductive, one lemma per action or group of
actions that can disturb it, and a temporal step.

**Lemmas about operators.** `StartOf` is a recursive function, so what it returns
is proved by induction. The induction theorem of the library takes an operator as
a parameter, which the provers cannot instantiate; `GseProofs` therefore inducts
over a set of numbers (`LeastNat`: a non-empty set of naturals has a least member;
`IntervalInduction`), and derives that `StartOf` is defined everywhere and grows by
more than a header from packet to packet (`StartOfType`, `StartOfNext`,
`StartOfGrows`). It also says what `NextPacket` and `Packed` do to a FIFO.
`QueueProofs` says what `Append` and `Tail` do to the elements of a queue and to
the number of those in a set (`CountAppend`, `CountTail`, `CountWithout`).

**`ProcessEncap`.** `TypeInv` adds to `TypeOK` that the parameters were checked
(`ParamsChecked`: a payload length exceeds a header, or else `Padding` could be
negative) and that a frame waits when `pc` is `"receive"` (`Head(tap)` exists).
`SafeInv` adds what the properties need to be inductive: the newest accepted PDU
is the last of the FIFO while the FIFO is being drained, so that the FIFO is
empty when that PDU is gone (`NewestInFifo`); a late read leads out of the loop
(`LateLeaves`); the handlers stay installed from the loop on
(`HandlersInstalled`). `OutsideInv` adds which descriptors are open at each line
(`OpenAt`), and that a signal waits only while `pselect()` blocks it
(`PendingInSelect`): otherwise `alive = 0` could meet a stop that is still to be
handled, and the step simulation of `Program` would fail there. `OrderInv` says
that frames wait in the order of their numbers, that the FIFO is sorted and only
its head was cut, and that what was sent lies before that head: then a packet
taken from the head comes behind all others. `PlaceInv` states `Accounted` without
counting, as a disjunction: byte `b` of PDU `id` is in one datagram, one lost
packet, or one place of the FIFO (`OnePlace`). It needs `OrderInv`, because a
packet that was lost could otherwise be equal to one lost before, and the set
`lost` would not grow.

**`ProcessDecap`.** While the walk goes on, either the position is where packet
`seen + 1` starts and does not exceed what was received (`OnTrack`), or every
whole packet was seen and less than a header is left (`Finished`); after a failed
virtual fragment neither holds, but then `alive` is no longer 0 and the position is
never looked at (`Walk`). A header read at the start of some packet is then that
of the next one, because `StartOf` grows (`HeaderIsNext`), and a stale length is
only ever added when less than a header is left, which keeps `Finished`. When the
first `n` packets are whole and the next is not, `n` packets are whole in all
(`WholeOnes`), which ends the proof of `EveryPacketParsed`.

**`CTunnel`.** The invariants of the two processes carry over: `CTunnelProofs`
instantiates the proof modules under the substitutions of `CTunnel`
(`EncapSame`, `DecapSame`: both instances do the same), with a restart and a
datagram from the network as two more steps that keep them (`RestartKeeps`,
`SockGrows`). `StepShape` of each process says all that the tunnel needs to know
of its steps, so that everything else speaks of three queues only: the wire, the
socket, and the datagram in the hand of `process_decap()` whose packet libgse was
not given yet. `Moves` reduces every step of the system to one of nine moves of
these queues. `Transit` says that what is under way was sent, and that what was
written was completed by something that was sent. `Ordered` says that on a network
that keeps order the queues are in line and hold nothing of a frame that was
written (`Over`); the end of a frame has no packet of that frame behind it
(`EndBefore`), because `InOrder` of the sender orders bytes and both packets
announce the same length. On a network that reorders and duplicates, the bound on
repeated frames is not inductive by itself: `Counted` bounds the frames written
together with the end fragments under way, `Number`, by the distinct frames among
them and the copies made. An end fragment is sent once per frame (`SentLast`), so
sending raises both sides; a copy raises the number and the bound by one; a loss
lowers the number at least as much as the frames (`Lessened`); a delivery moves an
end fragment from the hand to the output. Accepting, delivering and copying are
then `Offer`, `Deliver` and `Duplicate`, and all other moves stutter.
`CTunnelAssumption` types the constants, and holds for any set of failing calls of
either process.

**`RustTunnel`.** `Stages` says what each program holds at each line, in
particular how many storages are free; `Traffic` that everything under way is a
packet of an accepted frame or, in the socket, a stray, and that only the packets
of long frames are not complete. `StraysCounted` bounds the strays that were
written, are about to be, or wait by those that came early. For the refinement,
`OrderInv` says that the datagrams under way are in line (`InLine`: of two packets
the first belongs to an earlier frame, unless both are fragments), and that
nothing is left under way of a frame that was written (`Over`). The steps that
take a frame, write one, or do neither are then `Offer`, `Deliver` and stuttering.

**`Arguments`.** `PayloadKept` and `TimeoutKept` follow the last value of an option
on the command line into `params`, narrowed by `ToInt` or split by `SetTime`;
`StopRemembered` says that a stop is the last option and is in `flags`. `ToIntType`
and `SetTimeType` do the arithmetic: a length is kept up to `INT_MAX` and becomes
negative up to `UINT_MAX`, which the check behind the loop refuses; and
`TimeToLong` inverts `SetTime`.

**`Testbed`.** `Tracked` speaks of the moments between two commands; the
invariant under it follows a command line by line: while one runs, `pid_list`
holds whoever is alive of the last start (`Watched`), and during `ps` each of them
is in `new_pid_list` already or in `todo` still (`Held`). `NobodyRises` carries it
over everything the programs do meanwhile, and `Unstarted` over a new start, whose
two PIDs do not exist until the script launches them.

**Only model-checked.** Liveness (`StopHonoured`, `DatagramFinishes`, `Recovers`,
`ShortFramesArrive`, `ForceStopEnds`, `StopEndsC`, and the fairness of `Program`),
which is out of the prover's reach.

## Not modelled

- **Packet headers** (`pkt_header.c`): no program calls `parse_mac_header()`,
  `parse_ipv4_header()` or `mac_address_str()`; `ipv4_address_str()` only prints
  the address in the message of a failed `open_udp()`.
- **Labels**: the six bytes that are built per PDU or packet leave out two bytes
  of the counter, in C and in Rust, so that they repeat; nothing in the
  repository reads a label.
- **`setup` and `cleanup`** of the testbed: lists of `ip` and `sysctl` commands
  whose effect is the kernel's.
- **The Rust command line**, except for the values of `-p` and `-b`: everything
  wrong in it panics before a socket is opened. `-t` is parsed and never used.
- DEBUG output and messages, `malloc()` failures, the build files, and libgse and
  dvb_gse_rust beyond what is listed above.

## Plan

Done: all modules and runs, and every safety property of a passing run as a theorem.
What is left is worth doing only when the code changes: each proof names the facts
about the code it rests on in the invariant of its module.
