# SlipNet: a TLA+ model of the network intelligence engine

This directory models the C++ program of this repository in TLA+, checks the
models with TLC on small instances, and proves some of the results for every
value of the constants with TLAPS. The Linux build (`src/src/platform/linux`)
is the one modelled.

## The system

SlipNet is an interactive program: `Terminal::run` reads a line,
`CommandParser` splits it, `CommandHandler::execute` runs one handler to its
end, and the loop goes on. There is no background activity between commands.
What makes the program more than sequential is inside the commands:

* `port|:scan` starts one thread per port through `std::async`, in batches of
  64 for a range and all at once for the common ports;
* `ip|:seek` starts threads that each run a `ping` child through
  `std::system`, in batches of 32;
* SIGINT may arrive at any instruction and sets one process-wide flag
  (`SignalHandler::stopRequested`) that some operations poll, some clear and
  most ignore;
* the commands share one store (`NetworkState`), written by some and read by
  others, in whatever order the user types;
* `net|:monitor` and `pkt|:capture` observe kernel counters and sockets that
  change underneath them.

### Components

| Component | State | Operations | Talks to | What must hold |
|---|---|---|---|---|
| `NetworkState` (`core/`) | vectors of hosts, ports per host, services | addHost, addPort, addService, clear, getters | all commands | one entry per key, the latest record wins, stable order |
| `PortScanner` (`port/`) + `tcp_linux.cpp` | futures, results | the two `scan` overloads, `checkPort` | workers by futures, stop flag | bounded workers, none left behind, sound and complete results |
| `NetworkDiscovery` (`network/`) + `ping_linux.cpp` | addresses, latencies, online bits, futures | `discover` | workers, ping children, store, stop flag | answers credited to their address, the store replaced as a whole |
| `NetworkMonitor` (`monitoring/`) + `network_status.cpp` | initial and previous sample | `monitor` | kernel counters, stop flag | no invented traffic, prompt stop |
| `Terminal`, `SignalHandler` (`cli/`) | stop flag, input | `run`, `handleSignal`, `clearStop` | everything | a request acts on the operation it was meant for |
| `CommandParser`, `CommandUtilities` (`cli/`) | none | `parse`, reading of numbers and addresses | terminal, handlers | a line means what the usage lines say |
| `CommandHandler` (`cli/`) | the store | one handler per command | engines, store | wrong arguments are refused, the readers agree with the store, the store with the last answers |
| `PacketCapture`, `PacketInspector` (`packet/`) + `packet_capture.cpp` | packets, capture file | `capture`, `saveCapture`, `inspectFile` | kernel socket, file system | matching packets only, faithful file |
| `ServiceDetector` (`service/`) | none | `detect` | TCP | services only on evidence |
| `TopologyMapper` (`topology/`) | nodes, edges | `addNode`, `addEdge`, `display` | store, routing table | no duplicates, edges between nodes |
| `FirewallProbe` (`security/`) + `firewall_linux.cpp` | report | `analyze`, `probeTCP` | TCP | classification follows the evidence |
| `SecurityDetector`, `VulnerabilityScanner`, `CredentialChecker` (`security/`) | none | rules over ports and services | store | each finding once, on what is stored |
| `SSLAuditor` (`security/`) | four counted OpenSSL objects, the report | `audit` | OpenSSL, the service | every way out releases what it took; what is reported of the service holds |
| `SubnetCalculator` (`network/`), `HostDiscovery` (`host/`) | none | address arithmetic, twice; single ping | ping | exact blocks at every prefix, /0 and /32 among them |
| lookups (`banner_grabber`, `os_*`, `mac_*`, `dns_*`) | none | one exchange or system call sequence each | service, operating system | what is shown was said |
| `SystemInfo` (`system/`) | none | read and print | operating system | - |
| `Subnet`, `IPAddress`, `HostScanner`, `NetworkInterface` | none | never called by a command | - | - |
| `Analyzer` (`ai/`) | none | placeholder | - | - |

### What is hard about it

* **Concurrency.** Worker threads and the calling thread of `port|:scan` and
  `ip|:seek`; the early exits on a stop request leave loops in the middle, and
  only the blocking destructors of the futures keep the workers' references
  valid. While a worker is inside `std::system`, SIGINT is ignored process-wide.
* **One stop flag for everything.** It is set at any instruction, cleared by
  the prompt, by the monitor and by the capture, and polled by some operations.
* **Failure.** `std::async` may throw; socket calls fail or are interrupted;
  the disk is full when the buffer is written; the process dies in a write; a
  TLS audit has seven ways out, each with its own releases; a service may stay
  silent in the middle of a handshake.
* **Long command sequences.** Scans overlap, repeat and are cut short;
  services outlive the scans they came from; hosts are scanned that were never
  discovered. Every report is computed from the store that is left.
* **Boundaries.** The last incomplete batch, the packet limit, counters that
  restart or wrap, a file cut inside a number, shifts by the whole width of an
  address, numbers that `std::stoi` reads only in part.

The hazards are listed one by one, at their lines, in `PROJECT.json`.

## Modules

| Module | Models | State and actions |
|---|---|---|
| `NetworkState` | `core/network_state.cpp` | the three vectors; `addHost`, `addPort`, `addService`, `clear`, `getPorts` under their names, each the loop from the front of the vector |
| `NetworkStateTable` | its abstract specification | three maps from keys to the latest record; `ImplementsTable` is the refinement |
| `PortScanner` | `port_scanner.cpp`, `tcp_linux.cpp` (connect) | program counter of the caller, futures, one program counter per worker, the listening ports; each loop test, launch, get, clear and sort is an action, each probe four |
| `NetworkDiscovery` (extends `NetworkState`) | `network_discovery.cpp`, `ping_linux.cpp` | as above with batches, the ping children, and SIGINT ignored while one runs |
| `NetworkMonitor` | `network_monitor.cpp`, `network_status.cpp` | the sampling and sleeping loops; the counter is the environment's |
| `CommandParser` | `command_parser.cpp`, the number and address checks of `command_handler.cpp` | operators: a line is a sequence of words, a word a sequence of pieces (digits, names, marks); the table of commands, `parse`, `stoi` |
| `CommandArguments` (extends `CommandParser`, `HostDiscovery`) | `execute` and the beginning of every handler | one operator per handler: which operation its arguments start, or `NotStarted` |
| `SubnetCalculator` | `subnet_calculator.cpp` | operators: parsing, masks bit by bit and shifts modulo 2^width, `calculate`; `Block`, the reference definition |
| `HostDiscovery` (extends `SubnetCalculator`) | `host_discovery.cpp` | operators: its own address parser and masks, `generateHosts`, what `check` accepts |
| `Lookups` | `banner_grabber.cpp`, `os_fingerprint.cpp`, `dns_resolver.cpp` and their Linux parts, `mac_linux.cpp` | operators: from what the service or the system says to what the command shows |
| `SSLAuditor` | `ssl_auditor.cpp` | `auditPc`, the counts of the OpenSSL objects, the clock, the report; one action per call that can fail, from `SSL_CTX_new` to the shutdown |
| `Terminal` (extends `CommandArguments`, `Lookups`, `SSLAuditor`) | `terminal.cpp`, `signal_handler.cpp` | the loop, the typed line, the flag, and seven kinds of operations by the way they treat it: `plain`, `ping`, `polling`, `seek`, `monitor`, `capture`, and `audit`, which runs step by step |
| `PacketCapture` | `packet/packet_capture.cpp`, `platform/linux/packet_capture.cpp` | the capture loop, its deadline, the two filters, the socket and the kernel's queue |
| `CaptureFile` | `saveCapture`, `packet_inspector.cpp` | the lines on the disk, the stream's buffer and badbit; reading is a loop over the lines |
| `FirewallProbe` | `firewall_probe.cpp`, `firewall_linux.cpp` | the loop over ports and addresses, the descriptor, the report |
| `ServiceDetector` | `service_detector.cpp`, `tcp_linux.cpp` (send, receive) | operators: which answers are possible, which name they give |
| `SecurityDetector`, `VulnerabilityScanner`, `CredentialChecker` | the files of these names | operators: the rules as sets, one per function of the code |
| `TopologyMapper` | `topology_mapper.cpp`, the map of `handleTopologyMap` | operators: nodes, edges and the map built from hosts, interfaces and route |
| `VectorLoop`, `Vectors` | `for (const auto& x : v)` | a loop as a function of its body (`Run`); the loops that copy, count and collect (`Selected`, `Total`, `Joined`) |
| `CommandHandler` (extends `ServiceDetector`, the three rule modules, `TopologyMapper` and `NetworkState`) | the store commands of `command_handler.cpp` | the store; one action per writing command, one operator per reading one |
| `NetworkStateProofs`, `PortScannerProofs`, `NetworkDiscoveryProofs`, `CommandHandlerProofs` | theorems about the module of the name | inductive invariants and lemmas |
| `MonitorProbeProofs`, `PacketCaptureProofs`, `TerminalProofs` | theorems about `NetworkMonitor` and `FirewallProbe`; `PacketCapture` and `CaptureFile`; `SSLAuditor` and `Terminal` | the same |
| `VectorLoopProofs` | lemmas about every loop | used by the other proofs with the body of a loop |
| `MCCapture`, `MCMonitorProbe` | `pkt\|:capture` as a whole; `net\|:monitor` or `firewall\|:probe` | compositions: a capture whose packets are handed to `saveCapture`; one of two commands that share no state |
| other `MC*` | constants for TLC | |

How far the modelling goes:

* A *thread* is a program counter; an action is the code between two places
  where another thread, the kernel or Ctrl+C can be noticed. The handlers run
  on one thread, one at a time, so in `CommandHandler` a command is one step.
* *Ctrl+C* is an action of its own, enabled wherever the program runs.
* *Data* is reduced to what is branched on: an answer to a service probe is
  the set of the marks the code searches for, a packet is its number, protocol
  and length, a frame its kind, arrival and interface, a report its counters.
* *Histories*, named as such, record what really happened for the properties:
  the traffic, the frames taken, what became of a probe, which pings could not be
  run, what the last scan said.
* Definitions that end in a way of going wrong (`LaunchUnbatched`,
  `EndLeaks`, ...) and carry a comment "Fault:" are not part of the model.
  They are plausible mistakes with which a property is seen to fail.

`NetworkDiscovery` and `PortScanner` establish what `CommandHandler` takes of a
discovery and a scan: hosts in ascending order or none, and results for some
ports in ascending order, each port once. (`handlePortScan` takes any such set
of ports, which is more than the stretches and beginnings `PortScanner`
gives.) `Terminal` composes
what happens on the terminal's thread: `SSLAuditor` is written with variables of
its own (`auditVars`), so that `TerminalProofs` takes its invariant over whole
and adds where in the session it holds.

## Runs

All runs exhaust their state spaces; none simulates.

| Run | Instance | Shows |
|---|---|---|
| `network_state` | 2 hosts, 2 ports, 2 names, symmetric, at most 4 entries | unique keys; hosts, the ports of a host and services keep their places; refinement of a map |
| `port_scanner` | ports 1..5, batches of 2, 3 threads, every range and set of listening ports | workers accounted for: threads bounded and gone at the end; open only if it listens or its `connect()` failed at once, in order, once; complete unless stopped; at most one result without a probe; the scan returns |
| `network_discovery` | 5 addresses in batches of 2, every set of answering hosts, an old store | buffers outlive workers; pings bounded; a success lists answering hosts only, and without Ctrl+C all whose `ping` could be run; nothing old beside new hosts, a failure leaves nothing; the discovery ends |
| `monitor_probe` | monitor: counter modulo 4, intervals 1 and 2, 6 packets; probe: 2 ports, 2 addresses, all behaviours | no invented traffic; exact without a restart; one sleep after a press; a press ends it. No descriptor leaks, states are backed, the first address that answers or fails late decides, each conclusion says what was observed; it ends |
| `terminal` | lines of every shape the handlers tell apart, addresses of two 2-bit numbers with every prefix, operations of up to 2 waits, 5 kinds of cipher suites, texts of up to 6 bytes, sessions without bound | a request ends SlipNet or cuts an operation only where it was meant (`StopActsWhereMeant`); lines start what the usage lines say (`LinesUnderstood`); blocks of addresses are exact and lookups show what was said (`AnswersHold`); audits release what they took, their reports hold; operations return |
| `capture` | limit 2, 4 frames of 2 kinds, a kernel queue of 2, 2 seconds; files of 2 packets, numbers in base 2, a buffer of 3 lines | the first matching frames in order, numbered without a gap, nothing left behind; it ends. Complete files round-trip, cut files read as a beginning, a packet found is the packet saved, a reported success misses one buffer at most |
| `command_handler` | 2 hosts, 2 administrative ports and a silent service, all answers | reports follow the latest scans, services only on open ports, findings once per port, the map is a star |
| `scan_accepted` | as `port_scanner`, 2 ports | **violated**: a port whose `connect()` fails at once is reported open |
| `capture_interface` | as `capture`, smaller | **violated**: frames of other interfaces are captured |
| `capture_press` | as `capture`, smaller | **violated**: the capture goes on after Ctrl+C |
| `capture_success` | the file alone, as in `capture` | **violated**: a success is reported though lines are missing |
| `tls_trust` | as `terminal` | **violated**: a certificate that does not verify is reported as a service that may not speak TLS |

Why the bounds are enough. Batches of two and five slots give the empty range,
a batch that is not full, one and two full ones and a last incomplete one; the
interesting index errors (`completed + j`) need a second batch, which is there.
Three threads are enough for a batch and too few for the common scan, so that
`std::async` throws in some runs. A counter modulo 4 wraps within the traffic.
A limit of two packets and four frames leave matching frames beyond the limit,
and a queue of two overflows. With base 2 the second packet's number has two
digits, so a cut number is another packet's number. Two addresses suffice for
the loop to go on, and two ports for every pair of states a conclusion
distinguishes. Two thresholds of 1 and 2 open ports stand for 10 and 20. An
operation of two waits is stopped before, between and after them, and since a
session has no bound a request left over from one operation can meet every
other. Addresses of four bits (`Octets` = 2, `OctetBits` = 2) have blocks of
every size with both shifts at the boundary; `MaxInt` and `MaxId` = 99999 leave
room for every limit a handler checks (65535, 86400), as `MaxIntAssumption`
asks for, and for a number beyond it; `BannerLimit` = 4 is met and passed by texts of six bytes. Where
a proof exists, it holds for every value of these constants.

In `capture` the packets of the capture are followed into the file once; then
the capture's variables are put back to those of a refused request and the
files live on with other saves, each of any capture of up to two packets, so
that no file is checked beside every state of a socket. `monitor_probe` checks
two commands that have no state in common: a behaviour is one of them.

Deadlock is checked except in the three runs of `PacketCapture`, whose only
finite behaviours are those that have finished.

### Fairness

* `PortScanner`, `NetworkDiscovery`: weak fairness of the calling thread and of
  each worker. The operating system schedules every thread, a probe has a
  timeout (`tcp_linux.cpp`, `select`) and a ping a deadline (`-W`), so both
  end. Nothing makes Ctrl+C or an answer happen.
* `NetworkMonitor`: weak fairness of the monitor's thread; `sleep_for` ends.
  Traffic and Ctrl+C are not fair.
* `Terminal`: weak fairness of the program's steps, not of the user: no line
  needs ever be typed, no key ever be pressed. The calls of an audit return,
  except `SSL_connect` to a service that stays silent: there no step is
  enabled, so fairness promises nothing and `OperationsReturn` excepts it.
* `PacketCapture`: weak fairness of the capture and of the clock. `select` has
  a timeout that shrinks with the clock, frames need not arrive.
* `FirewallProbe`: weak fairness of the next step; each wait has a timeout.

In the compositions each part keeps its own fairness.

Where a step has several outcomes, fairness never chooses the good one.

## Theorems

Checked by TLAPS for every value of the constants, from the named assumptions
of the modules (`ScannerAssumption`, `DiscoveryAssumption`, `MonitorAssumption`,
`LimitsAssumption`, `KindsAssumption`, `FileAssumption`, `ProbeAssumption`,
`SuitesAssumption`, `ResponseAssumption`, `SurfaceAssumption`,
`SessionAssumption`, `LocalsAssumption`, `TerminalAssumption` and the bounds of
the modules `Terminal` extends), which TLC evaluates for the instances. They
say what sort of thing a constant is, that bounds the code divides by or counts
to are positive, that planned ports and addresses are ascending, that an `int`
holds every limit a handler checks, every number of an address and every prefix
(`MaxIntAssumption`, `NumbersAssumption`), and, in
`LocalsAssumption`, one fact about the system: the source address of the route
to the Internet is one of an interface that is up, since the kernel takes it
from there.

* `NetworkStateProofs`. `StoreTypeCorrect`, `KeysAreUnique`, `OrderIsStable`.
  `UniqueKeys` is inductive together with the type: an insertion at the first
  index of a key keeps keys where they are, one at a new key appends. The
  lemmas about `Upsert` carry the argument; `OrderIsStable` says the same of the
  ports inside the entry of a host. `StoreImplementsTable` is the
  refinement: under `UniqueKeys` the map that reads each vector by its keys is
  a function, and an insertion changes it at one key (`HostAddedBinds`,
  `ServiceAddedBinds`, `PortAddedBinds`) exactly as the table does.
* `PortScannerProofs`. `TypeCorrect`, `WorkersAreBounded`, `NeverAborts`,
  `NoWorkerOutlives`, their conjunction `WorkersAreAccountedFor`,
  `ResultsAreSound`, `OneUnprobedAtMost`, `UnstoppedIsComplete`. The invariant
  is `IInv`, the conjunction of `TypeOK`, `PlanInv`, `WorkersInv`,
  `ResultsInv`, `StopInv`, `NoAbort` and `CompleteInv`:
  the plan is ascending and the futures are the stretch of it between what was
  collected and where launching goes on (`PlanInv`); every live worker has its
  future in the vector, which a range scan never fills beyond its limit
  (`WorkersInv`) -- without this the bound is not inductive, since nothing
  would tie the threads to the vector that is counted; results come from the
  stretch already collected (`ResultsInv`); a worker that answered without a
  probe has seen a request, and after the first such result nothing more is
  collected (`StopInv`); an open answer is that of a listening port or of a
  `connect()` that failed at once; without a request the results and the futures together
  are the plan up to where launching is, and every probe was made
  (`CompleteInv`). That the last step keeps them needs that sorting an
  ascending sequence changes nothing (`AscendingIsIdentity`).
* `NetworkDiscoveryProofs`. `WorkersAreAccountedFor`, `StoreIsNotMixed`,
  `SuccessfulDiscoveryIsExact`. The invariant is
  `DiscoveryInv == TypeOK /\ BatchInv /\ WorkersInv /\ AnswersInv`: while a
  batch runs its k-th task is slot `completed + k` (`BatchInv`), every live
  worker belongs to a task, the collected ones have returned (`WorkersInv`),
  and what is known of a host is true of it (`AnswersInv`). On top of it
  `FoundInv` says that every slot before `completed + j` has been credited with
  its own answer and that the store holds the online slots passed so far, in
  their order; without it a shifted answer could be taken back later. An answer
  is missing only from a slot whose `ping` could not be run (`unrun`) or after
  Ctrl+C.
* `MonitorProbeProofs`, the monitor. `TypeCorrect`, `DisplayNeverOverstates`,
  `DisplayIsExact`, `StopsPromptly`. The invariant is
  `IInv == TypeOK /\ DeltaInv /\ SleepInv`: what a sample would display now is
  at most the traffic since the one before, and exactly that without a restart
  (`DeltaInv`); a sleep begun after a press is followed by the end of the loop
  (`SleepInv`).
* `PacketCaptureProofs`. `CaptureTypeCorrect`, `CaptureKeepsFirstMatching`
  (which also gives `CutOnlyAtLimit`), `CaptureEndsEarlyOnlyAtLimit`,
  `CaptureNumbersWithoutGap`, `CaptureLeavesNothingBehind`. The invariant is
  `IInv == TypeOK /\ Ordered /\ ResultInv /\ ControlInv /\ ListInv`: frames in
  the queue are younger than those taken, the result is the matching part of
  what was taken up to the limit, the socket's state follows the program
  counter, and the list is a numbered copy of the packets seen so far.
  `CaptureEndsEarlyOnlyAtLimit` states what the code does and not what it
  announces: see `capture_press`.
* `MonitorProbeProofs`, the probe. `ProbeTypeCorrect`, `ProbeClosesDescriptors`,
  `ProbeStatesBacked`, `ProbeFirstAnswerDecides`, `ProbeCountsAgree`,
  `ProbeConclusionBacked`. The
  invariant is `ProbeInv == ProbeTypeOK /\ DescriptorInv /\ ControlInv /\
  ResultInv /\ RecordedInv /\ CountsAgree`: what is known of the addresses behind
  `address`, and of every recorded observation. The conclusion needs in
  addition that it is drawn once, from the final counters (`ConcludedInv`).
  `ProbeFirstAnswerDecides` is exact in both directions: an address decides only
  if all before it are unreachable, and none decides only if all are. An
  address that reports its error late decides UNKNOWN, whatever the next one
  would have said.
* `TerminalProofs`, the audit. `AuditReleasesItsObjects`, `AuditReportIsRight`. The
  invariant is `AuditInv == AuditTypeOK /\ Counted /\ Verified /\ Found /\
  Dated`: the exact number of references at each place, what the handshake has
  established, what the finished parts have found, and that a certificate once
  expired stays so.
* `TerminalProofs`, the session. `TypeCorrect`, `StopsWhereMeant`,
  `SessionReleasesItsObjects`, `SessionReportsAreRight`. The invariant is
  `SessionInv == TypeOK /\ Placed /\ Meant`: an operation is under way exactly
  behind the dispatch, and a set flag was pressed in this round or in this
  operation. The audit's own invariant is carried through the session by the
  lemmas about the audit: the steps of the session leave the audit alone
  or begin a new one, of which nothing of the last is left.

* `TerminalProofs`, the lines. `LinesAreUnderstood`: what a line starts is what
  the usage lines of its handler say, and of the forms that only the help lists
  what the handlers make instead. The state contributes little: a delivered line is a
  line, and nothing is left of the operation before it (`Typed`). The work is in
  the handlers: `Forms` restates the usage lines as a condition on a command and
  its arguments, `Right` says that an operation is the one they list, and each
  handler has a lemma that what it starts is right (`PortScanRight`,
  `CaptureRight`, `InspectRight`, ...). They rest on three facts about words: a
  number that stands alone is read as itself (`NumberIsRead`, where `MaxInt`
  must exceed every limit a handler checks), the parts around a dash are words
  (`PartsAreWords`), and a range is read as its two ends (`RangeIsRead`).
* `TerminalProofs`, the answers. `AnswersAreRight`: what `subnet|:calc` and the
  lookups show follows from what they were given, for addresses of any number
  of octets of any width, words of any length and any limit of a banner. (The
  property names tables and lists of up to two entries, for TLC; the lemmas hold
  of tables and lists of every length.)
  The state contributes that `subnet|:calc` is given a word (`Asked`); the rest
  is about the operators, of which each loop is taken turn by turn.
  * The lookups: the text of a banner is in bounds and its letters are those of
    the bytes, in their order, whatever was dropped between them (`Tells` after
    each byte, `BannersAreReadable`); an address belongs to a usable neighbour
    (`AddressesDoBelong`); the answers of a resolution are those of the right
    family (`AnswersDoBelong`); a guess fits the distance (`GuessesFit`).
  * The blocks: powers of two are doublings (`PowersMultiply`, `DivisionIs`), and
    the bits of `And` and `Or` are taken one by one, so that what is left of two
    numbers after k bits and what was taken of them add up (`PartlyAdds`). Masks
    are then multiples of a power (`MasksAre`), a block is an interval
    (`BlockIs`), and the calculator and the generator agree with it
    (`Calculated`, `Generated`), at the prefixes 0, 31 and 32 too.
  * The texts: cutting a dotted address at its dots gives its numbers back
    (`NumbersReadBack`), and any text is what its parts make when joined again
    (`SplitRejoins`), so that a word is accepted exactly if it is the text of an
    address and a prefix (`BlockIsRead`, `BlockIsMeant`).
* `VectorLoopProofs`. `LeastNatural`, `UpTo`, `LoopHasStates`: a loop over a
  vector, whatever its body, goes through one state after each element, and its
  result is the last of them. Induction over the turns is the argument of the
  least counterexample: a set of naturals that is not empty has a least
  element, so a statement that holds before the loop and survives each turn
  holds behind it. The other modules instantiate it with the body of a loop
  (`KeepIf`, `Plus`, `Followed`, `TakeBit`, the reader of capture files) and say what
  the loop computes for vectors of every length.
* `PacketCaptureProofs`, the files. `CaptureFilesAreTyped`, `LossIsBounded`,
  `SavedCapturesReadBack`, `CutFilesArePrefixes`, `FoundPacketsAreSaved`. The
  invariant is `FileInv == FileControl /\ FilesAreCuts /\ StreamInv /\
  LossIsOneBuffer`: every file on the disk is a beginning of the text of what
  was saved under its name, cut between lines or within one, and while a stream
  is open the file and the buffer together are what was written so far. What
  is read back then is a statement about text alone: the states of the
  reader's loop after each line of a text, complete or cut, are computed with
  `VectorLoopProofs`, the last line, of which any number of digits may be
  missing, apart from the others.
* `CommandHandlerProofs`. `SessionIsTyped`, `StoreHoldsLatestScan`,
  `ServicesAreRecordedOnOpenPorts`, `MapIsStar`, `FindingsAreOncePerPort`,
  `ReportsAgreeWithScans`. The invariant is `SessionInv == TypeOK /\ UniqueKeys
  /\ LatestScanWins /\ DetectionsAreStored`. `LatestScanWins` alone is not
  inductive: an insertion finds the record to replace only where keys are
  unique, and `svc|:detect` writes to the services through the ports, so that
  the histories of both vectors are needed together. A scan and a detection are
  loops of insertions; the lemmas `Rebound...` say that such a loop binds the
  keys it was given and no others, in the maps the vectors stand for. A report
  is a loop over the vectors that selects (`Selected`), adds up (`Total`) or
  joins (`Joined`); that the number of rows is the number of keys is shown by a
  bijection from one to the other.

Only model-checked, and why:

* every liveness property (`ScanReturns`, `DiscoveryEnds`, `PressEndsMonitor`,
  `OperationsReturn`, `CaptureEnds`, `ProbeEnds`): fairness is out of the
  prover's reach. Every safety property of a passing run is proved;
* the violated properties, of course.

## Where code and text disagree

Five disagreements have a run each: `scan_accepted`, `capture_interface`,
`capture_press`, `capture_success` and `tls_trust`; `PROJECT.json` quotes the
lines. What `capture_press` shows: the program announces "Press Ctrl+C to stop
the capture early." (`command_handler.cpp:1049`), and the capture waits for the
next packet after an interrupted `select`
(`platform/linux/packet_capture.cpp:482`). What `scan_accepted` shows: the error
of a `connect()` that fails at once is never read (`tcp_linux.cpp:128`), so the
port counts as open; `banner|:grab` and `svc|:detect` take such a socket for a
connection too. The others that came up
while modelling are these. They are in the models as the code has them.

Stopping:

* A scan cut short is reported with "Scan completed."
  (`command_handler.cpp:598`).
* Ctrl+C during a batch of pings is ignored by SlipNet and ends the pings, so
  their hosts count as offline and the next batch starts
  (`network_discovery.cpp:418`, `ping_linux.cpp:26`).
* A press between the notice "Stop : Ctrl+C" and `clearStop()` is lost
  (`command_handler.cpp:1351`, `network_monitor.cpp:449`).
* Ctrl+C during `firewall|:probe` only makes one port UNKNOWN.
* "Ctrl+C Interrupt the current operation." (`command_handler.cpp:322`): an
  audit never looks at the flag, and though a comment announces a "TCP
  connection timeout" (`ssl_auditor.cpp:322`) none is set: a service that stays
  silent keeps SlipNet in `SSL_connect`.

Reports:

* An interface that does not exist is monitored: the check at
  `network_monitor.cpp:463` looks for an empty name, which the Linux snapshot
  never has (`network_status.cpp:123`).
* `net|:show` says "No open ports detected." when only hosts that were not
  discovered have any (`command_handler.cpp:1386`, `:1509`).
* `firewall|:probe` concludes "The tested ports responded as reachable." when
  one did and the others gave no answer (`firewall_probe.cpp:145`).
  `ConclusionBacked` says what the conclusion does tell: some port is OPEN, none
  CLOSED or FILTERED.
* An address that fails while its answer is awaited makes a port UNKNOWN and
  the next address, which might accept, is not tried; one that fails at once is
  passed over (`firewall_linux.cpp:232`, `:157`).
* `ip|:seek` lists an answering host as not reachable when no process can be
  made for its `ping` or there is none to run (`ping_linux.cpp:25`): any exit
  code but 0 is a silent host.
* A legacy-version rule exists for OpenSSH, Apache, Nginx and MySQL; none of
  them can fire, since no service is stored under such a name with a version
  (`vulnerability_scanner.cpp:396`). The same holds of the rule for Telnet
  services (`security_detector.cpp:754`).
* "TCP/<port> is open and identified as HTTP." is the evidence for any service
  on a web port, whatever name was detected (`vulnerability_scanner.cpp:166`).
* DNS on 53 and PostgreSQL on 5432 are detected without an answer.
* TFTP and SNMP alerts are raised for TCP ports 69 and 161.

Audits:

* An audit of an address can never verify: the address is set as the name to
  match (`ssl_auditor.cpp:394`), and a name in a certificate is no address.
* The findings `SLP-SSL-CONTEXT` and `SLP-SSL-NOCONNECT` are never shown: the
  handler returns before it prints findings when there is no connection
  (`command_handler.cpp:3238`). After a failed `SSL_new` it says "TLS
  negotiation failed." with no finding (`ssl_auditor.cpp:363`).
* A certificate that expires between the two looks at the clock is shown as not
  valid, without a finding.
* A service that is gone before `SSL_shutdown` (`ssl_auditor.cpp:672`) ends
  SlipNet with SIGPIPE, which nothing ignores.

Lookups:

* "Resolve MAC address, interface and vendor." (`command_handler.cpp:217`): the
  vendor is always "Unknown", since the first eight characters of the address,
  colons included, are looked for in lines reduced to hexadecimal digits
  (`mac_linux.cpp:53`, `:102`). The flags of the neighbour table are read and not
  used, so an entry the kernel has given up is shown.
* The canonical name is never set: it is not asked for in the hints of
  `getaddrinfo` (`dns_linux.cpp:271`).
* "NO PTR RECORD" is also printed when the lookup failed
  (`command_handler.cpp:2322`).
* A banner may pass the limit of 512 bytes by a separator, which is appended
  without looking at the length (`banner_grabber.cpp:188`); its protocol is
  named by the port, even when the connection failed.

Captures:

* "Capture IPv4 network traffic" (`command_handler.cpp:233`): without a filter
  every frame is kept (`platform/linux/packet_capture.cpp:98`).
* "If metadata is missing or inconsistent, trust the packets actually parsed."
  (`packet_inspector.cpp:282`): only a value of 0 is replaced.
* `pkt|:inspect` reads `data/last_capture.txt`, which nothing writes
  (`command_handler.cpp:1144`).
* The handler prints its success lines after a failed save
  (`command_handler.cpp:1130`); two captures in one second share a name.

Arguments:

* The help offers `host|:find <CIDR>` (`command_handler.cpp:192`), `port|:scan
  <IP> <start-port> <end-port>` (`:199`), `ssl|:audit <HOST[:PORT]>` (`:281`)
  and `firewall|:probe` without arguments or with one port (`:285`, `:287`); the
  usage lines of the handlers do not. The handlers refuse them, except that
  `HOST:PORT` is taken for a name to audit on port 443. `LinesUnderstood` says so
  (`HelpOnly`, `HelpOnlyOutcome`) and holds the handlers to the usage lines.
* "Duration must be an integer." (`command_handler.cpp:976`): `std::stoi` takes
  the digits of `10abc`. Other handlers check that the whole word was read.
* `HostDiscovery` takes "+1", "01" and a last "." for parts of an address,
  `SubnetCalculator` does not; for the prefix /0 the former shifts by the whole
  width, which C++ leaves undefined.

## Not modelled

* System information: it reads the operating system and prints, without a
  decision of its own. `session|:info` is part of `CommandHandler`.
* `Subnet`, `IPAddress`, `HostScanner`, `NetworkInterface` and
  `HostDiscovery::scanSubnet`: compiled, never called by a command.
  `SubnetCalculator::classifyAddress` is a table of labels.
* The AI analyzer: a placeholder. The Windows back ends: other calls, the same
  control above them.
* What the handlers print of the engines' results beyond the reports of
  `CommandHandler`; formatting, colours, rates, the order of printed findings,
  the decoding of packet headers beyond the protocol and whether a frame
  decodes, the spelling of names, the texts and dates of certificates.
* `CaptureFile` assumes that a disk once full stays full until the failed
  stream is closed. `SSLAuditor` takes OpenSSL and the service as one external
  endpoint with a fixed certificate; only the clock moves during an audit.

## Plan

Done, in this order: `NetworkState` with its refinement, `PortScanner`,
`NetworkDiscovery`, `NetworkMonitor`, `Terminal`, `PacketCapture`,
`CaptureFile`, `FirewallProbe`, the rule modules and `CommandHandler`; then
`CommandParser`, `CommandArguments`, `SubnetCalculator`, `HostDiscovery`,
`SSLAuditor` and `Lookups`, composed in `Terminal`, and the proofs of complete
scans, exact discoveries, conclusions, the refinement of the store, the stop
flag and the audit.

Then the loops over vectors as functions of their bodies, and with them the
proofs of the reports, the findings, the map, the capture files, the typed
lines, the lookups and the blocks of addresses.

Left:

1. An abstract scan (a result that grows along the plan) that `PortScanner`
   implements and `CommandHandler` uses instead of its own description.
2. The capture and the monitor as operations that run step by step inside
   `Terminal`, as the audit does.
