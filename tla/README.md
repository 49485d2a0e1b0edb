# A verification of valmond

valmond is a small C++ agent that runs beside an XRPL validator.  Every few
seconds it looks at the machine (disk, memory, CPU, network, load), at the
validator (`server_info`, the process table), signs what it has found with the
validator's own secret and posts it to a backend.  This directory models it in
TLA+, checks the models with TLC and proves the invariants that matter with
TLAPS.  Paths below are relative to the repository.

## 1. Inventory

### Components, their state and their operations

| component | source | state it keeps | operations | correct when |
|---|---|---|---|---|
| Daemon | `src/common/daemon.*` | `shouldRun_`, `lastTaskCompleted_`, mutex, condition variable, thread | constructor, `loop`, destructor | the task runs again and again with its rest between, at most once after the stop; the destructor returns and never leaves the thread asleep or alive |
| Agent | `src/valmond/agent.*` | the `Config*`; a report is a local of one beat | `beat`, `sendData` | what is sent was seen in its own beat; nothing is sent twice; a beat ends |
| Data collection | `src/collectors/all.*` | promises, futures and threads on the stack of one call | `collectSystemData`, `collectValidatorData`, `collectHostData`, `collectChecksData`, `collectAllData` | no thread outlives what it points to; a returned report is whole; the call ends |
| Network collector | `src/collectors/network.*` | two samples inside one call | `getStatistic`, `getInterfaces`, `gatterInfo`, `getNetworkInfo` | a rate is the traffic between its two readings; no interface that stays is missing |
| Disk collector | `src/collectors/disk.*` | a device, its path and its size inside one call | `getDiskInfo`, `getDiskTotal`, `getDiskFree` | what a row says adds up; no device in use is missing |
| CPU collector | `src/collectors/cpu.*` | two samples inside one call | `readStatsCPU`, `getActiveTime`, `getIdleTime`, `getCpuInfo` | shares are those of the time that passed, but for the guests', which the code counts twice |
| Memory, load, host | `src/collectors/{memory,load,host}.*` | none | `getMemoryInfo`, `getLoadAvg`, `getUptime`, `getHostInfo` | the figures of one resource agree with each other and with the machine |
| Validator collector | `src/collectors/validator.*` | none | `getFromRPC`, `getFromCrawler`, `getServerInfo`, `getValidatorInfo` | the crawler is asked when RPC gives nothing |
| Validation check | `src/checks/validation.*` | none | `runValidationCheck` | verdicts are what their texts and thresholds say, no answer is critical, worse is never better |
| Process check | `src/checks/process.*` | none; a position in `/proc` inside one call | `runProcessCheck` | a validator that runs is found, one that is found did run |
| HTTP client | `src/common/http.*` | URL, timeout | `GET`, `POST`, `handleResponse` | every exchange ends, success means received |
| Config | `src/common/config.*` | the singleton with its five properties and the secret | constructor, `validateProperties`, `delSpaces`, `getInstance` | each property is what the files say, or construction throws |
| main | `src/valmond/main.cpp` | argument map, file name, message | argument loop, `signContent`, `startAgent` | the process does what its command line asks |
| Base64 | `src/crypto/base64.*` | none | `encode`, `decode` | writes in bounds, inverse of each other |
| Keys, signature, digest | `src/crypto/{keys,signature,digest,byteset}.*` | none | `SecretKey`, `PublicKey`, `Digest`, `Signature`, `hexToBytes`, `toHex` | a secret is 32 octets in upper-case hexadecimal, and a key of the curve |
| Service | `builds/packaging/valmond.service`, `init.sh` | a process, a pid file | start, stop, restart on failure | a repaired agent comes back |

### How they interact

`main` parses its arguments, constructs the `Config` singleton (any exception there
ends the process) and either prints a signature or constructs a `Daemon` whose
task is `Agent::beat`.  `main` then sleeps; everything else happens on the
daemon's thread.  A beat calls `collectAllData`: five collector threads joined
in `collectSystemData`, the host on the beat's own thread, `getValidatorInfo` on one more
thread that is joined, the process check, then `server_info` once more for
the validation check.  The beat signs the result and posts it; whatever `POST`
reports is logged and forgotten.  An exception on any thread is
`std::terminate`, and the service manager starts a new process, until its
start limit is reached.  The only shared mutable state is
inside `Daemon`; between the collector threads and the caller there are promises.

### Where it is hard

* **Concurrency**: the unlocked read of `shouldRun_` against the destructor,
  spurious wakeups, `set_value` against the destruction of its promise, threads
  that cannot be started, exceptions across thread functions.
* **Time**: the rest between two beats, ten-second timeouts of up to five
  requests in one beat, answers after the timeout.
* **Failure and recovery**: lost, late and overtaking reports; crashes at any
  point; a process that dies over its configuration and is started over it again.
* **Stale observations**: sections of one report look at the world at
  different moments; `/proc` changes during its scan.
* **Two looks at a thing that moves**: counters sampled twice while devices and
  addresses come and go, wrap or start anew; a size and a free space asked in two calls.
* **Conversions**: a decoder with an uninitialised buffer, a string that shrinks
  under the loops that walk it, JSON values that are not there, thresholds,
  three ways of writing a byte in hexadecimal and one of reading it,
  sizes scaled twice or not at all.

The places where they bite are the hazards in `PROJECT.json`, with the
properties that would catch them, or why none does; those left out of it are in
sections 5 and 6.

## 2. Modules

| module | models | refines / composes |
|---|---|---|
| `PeriodicTask` | what the comment of `Daemon` promises | abstract |
| `Daemon` | `daemon.cpp`, `daemon.hpp` | implements `PeriodicTask` |
| `Gather` | what a caller of `collectSystemData` relies on | abstract |
| `CollectSystem` | `collectSystemData` and `collectData`, thread by thread | implements `Gather` |
| `Delivery` | what the backend may count on | abstract |
| `Agent` | `Agent::beat`, `collectAllData`, the validator collector, the HTTP exchange, restarts | uses `Gather` as a component, implements `Delivery` |
| `ValidationCheck` | `runValidationCheck` | the judgement behind `Agent`'s section "checks" |
| `ProcessCheck` | `runProcessCheck` against a changing `/proc` | behind `Agent`'s section "process" |
| `DelSpaces` | `delSpaces`, turn by turn | what `Config` takes its trimmed names and values from |
| `Config` | the constructor of `Config`, line by line | |
| `Main` | `main` and `signContent` | extends `Config`: loading is `Config`'s steps |
| `Base64` | `encode`, `decode`, `base64_decode` | what `Config`'s `Decode` relies on |
| `Network` | `getNetworkInfo` against devices, addresses and counters that change | |
| `Disk` | `getDiskInfo` against file systems that come, go and fill | |
| `Cpu` | `getCpuInfo` against the counters of the kernel | |
| `SysInfo` | the figures `getMemoryInfo`, `getLoadAvg` and `getUptime` make of `sysinfo` | |
| `Signing` | the keys, the digest and the signature as texts and bytes | what `Agent` and `Main` mean by a secret that is accepted |
| `Collectors` | | instantiates `Disk`, `Cpu` and `SysInfo`, which share no state, side by side |
| `Conversions` | | extends `Base64`, instantiates `DelSpaces` and `Signing` beside it |
| `MC*` | small instances for TLC; `MCConversions` and `MCCollectors` (with `ValidationCheck`) run one of their parts at a time | |
| `CollectorsProofs` | theorems about `Network`, `Disk`, `Cpu` and `SysInfo` | |
| `ConversionsProofs` | theorems about `Base64`, `Signing` and `DelSpaces` | |
| other `*Proofs` | theorems about the module of that name | |

Definitions named `...Mutant` are bugs the code does not have.  `PROJECT.json`
lists for each property of each passing run one of them that, put in the place
of the definition it stands next to, makes TLC refute the property.

### State and actions against the code

**Daemon.** One action per access to shared state.  `Construct` initialises the
members in the order of their declaration, the thread last.  The loop is
`TestRun` (line 24), `TaskReturns`/`TaskThrows` (26), `Stamp` (27), `LockForWait`
(29), then the expansion of `wait_for` with its predicate (33): `CheckPredicate`,
`Block`, `Wake`, `Reacquire`, `WaitTimedOut`.  The destructor is `DtorLock`,
`DtorStop`, `DtorNotify`, `DtorJoin`.  The data race on `shouldRun_` is a
choice: until the loop has held the mutex after the write (`sawStop`), a read
may see either value.  The clock is `timer`, ticks to the deadline, and `age`,
ticks since the last completion, capped at the interval.

**CollectSystem.** The caller walks the collectors in the order of the threads, then in
that of the `get()` calls, joins, and destroys its locals in reverse order.
`SetValue` makes the value visible before the worker has left the promise
(`Exit`).  `SpawnFails` unwinds the stack; `CollectorThrows` ends the process.
`collectValidatorData` is the instance with one collector.

**Agent.** One action per step of a beat that can fail or see the world change.
`world` counts the states of the machine and validator; a section of the report
records in `seen` which of them it looked at.  `FetchRPC` and `FetchCrawler` have
four outcomes, the last an answer that is JSON and no object, on which jsoncpp
throws.  `Post`, `Answered` and `GiveUp` are the exchange as the agent sees
it; `Receive`, `Refuse` and `Lose` what happens to it outside.  `Restart`, `Halt` and
`Start` are systemd's, with `main`'s loading of the configuration.

**ValidationCheck.** JSON values are a type's rank and a number, because
jsoncpp orders values of different types by type: this is what makes a missing
number compare as smaller than all.

**ProcessCheck.** `List` and `Listed` are the kernel filling the buffer of `readdir`,
`Examine` reads the cmdline of the next entry, `Change` is any
process starting, exec'ing, exiting or being reaped at any moment.

**Config, Main.** A line is a record of its kind, name and value; the files are a
function from paths.  `ReadOwn` and `ReadTheirs` take one line each.  `Decode`
takes any token the collected lines begin with, for decoding stops at the first
character outside the alphabet.  `Main` consumes the arguments by ones and
twos (`TakeHelp`, `TakeValue`, `Usage`) and then runs `Config`'s steps; a call starts with
one of `Starts`, a command line and the files there are.

**DelSpaces, Base64.** One turn of the inner loop, and one character, per step.  The
octets `decode` finds in its scratch array at first are chosen from `Garbage`.

**Signing.** One action per constructor: `SecretKey`, `Digest`, then `Sign` and the
`Signature` made of its text, or `Derive` and the `PublicKey`; `Accepts` is `hexToBytes`
with its three checks, `Hex` the encoder with the digits of each place it is written
out in (`hexes` and `lowercase`).  The curve yields any bytes or refuses the secret.

**Network.** `List` is `getInterfaces`; `Open` and `Read` are the two halves of
`getStatistic`, between which the device may go; `Sampled` ends `gatterInfo`; `Match`
is the loop over both samples.  A file cannot be opened when its device has gone, or when
descriptors or memory are lacking (`lacking`), and the process dies of the `NULL` it reads.  A
file that has been opened and cannot be read any more leaves the variable uninitialised, and so
any value.  The other actions are the kernel's:
traffic, devices plugged and pulled, addresses added and removed.

**Disk.** `Probe`, `Verify`, `MountPoint`, `Total` and `Free` are the calls of
`getDiskInfo` in their order for each device.  After an unmount `statvfs` measures the file system
below the mount point, or fails if that has been removed.

**Cpu, SysInfo.** One action per sample, and one per function; `getUptime` goes on when
`sysinfo` fails, with whatever its structure holds (`Garbage`).  Floats are
exact fractions rounded down to hundredths: the program's may be a hundredth off.
Sums and products keep the width they have in C++ (`Modulus`, `Width`, `IntWidth`).

## 3. Runs

| run | states | shows |
|---|---|---|
| `daemon` | 342 | no lost wakeup, at most one late task, spacing, refinement of `PeriodicTask`; the destructor returns; the daemon keeps beating |
| `collect_system` | 9,311 | promises outlive their workers, all threads joined, report whole, the call ends, refinement of `Gather` |
| `agent` | 305,000 | fresh reports, checks newest, delivery (refinement), beats end, repairs take |
| `missing_age` | | **refutes** `HealthyAgeIsKnown`: an answer that lacks only the ledger's age counts as healthy (`validation.cpp:51` against `:63`) |
| `peer_comment` | | **refutes** `WarnsBelowFive`: five to seven peers are warned of too (`validation.cpp:83` against `:101`) |
| `process_check` | 12,000 | who is reported ran, who stays is found, the scan ends |
| `main` | 62,809 | the command line decides what runs and with which file; properties and token as written; exactly the incomplete files are rejected |
| `empty_sign` | | **refutes** `SignRequestNeverStartsAgent`: `sign ""` starts the agent (`main.cpp:140-143`) |
| `init_start` | | **refutes** `InitScriptStartsAgent`: `main` throws over the `-pidfile` of `init.sh:153-155` (`main.cpp:108`), with good files in place |
| `conversions` | 186,628 | `decode` stays in bounds, is the bit stream and inverts `encode`, whatever its scratch array holds; `delSpaces` trims; only the secret decides whether a signature is printed, and the text of it reads as what was made |
| `network` | 3,869,527 | a row is the traffic between its readings; who stays is listed; the process ends only over a device that went in the gap, a label, or for want of descriptors or memory |
| `collectors` | 1,389,612 | disk rows add up and none is missing; CPU shares are those of the time that passed, but for guests; memory, swap (as far as the code lets them) and uptime figures agree; verdicts as worded, silence is critical, worse is never better |

### Bounds, and why they are enough

* `daemon`: an interval of three ticks.  Zero, a wait cut in the middle and one run
  out all occur; `IndInv` is proved for every interval.
* `collect_system`: the five collectors, in the code's two orders.
* `agent`: two collectors, `MaxSent = 2` reports, `MaxWorld = 3` states of the
  world.  Two reports can overtake each other and be confused; three
  states let the world change before and between the two looks at the validator.
  Collectors are the least interesting part here and are complete in
  `collect_system`.
* `process_check`: three pids, one to die, one to be reused and one to stay.
* `main`: agent files of up to three lines and validator files of up to four out of a
  set with every kind of line (repeated keys, an empty value, no
  `=`, a header with a blank behind it, a token in two lines), and a longer one with
  interleaved sections, all named by `-c`; and every command line of up to
  four words, which are two options with their values, with a good default file and
  with an incomplete one.  The word `sign` is also the name of a file.
* `init_start`: the arguments of `init.sh` and none, with good files.
* `conversions`: five characters are a full group and a broken one, and messages of up
  to five octets have all three endings; seven characters hold blanks in front,
  between and behind two words of one or two letters; secrets of up to twice
  the length of a key in digits of both cases, bytes that need a zero in front.
* `network`: two devices; one has two addresses and a third under a label, which is no
  device; counters modulo 4 wrap within a call; three events are a device that
  goes and comes back between the samples with traffic of its own.  `IndInv`, from which the
  properties follow, is proved for all values.
* `collectors`: three devices of two sizes, one of a name without `/dev/`, a megabyte of two
  blocks, two events; counters about to wrap and others, and four ticks, so that two kinds
  of time grow while a third is taken back; units of one byte and of three, sizes to
  both sides of a megabyte, an `int` too small for the largest; a `sysinfo` that fails.  Unsigned
  numbers have 512 values, more than twice the ticks, as 2^64 is.  The numbers of a
  `server_info` are on both sides of each threshold they are compared with, missing, or reals;
  `missing_age` and `peer_comment` have the same.

`Finished` of `Daemon` and the like make a process that is over stutter; where a run has
`CHECK_DEADLOCK FALSE` (`main`, `empty_sign`, `init_start`, `conversions`, `network` and
`collectors`) the model is of a call that returns, and its end is the end of the behaviour.

### Fairness

* `Daemon`: weak fairness for the steps of the loop, of the owner, of the clock
  and of the wakeup at the deadline: both are threads the system schedules.
  `DtorLock` is strongly fair.  `std::mutex` is not a fair lock, but the loop
  gives it up for a whole wait in every iteration, and an owner that asks again
  and again is not passed over for ever.  A task that never returns is excluded,
  and `BeatEnds` shows that the agent's does return.
* `CollectSystem`: every thread runs, and a collector returns or throws.  `statvfs`
  on a dead network file system would not; the model does not cover that.
* `Agent`: the steps of a beat, each of which ends by a timeout of its own at the
  latest, the next beat, and `Restart`.  Nothing is assumed of the network, the backend, the
  validator or the operator.  `RepairTakes` is about services systemd has not given up: that a repair
  reaches an agent which is running with the bad key takes the whole chain of the beat that
  comes to its signature, the exception nobody catches and the restart.
* `ProcessCheck`: the scan runs; processes may change in any way.

## 4. Proofs

Each theorem rests on the module's assumptions about its constants and on one
inductive invariant: `IndInv`, and for the small modules of the last two files `DiskInv`, `CpuInv`,
`KeyInv`, `TrimInv` and, for `SysInfo`, the property itself.  `IndInv` includes the type
invariant, which is proved and so checked by TLC only in some of the runs; the others hold the
types their proofs need.

* `DaemonProofs`.  `IndInv` adds to the types who holds the mutex
  (`MutexDiscipline`), what the loop can know of the stop (`StopKnown`: whoever has
  passed the mutex since the write has seen it, which bounds `late`) and that
  the time to wait covers the rest of the interval (`RestCovered`).  From it
  come `Constructed`, `WakeupKept`, `LateBounded`, `Spaced` and the refinement of
  `PeriodicTask`, for any interval in `Nat`.
* `CollectSystemProofs`.  `IndInv` ties the index `k` to the threads started,
  the futures read and the threads joined.  For any number and any orders of
  collectors: promises outlive their workers, nothing is left running, the report
  is whole, and `Gather` is implemented.
* `AgentProofs`.  `Delivery` implies its three
  consequences; `Agent` implements it because a report is on its way only until
  it has been received (`Known`).  `Looked` gives `Fresh` and `NewestChecked`.
* `ValidationCheckProofs`.  The verdicts for all integers; for the number of peers they are
  those of the texts they come with, not of the comment.
* `ProcessCheckProofs`.  `Ahead`: what has stayed is still to be listed or to
  be examined, because `readdir` takes the least pid ahead.  For any number of pids.
* `MainProofs`, on `Config` and `Main`.  `ReadSoFar` and `TokenSoFar`: the members
  and the token are what the lines consumed so far say, the token as the text
  counted off by its places in the file.  `AcceptedSoFar`: what has been opened is what the paths lead to.
  `ParsedSoFar`: the argument looked at is one that stands for itself (the only set of
  such places there is), and the map has the first use of each option before it.
  For files of any length and any command line.
* `CollectorsProofs`.
  * `Network`.  A reading differs from the counter by the traffic that passed, but
    for whole turns (`Reading`, `ReadingsFollow`); what is listed and stayed, is live (`ListedLive`)
    and in the sample (`HeldSampled`).  For counters of any width and any unit.
  * `Disk`.  `Accounted`: a device mounted all the time with something on it is still to be
    looked at, or has its row.  `Looking`, `Measured`: what has been asked of a device that
    stayed mounted is its own size, and not that of what lies below its mount point.  With the
    monotony of rounded division (`DivGrows`): `RowsAddUp` and `LadenIsReported`, for any
    devices, sizes and changes.
  * `Cpu`.  `Counted`: a counter is what it was at the first sample plus the time counted
    since, but for whole turns (`Wrapped`).  `Bounded`: a tick counts twice at most, so less
    than a whole turn passes and the unsigned differences of the sums are the true ones
    (`PassedIs`); when iowait is taken back its own difference wraps, and that of all idle time
    need not.  Counters may start, and wrap, anywhere.  A share made of too large a whole is
    compared with the true one in `TrueShare`.
  * `SysInfo`.  Total, used and free by the monotony of division, for a memory in any unit
    whose megabytes an `int` holds, for the used part of such a swap, and for all of the swap
    in bytes.
* `ConversionsProofs`.
  * `Base64`.  `Collected`: where each character read is, in the octets
    written or in the group.  For any text: bounds, the bit stream, and that `decode`
    inverts `encode`.
  * `Signing`.  `OnItsWay`: what the buffer spells is what was made.
    The text of bytes is accepted and reads as them again (`HexRoundTrip`), appending
    commutes with it (`HexAppend`), and a text for a key is the text of exactly one
    sequence of bytes.
  * `DelSpaces`.  The characters left are embedded in the string, in order, and none that is to
    be kept is missing (`Embeds`); erasing one that is not to be kept preserves this
    (`StillEmbedded`, `NoneMissed`).  That the passes are enough is a count (`Passes`):
    what is left to erase is at most the number of passes left, and one more only as long as
    the turns of this pass have found nothing (`Clean`).  A whole pass that finds nothing has
    seen as many characters to be kept as its length (`CleanPass`), for it reaches one
    position further than the one before.

**Only model-checked.**  Liveness (`DtorReturns`, `KeepsBeating`, `CallEnds`,
`BeatEnds`, `RepairTakes`, `ScanEnds`), which is out of the prover's reach.  Every safety
property of a passing run is a theorem.  The other way round, the type
invariants of `Daemon`, `CollectSystem`, `Agent` and `Base64` and some consequences of
`Delivery` are proved and not among the properties of the runs.

## 5. Where the code is wrong, or not what its words say

What the runs refute, and what the properties had to be stated around:

* A `server_info` that lacks the age of its ledger is healthy (`validation.cpp:63`):
  `missing_age`.
* The warning about peers begins at seven and not below five, and nothing reads `peer_private`
  (`validation.cpp:83-84`): `peer_comment`.
* `sign ""` starts the agent (`main.cpp:140`): `empty_sign`.
* `init.sh` starts the agent with an option it throws over (`main.cpp:108`): `init_start`.
* A token without a secret, or with one that is no key, passes the constructor
  (`config.cpp:154-157`); the process dies at its first signature.  `FilesComplete`, and with it
  `RejectsTheIncomplete`, therefore asks nothing of the secret.
* The time of guests is counted twice in the whole the shares are made of (`cpu.cpp:21-22`).
  `SharesAddUp` compares the shares with the true ones and bounds what they fall short by.
* The total of the swap is scaled twice, its free part never (`memory.cpp:36-40`).
  `FiguresAgree` says of a swap in units larger than a byte only that its used part is right.
* The rate of a device replaced between the samples is no traffic (`network.cpp:101-102`), and
  the row of a device unmounted between two calls mixes two file systems (`disk.cpp:88-90`).
  `RowsAreTraffic` and `RowsAddUp` are about the others.
* A file of counters that does not open ends the process (`network.cpp:27-32`, `cpu.cpp:30-31`),
  and the uptime does not ask whether `sysinfo` failed (`host.cpp:69`).

## 6. Not modelled

* The curve and SHA-512: they yield any bytes in `Signing`.
* The rounding of floats in the collectors; which members of an answer
  `getValidatorInfo` copies; JSON texts, HTTP headers and log lines.
* The wait of a GET: `Agent` has it as one step with or without an answer, and takes its timeout
  (`http.cpp:110`) for granted.  The wait of the POST is a state of its own.
* `getHostInfo`: two texts copied in one step, and with them a host name that fills
  its buffer (`host.cpp:107`).  `getIPAddress`, the comparisons of `ByteSet`,
  `Digest::concat` and the hash of a vector, which nothing calls.
* Devices pulled while still mounted: `Disk` takes a device that has gone for unmounted.
* A negative interval (`config.cpp:75`): the theorems on `Daemon` hold for any in `Nat`, with zero.
* `startAgent`'s `sleep_until` of 2^31-1 hours (`main.cpp:54`), whose sum does not fit the
  clock's 64 bits and wraps to a moment some decades ahead.
* What `closedir(NULL)` does (`process.cpp:56`).
* `init.sh` beyond the arguments it starts the agent with.  It never gets that far
  with the files of `builds/package.py`: line 121 asks for `valmond.conf`, and
  `package.py:96` installs `valmond.cfg`.  Nothing writes the pid file its other commands read.
* The build, the containers and the other packaging scripts.

## 7. Plan

1. *(done)* `Daemon`, `CollectSystem`, `Agent` with their abstract
   specifications; the checks; `Config`, `DelSpaces`, `Main`; `Base64`; the theorems above.
2. *(done)* `Network`, `Disk`, `Cpu`, `SysInfo`: the collectors, with counters that wrap, decrease
   or start anew and devices that come and go; `Network` with proofs.
3. *(done)* `Signing`: hexadecimal in and out, and which secrets `SecretKey` accepts.
4. *(done in part)* `init.sh` against `main`'s arguments.  Left: its stop and status with the
   pid file, which depend on the shell's tools more than on this code.
5. *(done)* Proofs of `TokenAsWritten`, `RejectsTheIncomplete` and `RunsAsAsked`.
6. `Valmond`: `Main`, `Daemon` and `Agent` in one process under the service manager, so that the
   stop of the service, the beat and the restart interleave.  `Agent` already has the restarts and
   `Daemon` the stop; what the composition adds is `exit` in the middle of a beat.
7. *(done)* Proofs for `Disk`, `Cpu`, `SysInfo`, `Signing` and `DelSpaces`.
