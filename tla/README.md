# Verification of libjokertv

libjokertv is the host library of the Joker TV USB receiver: it opens the card,
tunes a frontend, receives the Transport Stream (TS) over isochronous USB
transfers, parses its tables, filters PIDs and passes programs through a CAM.
The modules of this directory model its concurrent core, check it with TLC on
small instances and prove the central results with TLAPS for every instance.

    tlc -workers 2 -config MCTsPipeline.cfg MCTsPipeline     # a run
    tlapm TsPipelineProofs.tla                               # a module of proofs

`PROJECT.json` lists the runs, maps every definition to the lines it stands for,
and lists the hazards each property is for.

## The system

| Component | Code | State | Operations | Talks to |
|---|---|---|---|---|
| TS pipeline | `src/src/u_drv_data.c` | `big_pool_t`: `ts_list`, `ts_list_all`, `ts_list_size`, `cancel`, `initialized`, transfers; `mux`/`cond`, `mux_all`/`cond_all` | `start_ts`, `stop_ts`, `read_ts_data`, `record_callback`, `process_usb`, `process_ts` | libusb callbacks; PSI hooks; `set_refresh` |
| Service thread and tuning | `src/src/u_drv_tune.c` | `stat` (status, refresh), `service_threading` (mutex, condition, `cancel`), the frontend | `tune`, `process_service`, `read_status`, `set_lnb_voltage`, `set_refresh`, `stop_service_thread` | I2C and reset lines; status callback |
| Descrambling list | `src/src/joker_en50221.c` | `programs_list` (status, PMT, version), `ca_connected`, `ca_session_number`, `mux` | `descramble_add`, `descramble_clear`, `pmt_update`, `sync_cam`, session and CA info callbacks | PMT hook in `process_ts`; the CAM |
| CI interface | `src/src/joker_ci.c` | `ci_threading`, `joker_ci_opaque` | `joker_ci`, worker, `joker_ci_close` | reset register; EN 50221 stack thread |
| EN 50221 stack | `src/3party/libdvben50221/en50221_transport.c`, `en50221_session.c`; callbacks in `joker_en50221.c` | connections with their send queues, sessions, `ca_session_number`; `slot_lock`, `session_lock` | `en50221_tl_poll`, the TPDU and SPDU handlers, session callbacks | the CAM; `pmt_update` of the TS thread |
| Command channel | `src/src/joker_fpga.c` | endpoints, `io_mux` | `joker_io`, `joker_open`, `joker_close` | every component |
| I2C master | `src/src/joker_i2c.c` | the OpenCores registers | `joker_i2c_read/write/ping` | command channel |
| Reset register | `src/src/joker_utils.c` | `joker->reset` | `joker_reset`, `joker_unreset` | tune, CI worker |
| PSI/SI | `src/src/joker_ts.c` | program lists, generated PAT/SDT | libdvbpsi callbacks | runs in `process_ts` |
| PID filter | `src/src/joker_ts_filter.c` | PID bitmap | block / unblock | command channel |
| Blind scan, sweep, tools | `joker_blind_scan.c`, `joker_xml.c`, `joker-tv.cc`, ... | | clients of the above | |

`linux/` (frontend drivers) and `3party/` (dvb-apps) are vendored.

What is hard in each, and what makes it correct:

- **TS pipeline.** Four threads (callback, usb, ts, application), two queues,
  two condition variables, a flag that is read without a lock. Correct: data is
  delivered in order, once, dropped only by the memory limit; hooks see it
  first; no wake-up is missed; stop and read return; nothing is freed in use.
- **Service thread.** The frontend has no lock; a flag under a mutex keeps the
  service thread away while `tune` configures it. Correct: exclusive use,
  status belongs to the current transponder, the thread wakes and stops.
- **Descrambling list.** Three threads share the list; sessions come and go
  without its mutex; objects carry a position (only/first/more/last) in a list.
  Correct: a program marked as sent is inside the CAM with its latest PMT, only
  wanted programs are, and each is sent in the end.
- **Command channel, I2C, reset register.** Replies that arrive after their
  command was given up, a process killed between command and reply, failures
  counted as success, a shadow register without a lock. Correct: one exchange at
  a time, replies in order and each handed out once; the chips in reset are
  those asked for; an I2C result says what was on the bus.
- **CI interface and EN 50221 stack.** Three threads and a CAM that opens and
  closes connections and sessions when it likes, over a link that loses and
  fails. Correct: both sides agree on what is open; a CA PMT goes to a CA
  session; the stack does not touch the CAM once it is closed; close returns
  (unless no CAM was found: see Findings).
- **PSI/SI and PID filter.** `get_programs` reads lists without a lock while the
  hooks extend them, and draws conclusions once. Correct: the filter passes what
  the selected programs and the CAM need and nothing else, the generated PAT
  lists them, each has its name.

## The modules

| Module | What it is |
|---|---|
| `TsStream` | abstract specification: a lossy ordered stream |
| `TsPipeline` | the pipeline; `ImplementsStream` is its refinement of `TsStream` |
| `MCTsPipeline` + 5 cfgs | instances of `TsPipeline` |
| `TsPipelineProofs` | type correctness, ownership of `mux_all`, the life of the pool of USB buffers; inductive invariant, order, byte count and memory limit, refinement, no loss but at the limit, fresh sessions |
| `ServiceThread` + 2 cfgs | service thread, tuning, stop |
| `ServiceThreadProofs` | its invariant and exclusive use of the frontend |
| `CaPmt`, `MCCaPmt` + 2 cfgs | descrambling list and the CAM's view of it |
| `CaPmtProofs` | the list has one entry per program; what the CAM was sent against what was asked |
| `CommandChannel` | abstract specification: exchanges one at a time, replies in order |
| `UsbCommand` | `joker_io`, `joker_cmd`, the two endpoints; `ImplementsChannel` |
| `Device`, `MCDevice` | composes `UsbCommand` with its clients: `joker_open`, reset register, I2C |
| `UsbCommandProofs` | the channel alone: invariant, bound on late replies, refinement |
| `DeviceProofs` | the same for the device; the reset register; the result of an I2C transaction |
| `Transport`, `Session` | the layers of the EN 50221 stack |
| `CiStack`, `MCCiStack` | composes them with worker, stack thread, TS thread, application and CAM |
| `CiStackProofs` | inductive invariants of the threads and of the layers, safety properties of the CI |
| `CiStackPeersProofs` | host and CAM agree: turn-taking on each connection, what is on its way for each session |
| `ProgramTables`, `MCProgramTables` | from PAT, PMT, CAT and SDT to program list, generated PAT and PID filter |
| `ProgramTablesProofs` | its inductive invariant and three properties |

### TsPipeline

Data is known by its position in the received stream, one unit per TS packet: a
`ts_node` is the interval `[pos, pos+size)` with a read offset. The contents of
packets, the alignment of packets in ISO packets and the statistics are left
out. Each thread has a program counter (`cb`, `usbPc`, `tsPc`, `appPc`); the
critical sections under `mux` are one action each, `mux_all`, which `process_ts`
and `read_ts_data` hold over loops, has an owner (`muxAll`). A
`pthread_cond_wait` puts the thread into `waiting`; a signal takes it out, and
so does a spurious wake-up. Reads of `cancel` without the mutex are actions of
their own (`UsbCheck`, `TsCheck`). `start_ts` is `StartSubmit`,
`StartUsbThread`, `StartTsThread`, or `StartFails` when memory or a command fails
before the transfers are submitted (fault "start"), after which the application
may call it again; `stop_ts` is `StopDisarm`, ... ,
`StopUninit`; `read_ts_data` is `ReadBegin`, ..., `ReadUnlock`. `CallbackFill`
is a call of `record_callback` by one of `EventThreads`: the usb thread, or a
thread ("io") inside a synchronous libusb transfer. A callback that finds its
pool freed (`CallbackWild`) is never heard of again. `rcvd`, `parsed`, `out`,
`sessions`, `sessionStart` and `nodes` are histories for the properties and the
bounds. The application calls the three functions one after the other, as
`joker-tv.cc` and `joker_blind_scan.c` do.

### ServiceThread

`process_service` is the sequence `SvcCheck`, ..., `SvcTimeout` with its unlocked
read of `cancel`, its wait while paused, the read of the status, the callback
and the timed wait. The application's `tune` is `TuneBegin` (with creation of the
thread), `TuneNoLock`, `TunePause`, `TuneConfigure` or `TuneFails`, `TuneResume`;
`CallBegin`/`CallEnd` stand for `set_lnb_voltage` and `read_status`. `statusOf`
and `config` tell which tune the stored status and the frontend belong to.

### CaPmt

`SyncProgram` sends one object of the list; the calls of `sync_cam` hold `mux`
over it, the session callback does not take `mux` and comes in between unless
the stack thread itself is in `sync_cam`. A PMT is what the code compares:
version and current_next. `CamReceive` is the CAM (external): *only* and *last*
replace its list, *update* changes one program of it. The query objects and the
TS switch at the end of `sync_cam` change nothing of this state. A failed
`calloc` is left out.

### UsbCommand, Device

A command is its opcode and its argument; a register value is the set of bits
that matter. `Call` takes `io_mux`, `IoOut` puts the command on endpoint 2,
`IoIn` reads endpoint 1, `IoOutFails`/`IoInFails` are transfers that are given
up (a command may have reached the card, its reply then stays on endpoint 1 and
is taken for the reply of the next command). `FpgaTake` is the card.
`joker_open` is `OpenBegin` ... `OpenReturn` with the reads that clean endpoint
1 (`CleanupRead`, each of which may fail while a reply is there); `Down` is the
death of the process, after which the card keeps what it was sent.
`joker_reset`/`joker_unreset` are `ResetLoad`, `ResetStore` (the read and the
write of `joker->reset`) and `ResetWrite`; an I2C transaction is one action per
command. One thread ("fe") stands for the two users of the frontend, which
`ServiceThread` keeps apart; the other ("ci") is the CI worker, and their
commands interleave freely. `failed`, `torn`, `intended`, `start` are histories.
`start.missed` counts the replies the cleanup left.

### Transport, Session, CiStack

A poll is `PollRead` (one link message), `HandleTpdu` (one TPDU of it, which may
end in a callback of the session layer), then `Serve` for one connection after
the other: `ServeSend`, `ServePoll`, `ServeLate`, `ServeNothing`. The poll
returns at the first error, as the code does. An SPDU is its tag, session number
and resource; a request takes a step before and after each callback, because the
TS thread reads `ca_session_number` and sends in between (`TsLock`, `TsRead`,
`TsCheck`, `TsQueue`, `TsEnds`). When a connection closes, each of its sessions
is made idle (`ConnectionClose`) before its callback runs (`CloseCallback`).
`gen` counts the uses of a session number. The worker is `WorkerStart` ...
`WorkerTc`, which may find no memory, get no layer or no thread; it does not
notice the last. `app = "crashed"` is what follows a join of a thread that was
never created. The application `AppCi`, `AppClose`, the
joins and `AppFree`. The CAM (external) is any one that answers: `CamHears`
answers a TPDU, `CamActs` takes the initiative (opens and closes sessions, asks
for and deletes connections), `CamMisses` loses one. The data of messages other
than their kind is left out, and so are the fragments of the link layer.

The date/time resource never answers in the model because `CamActs` opens `rm`,
`ca` or a resource the host does not have. The host itself deletes no connection
and creates and destroys no session: nothing in `src/src` calls
`en50221_tl_del_tc`, `en50221_sl_create_session` or `en50221_sl_destroy_session`,
so the states in which it would wait for their answers are unreachable and not
modelled.

### ProgramTables

A table is what the callbacks read of it: the PAT maps programs to PMT PIDs, a
PMT has elementary and CA streams, a CAT the PIDs of its CA descriptors, an SDT
has a version, current_next and its services. A decoder of libdvbpsi calls back
when the table on its PID differs from the one it had. `DumpPAT` is one action
per entry, and for a new program two: `PatList` appends it to the list, which
`get_programs` may read at once, `PatAdopt` does the filter, the PAT in the
making and the hook. `DumpPMT` is one action per stream, `DumpCAT` one per CA
descriptor. `get_programs` is `GetHooks`, the two waits (`GetPat`, `GetCheck`),
its walk through the list (`GetWalk`, one program each), `GetSdt` and
`GetGenerate`. Filter commands may fail and may then have been done or not; the
callers go on. `spoilt` is a history of the PIDs whose last command failed, or
was never sent because `ts_filter_only_service_pids` ends at the first failure.
A stream enters the list and the filter in one step, in place of two on the same
thread: no property looks in between. The 32 service PIDs and 0x1ffb are
represented by those of PAT, CAT and SDT, unblocked in order. A CAT's
descriptors are told apart by their PID, the code compares PID and CA system; a
second system on a PID unblocks what is unblocked.

## The runs

| Run | Shows | Bounds |
|---|---|---|
| `ts_pipeline` (passes) | `IInv`, `SizeIsSum`, `MemoryBound`, `ParsedBeforeRead`; `InOrder`, `NoSpuriousLoss`; refinement `ImplementsStream` | 3 nodes of 0..2 packets, reads of 1 and 3, limit 2, 2 sessions, both event threads, all faults: about 1.1 million states |
| `ts_pipeline_live` (passes) | `NoUseAfterFree`, `FreshSession`; `EventuallyParsed`, `ReaderWakes`, `StopOnlyWaitsForTs`, `FailedStartStopsUsb` | as above without the foreign thread and a failing release |
| `ts_stop_hangs` (violated) | `stop_ts` loses its wake-up of `process_ts` and joins for ever | 1 node, 1 session |
| `ts_read_hangs` (violated) | `read_ts_data` blocks where its documentation says it returns zero | 1 node, 1 session |
| `ts_foreign_callback` (violated) | a callback in a foreign thread uses the freed pool | 1 node, 1 session |
| `service_thread` (passes) | `IInv`, `FrontendExclusive`; `Monitored`, `StaleStatusPasses`, `TuneGetsFrontend`, `StopOnlyWaitsForPaused` | 3 tunes, all faults |
| `service_sweep` (violated) | a LOCK of the transponder before survives `tune` | 2 tunes |
| `ca_pmt` (passes) | `IInv`, `SentIsInside`, `OnlyIntended`; `CamIsServed` | 3 programs, 2 sections, any number of sessions and updates: 237 thousand states |
| `ca_pmt_send` (violated) | a failed update is never repeated | 2 programs |
| `device` (passes) | `IInv`, `SkewBounded`, `HardwareAsAsked`, `I2cTruth`; refinement `ImplementsChannel`, `EveryCallReturns` | 2 threads, 1 failed transfer, 1 cleanup read, 2 sessions of the process, 1 kill; at most 2 calls in all, of resets, an I2C transaction of at most 1 byte and a CI command |
| `ci_stack` (passes) | `IInv`, `CaNumberValid`, `PeersAgree`, `NoUseAfterClose`; `CaMessagesToCa`, `Delivered`, `CloseTerminates` | 2 connections, 2 sessions, 3 acts of the CAM, 1 failure, 1 time-out, 1 PMT, at most 3 of these events together: 910 thousand states |
| `program_tables` (passes) | `FilterMatches`, `PatComplete`, `Named` | 2 programs, 2 PMT PIDs, 2 streams, 3 PATs, 2 CATs, 1 change on the air, 1 failed command: 16 million states |

Why the bounds are enough: three nodes make a list with a first, a middle and a
last element and let one be in each place of the pipeline; sizes 0..2 against
reads of 1 and 3 give a read inside a node, to its end, over two nodes, and an
empty node; a limit of 2 is exceeded by two nodes or kept by one. Two sessions
show what survives a stop. Three programs are needed for *more* between *first*
and *last*. The sections of `ca_pmt` are a new version and the one that equals
the zeroed fields of a new entry. Deadlock is not checked for the pipeline and
the service thread: the bounded behaviours end (closed, or sessions used up) and
the hanging states of the violated runs are reachable in the others too.

In `device`, two threads, one failure and one kill give every way in which a
reply can be late: one that was given up, one that an earlier process left, and
both. The cleanup reads once where the code reads three times
(`joker_fpga.c:116-118`), so that a reply can be left behind by it. In
`ci_stack`, two connections and two sessions are the least with which one of
either can be closed, and its number used again, while the other lives. In
`program_tables`, a PAT lists both programs, one of them, or both on one PID,
and the one change is another PAT, PMT, CAT or SDT, at any time: a program
appears or moves to another PID. A CA PID of the CAT is also that of a stream,
so that each may come first; the other CAT adds a PID to a known one. Deadlock is
not checked in these three: the bounded behaviours end.

The liveness runs of the pipeline and the service thread that pass say precisely
where the threads may hang: `StopOnlyWaitsForTs` allows the lost wake-up that
`ts_stop_hangs` exhibits and nothing else, `StopOnlyWaitsForPaused` the same for
the service thread. `CloseTerminates` says that `joker_ci_close` returns
once the stack thread was created; when no CAM was found there is none, joining
it is undefined, and the property claims nothing.

### Fairness

Threads are scheduled (weak fairness of their steps). Where a thread needs a
mutex that others take again and again, strong fairness: the others hold it for
a bounded time, and the C library's mutexes do not starve a waiter in practice.
No fairness on the card (`CallbackFill`), on the caller (`StartSubmit`,
`ReadBegin`, `StopDisarm`, `TuneBegin`, ...), on spurious wake-ups, sessions or
CAM messages, except that the reply to a CA info enquiry that was sent arrives
unless the session closes (`CamIsServed` is about that reply).

`Device`: every thread inside `joker_io` goes on (its transfers have a time-out
of two seconds) and the card works on what it has; nobody has to call.
`CiStack`: the worker, the stack thread, the TS thread once it has the mutex, and
the application once it closes, go on, and the CAM answers what it hears;
nothing makes the CAM act, the application close or a PMT arrive.
`ProgramTables` has no fairness: it has safety properties only (the waits of
`get_programs` are bounded by `cnt`, whatever the broadcaster does).

## The proofs

Constants are arbitrary under `ConstantsAssumption` of each module (numbers are
naturals; the fault and thread sets are subsets of what is listed), which TLC
evaluates in every run.

- `TypeCorrect`: `TypeOK` and `ThreadInv` (who owns `mux_all` at which program
  counter). By induction, one step per action.
- `Invariant`: `IInv` adds that the nodes on `ts_list_all`, in the hands of
  `process_ts`, on `ts_list` and in the callback are adjacent intervals ending at
  `rcvd` (`ChainInv`), that `ts_list_size` is the distance between the ends of
  `ts_list_all` (`SizeInv`), and where the hooks and the reader stand
  (`ParsedInv`, `DeliveredInv`). Order alone is not inductive: that a read
  continues after the one before it needs to know where every undelivered
  packet is, hence the chain through all four places.
- `MemoryBounded`, `ParsedFirst` follow from it; `DeliveredInOrder` (`InOrder`)
  and `Implements` (`ImplementsStream`) from it step by step: a read extends
  `out` from `ReadPosition`, all other steps leave `out` alone and move
  `ReadPosition` forward or not at all.
- `ServiceInvariant`, `FrontendIsExclusive`: `refresh` is on while the service
  thread is past its test of it and off while `tune` configures; both read and
  write it under the mutex.
- `ListInvariant`: the descrambling list is free of duplicates and only listed
  programs have data.

- `UsbInvariant`: `MuxInv` (which program counters are inside `io_mux`),
  `OrderInv` (the commands on endpoint 2 and the replies on endpoint 1 are the
  unanswered ones, in order), `OwedInv` (a reply that is owed was given up, or
  was there at `joker_open`). `SkewBounded` alone is not inductive: that a reply
  is late by no more than what was given up needs to know that no reply is lost
  or duplicated in the card (`LastInv`) and where the cleanup stands
  (`CleanupInv`). `UsbImplements` is the refinement of `CommandChannel`, step by
  step; `DeviceInvariant`, `IInvHolds`, `SkewHolds`, `DeviceImplements` carry
  these over to the device: each step of a client is a step of the channel or
  leaves its variables alone.
- `CiInvariant`: `LifeInv` (which thread has been started, has `ci`, is told to
  stop), `JobInv` (what the callback in progress knows of its session), who has
  `jen->mux`, and that the number the TS thread has read was an open CA session
  then and still is unless `gen` moved. The last is what `CaMessagesHold` needs
  and no property of one state says. `CaNumberHolds` and `NoUseAfterCloseHolds`
  follow. It holds for every number of connections, sessions, tries and events
  and whatever the CAM sends.
- `TablesInvariant`: only programs that are adopted (filter, PAT, hook) have
  streams, since streams come from the hook; so what the walk of `get_programs`
  finds ready is adopted although the walk takes no lock (`PatHolds`); the SDT
  hook comes after the walk, so that the first SDT to be stored finds every
  program of the walk in the list (`NamedHolds`); the filter is the service PIDs,
  those of the CAT and of adopted programs, but for the PIDs that are `spoilt`
  (`FilterHolds`): a command that failed touches no other PID, and the next one
  that does its PID puts it right.

- `PoolOutlivesItsUsers` (`NoUseAfterFree`): under `"io" \notin EventThreads`, a
  callback is `process_usb` at work (`LifeInv` of `TsPipelineProofs`), which
  `stop_ts` joins before it frees the pool. `ts_foreign_callback` is the run that
  shows the hypothesis is needed.
- `OnlyTheLimitLoses` (`NoSpuriousLoss`): from `Invariant`, step by step: the read
  position moves without a read only where `process_ts` cuts the list, that is
  over the limit.
- `SessionsAreFresh` (`FreshSession`), under the same hypothesis and
  `"release" \notin Faults`: a session begins with nothing to read (`FreshInv`),
  since `stop_ts` waited for every thread that holds a node.
- `NeverUnasked` (`OnlyIntended`): a list the CAM collects was opened by the call
  of `sync_cam` in progress, or was thrown away with its session (`IntendedInv`),
  and the application's wishes change only between the calls.
- `SentReachesCam` (`SentIsInside`), under `Faults = {}` (`ca_pmt_send` shows that it
  fails with a failing send): `ProgressInv` counts what a call has sent with the
  cardinality of the programs it passed, so that the CAM's list is complete
  exactly when the call ends.
- `ResetsAsAsked` (`HardwareAsAsked`): where the one call in progress stands
  (`StageInv`), and that the last write of the reset register the card has or was
  sent is what was asked for (`Reaches`). The register and `joker->reset` alone are
  not inductive: writes still on endpoint 2 decide.
- `I2cTruthful` (`I2cTruth`): the place of the current byte (`Fresh`, `Loaded`,
  `CrSent`, `OnBus`, `Through`) at each line of `joker_i2c_write` and
  `joker_i2c_read` (`I2cAt`), among the commands of the CI worker on endpoint 2; that the
  status read is the answer to the status command just sent (`Asking`, from
  `OwedInv` and `OrderInv`); and that a write of the reset register which the CI
  worker sends meanwhile does not put the I2C chip into reset (`RightAtLast`).
  Hypotheses: `PollBudget` is even and positive, as the code's 1000. With an odd budget
  it is false: `cnt` goes down by two per poll (`joker_i2c.c:75-86`), can be
  0 after a last poll that found the byte through, and the function returns `EIO`.
- `LayersHold` (`CiStack`'s `IInv`): the types of every message in flight, that the
  stack thread is in a callback only for a live connection and that sessions are
  on live connections (`LiveInv`), who owns the mutex (`MuxOwner`).

- `PeersHold` (`PeersAgree`), while nothing failed, timed out or was left over
  (`Clean`, which once false stays false). The agreement speaks of the moments at
  which nothing is on its way; the invariant has to say what may be on its way in
  between. `LinkInv`, for each connection: host and CAM take turns, so that of
  the TPDUs that call for an answer, the CAM's messages and the one the stack
  thread holds there is at most one (`OneToken`, `OneMessage`); which of the two
  states of the connection go together, and through which message each difference
  ends (`InState`, `Chain` for an SPDU whose first part has arrived). `AgreeInv`,
  for each session: the two tables are equal but for the answer to a request to
  open (`OpenPends`), the CAM's request to close (`AskedEnd`) or the answer to it
  (`ClosePends`, `Ending`), or for a connection the CAM has deleted; and each of
  these is in one place only (`OnceAsked`, `InOrder`). `LinkInv` is kept without
  `AgreeInv`, which needs it: that the next message is the only one on its way is
  why no answer about a session is overtaken by a request about its successor.
  Both rest on `CiInvariant` and `LayersHold`, and hold while no step makes
  `Clean` false (`CleanBefore`).
- `SizeHolds` (`SizeIsSum`): the distance between the ends of the list, which
  `Invariant` has, is the sum of the sizes because both satisfy the recursion of
  `TotalSize`, and two functions that do have no first place where they differ
  (`SameSums`, from the well-foundedness of `<` on the naturals).

Every safety property of a run that passes is a theorem. Model-checked only is
what needs fairness: the liveness properties (`EventuallyParsed`, `ReaderWakes`,
`StopOnlyWaitsForTs`, `FailedStartStopsUsb`, `Monitored`, `StaleStatusPasses`,
`TuneGetsFrontend`, `StopOnlyWaitsForPaused`, `CamIsServed`, `EveryCallReturns`,
`Delivered`, `CloseTerminates`), since `ENABLED` is out of the prover's reach.

## Findings

Five, each with its run, in `PROJECT.json`: the lost wake-up of `stop_ts`; the
blocking `read_ts_data`; the callback that outlives the pool; the stale LOCK
after `tune`; the CA PMT update that is not repeated.

Met while modelling, without a run of their own:

- `joker_i2c.c:39` and `:59` compare (`ret != joker_io(...)`) where they should
  assign: a command that failed counts as done, and `joker_i2c_write`,
  documented to "return error code if fail", returns 0. `I2cTruth` is therefore
  stated for transactions without a failed command.
- `joker->reset` is changed without a lock by the CI worker and by `tune`; of two
  overlapping changes one may be lost, though both calls return.
  `HardwareAsAsked` therefore excepts them (`torn`).
- `joker_ci_close` joins the stack thread also when no CAM was found and it was
  never created (`joker_en50221.c:260`), which is undefined. `CloseTerminates`
  therefore excludes the case (`handle`).
- `joker_reset`, `joker_unreset` and `joker_close` end without a return value.
- `joker_fpga.h:45-47` ("in reset state if flag not set") and `:94-96` ("'1' -
  mean in reset state") give the bits of the reset register opposite senses.
- After `joker_ci_close`, `joker_ci` starts no worker again: `ci_threading` is
  never freed (`joker_ci.c:827`), though the message at `:712` tells the user to
  close first. A worker that is stopped before its
  first status read looks at an uninitialised buffer (`joker_ci.c:742-746`).
- `handle_delete_tc` leaves the time-out and the send queue of the connection:
  messages of before go out on the next connection with its number. An active
  connection that timed out makes every poll return before the connections
  after it are served.
- The close of any CA session resets `ca_session_number`, also with another one
  open. A session number may be used again before its CLOSE reply is delivered;
  a CA PMT may be queued for a session whose number is another's by then, which
  `CaMessagesToCa` excepts.
- With programs selected, the PMT PIDs of the others are blocked, so that
  `get_programs` waits its full second unless all are selected. Two programs on
  one PMT PID: only the one listed last is served (`hooks_opaque`). A PMT PID
  that changes in a later PAT is not followed. A program listed after the SDT
  was stored has no name until the SDT's version changes. The generated PAT is
  built once and lists no program that comes later. Without a PAT within a
  second the list returned is empty and the SDT hook is installed before any
  PMT, against the comment at `joker_ts.c:1193`. `has_video` and `has_audio` are
  not initialised (`joker_ts.c:454`).

## Not modelled

In the order in which it would be worth adding:

1. Single USB transfers: their resubmission, error and cancellation, in place of
   `CallbackFill`.
2. The frontend drivers' I2C transactions composed with `ServiceThread`
   (`send_diseqc_message` uses the bus without the mutex).
3. Arithmetic of single functions without state: packet alignment over ISO
   packets (`next_ts_off`, the tail), LNB bands and frequency, the packets of the
   generated PAT and their continuity counter (`psi_pkts_generate` writes each
   packet after the second over the one before, `replace_pat` emits the first
   only), `check_pattern`.
4. NIT, TOT/TDT, ATSC VCT and the conversion of names; MMI, application
   information and date/time of the CAM; more than one CAM slot.
5. The fragments of the CAM's link layer and the parser of its tuples.

Left out for good: the vendored drivers and libraries but for the two layers of
the EN 50221 stack that run in this program's threads, SPI flash upload (a
straight sequence of commands), blind scan and sweep (single-threaded clients of
what is modelled), the MMI server and the command line tools (I/O), XML and CSV
files, pcap dumps, printing. The vendored demodulator and tuner drivers in
`src/linux` are by far the greater part of the repository's lines: register
sequences of chips, one after the other in one thread, whose meaning is in the
chip. That is why the map covers a small share of all lines, while it covers
more than a third of `src/src`.
