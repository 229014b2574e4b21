# TLA+ models of the AFIK radio firmware

AFIK is firmware for handheld radios of the UV-K5 family (targets K5 and K1)
with the host tools that program them. This directory holds TLA+ modules that
model the parts of it where state, time, failure and interleaving decide what
is correct; TLC configurations that check them on small instances; and proofs,
checked by TLAPS, that the central safety properties hold for every value of
the constants.

Run a model with `tlc -config X.cfg M`, a proof with `tlapm M.tla`.

## 1. The system

Line numbers refer to `src/crates/`.

| Component | State it keeps | Operations | Talks to |
| --- | --- | --- | --- |
| PTT controller, `radio-platform/tx_control.rs` | phase, cycle, instance, key, fault, accepted request and deadline | `new`, `handle(event)`, `effect`, `state` | called by the interface task; asks for effects that `transmit.rs` runs |
| BK4819 driver, `radio-bk4819` | driver state, cached GPIO word (with the PA enable bit), tuned channel | `prepare_transmit`, `enable_transmit`, `enable_pa`, the two disables, `configure_receive`, squelch, sleep, scans | the chip over a three-wire bus |
| Effect execution, `radio-platform/transmit.rs` | none | `TxSetup::request`, `execute`, `run_effects` | controller, driver, TX policy |
| PTT filter, `radio-platform/ptt.rs` | filtered key, start of the low run, end of the quiet window | `sample`, `serial_activity`, `level` | interface task |
| Interface task, `radio-app/interface.rs` | receiver, operator shell, both slots, controller, settling place, pending squelch, scan, dual watch, power save | one pass every few milliseconds | serial task through five signals; keypad, display, chip |
| Serial task, `radio-app/serial.rs` | link, "written" flag, active configuration, generation | answer host blocks, reload, record the operator's place | link, memory, interface task |
| Shared signals, `radio-app/state.rs` | `PROGRAMMED`, `OPERATOR_PLACE`, `SERIAL_ACTIVITY`, `TX_POLICY`, bus-idle clock | signal, take, reset | both tasks |
| TX policy, `radio-tx-policy` | programmed ranges, class permissions | `authorise`, `permits`, `validate` | controller, transmit setup |
| Memory link, `radio-platform/memory_link.rs` | handshake, session | hello, read, write | serial task |
| Staged memory, `radio-eeprom/staged.rs` | a staging buffer over one NOR sector | `stage`, `commit` | serial task, NOR driver |
| Operator-place log of the K1, `radio-firmware-k1/py32f071_eeprom.rs` | one NOR sector of records, the next free slot | `read_operator_state`, `write_operator_state` | serial task, NOR driver |
| K1 memory view, `radio-firmware-k1/main.rs`, `memory_view.rs` | blocks of a place gathered in RAM, staged blocks | read, write, `commit_host_write` | serial task, staged memory, place log |
| Dual-slot store, `radio-storage/dual_slot.rs` | two slots with headers and generations | `load`, `update` | storage device |
| Device service, `radio-device` over the transactional store of `radio-storage` | active and candidate configuration, transaction, most recent exchange | hello, listing, read, begin, put, validate, commit, abort | programmer, durable store |
| Programmer session, `radio-programmer` | sequence number, outstanding request, what has been read | connect, write, verified write, backup | device service over a link |
| Receive control, `radio-channel-control` | source, selection, monitor, scan phase, timer token | selection, scan, `observe`, `timer_elapsed` | interface task |
| Dual watch, power save, catch, `radio-platform` | which stop listens, sleep phase, readings seen | one tick each | interface task |
| Flasher, `radio-flasher` | per-session step, image position | hello, compare, write, read back, place | serial task of the radio over a link; boot loaders |
| Receive application and shared serial control, `radio-platform/receive_app.rs`, `serial_control.rs` | receiver activity, candidate hand-off | | no target builds them |

Two Embassy tasks share one cooperative executor: a task runs until it awaits.
The interface task owns the radio chip, the keypad and the display; the serial
task owns the link and the memory. They exchange *signals* that hold one value
each; a second signal overwrites a value nobody has taken.

**What is hard.** The chip keeps its outputs through a processor restart, and
its PA bit is cached in a word that unrelated operations rewrite. Every
register write can fail. The controller's effects are executed by someone else
and reported later. The programming cable shares the PTT jack. The two tasks
interleave at every `await`, and signals lose what they overwrite. Host writes
arrive in small blocks over power failures, over a link that loses and delays
messages. Scan, dual watch, battery save, monitor and the operator share one
receiver and one pending retune, and any pass may replace the configuration
under all of them. Each of these is listed, at its
line, in `PROJECT.json` under `hazards`, with the property that watches it.

**What makes it correct.**

* PTT: no carrier without a fresh press, authority and a running deadline; every
  transmission ends; receive returns only after both disables have succeeded; a
  fault latches.
* PTT filter and pass: serial traffic never keys the radio; the controller's key
  and the filter's never part; a pass leaves no half-done chain behind.
* Application tasks: the interface always ends on the serial task's latest
  configuration; a place recorded belongs to the configuration in force.
* TX policy: what it authorises is permitted by the programmed ranges, whatever
  their order.
* Memory and storage: after a power failure a complete image, old or new, is
  read back; a host block is never half written.
* Receive control and scanning: the receiver is where the radio says it listens;
  a scan always has its clock, its dwell on a channel ends, and it stops only for
  a signal on the channel it is on.
* Device service: a request is performed once however often it arrives; an
  acknowledged configuration survives; a generation names one configuration.
* Flasher: a session ends; an image read back is what the radio comes to run, and
  the radio goes to the place written with it, with the exceptions section 4 names.
* Place log: what a start finds is the last place recorded, through failing and
  interrupted erases and programs.

## 2. The modules

| Module | What it is | Composed with |
| --- | --- | --- |
| `TxControl` | the PTT controller: one record `ctl`, one function `Handle` for every event | extended by all `Tx` modules |
| `TxChip` | the driver operations of a transmission, each as the set of its outcomes | extends `TxControl` |
| `TxLifecycle` | what the transmit path promises, without phases, effects or registers | implemented by `TxSystem` |
| `TxSystem` | controller, chip and the target between them: execute, report, repeat a report, restart | extends `TxChip` |
| `TxPass` | the PTT filter and one pass of the interface task around the controller | extends `TxControl` |
| `AppTasks` | the serial and interface tasks and the signals between them | stands alone |
| `StagedNor` | staged host writes over NOR memory, one program or erase at a time | stands alone |
| `AtomicImage` | what a retained configuration promises: one image, replaced in one step or not at all | implemented by `DualSlot` |
| `DualSlot` | the two slots of an object device and the update of one, block by block | extended by `ObjectDevice` |
| `ObjectDevice` | programmer, link, device service and transactional store over the slots | extends `DualSlot` |
| `ReceiveControl` | the channel controller: selection and scan, one operator per operation | extended by `ReceivePass` |
| `ReceivePass` | the receive part of the interface task's pass: scan clock, adoption, keys, dual watch, battery save, catch, receiver | extends `ReceiveControl` |
| `PlaceLog` | the K1's log of operator places in one sector | extended by `HostWrite` |
| `HostWrite` | the flasher's session, the link, the serial task and the K1's memory view around the log | extends `PlaceLog` |
| `TxControl_proofs`, `TxSystem_proofs`, `TxPass_proofs`, `AppTasks_proofs`, `StagedNor_proofs`, `ObjectDevice_proofs`, `ReceivePass_proofs`, `PlaceLog_proofs` | the proofs (`PlaceLog_proofs` also those about `HostWrite`, `ObjectDevice_proofs` those about `DualSlot`, `TxSystem_proofs` also the refinement of `TxLifecycle`) | extend the module they name |
| `MCTxSystem`, `MCTxPass`, `MCAppTasks`, `MCStagedNor`, `MCObjectDevice`, `MCReceivePass`, `MCHostWrite` | constants for TLC | extend the module they name |

### Transmit: `TxControl`, `TxChip`, `TxSystem`, `TxLifecycle`

`ctl` has the fields of `Controller` in `tx_control.rs`. `Handle(c, t, event,
pol, cur)` is `Controller::handle`: the clock check, the standing checks
(`Observe`), then the event; `Complete`, `Shutdown` and `Finished` are its
private functions. `EffectGranted` is `Controller::effect`. A `TxRequest` is a
model value; a `TxPolicy` is the set of requests it authorises, so that facts
change by `ChangeFacts`. Cycle numbers stop at `MaxCycle` as the code's stop at
`u32::MAX`, and timestamps at `MaxMs` as the code's at `u64::MAX`: both limits
are behaviour of the code and are reached in the runs. `Instance` is the 1 that
the interface task passes to `Controller::new` at every start.

`TxChip` keeps the PA bit three times over: in the cached GPIO word (`paBit`),
on the pin (`pin`), and as the driver's belief (`state`). Every driver
operation returns a set of outcomes, one for success and one for every register
write after which it can fail; a failed write may or may not have arrived. A
restart (`Reset`) loses the cached word and the belief and keeps the pin.

`TxSystem` executes one effect (`ExecuteEffect`), owes its report and delivers
it (`Acknowledge`), with any event in between. A report already made may be
delivered again in either outcome (`Redeliver`), an effect refused for stale
facts is answered by an invalidation (`RejectEffect`), and at rest the interface
task may retune the receiver (`Retune`). `Restart` sets the clock back to zero,
makes the controller anew with the same instance, and loses the report that was
owed: reports live in RAM and are made in the pass that ran their effect, so none
reaches the controller of the next start. `issued` is the history of one start.

`TxLifecycle` is what the operator is promised. `TxSystem` maps to it by
`state <- State(ctl)`, `held <- ctl.pressed`, `air <- OnAir(chip)`.

### The pass: `TxPass`

`StartPass` is the top of the loop in `interface.rs`, in the code's order: take
`SERIAL_ACTIVITY`, sample the key, make the controller if there is a channel,
handle the event. `RunEffect` is one turn of `run_effects`, `EndPass` its end
after `MAX_EFFECTS_PER_PASS`. Within a pass the time (`at`), the policy and the
request do not change; the raw key and the clock do. The history variable `seen`
records what the samples have shown, and nothing of the pass depends on it.

### The two tasks: `AppTasks`

The state of each task is one record (`srv`, `ui`), each signal one variable
that holds a value or `None` (`published` is `PROGRAMMED`, `offered` is
`OPERATOR_PLACE`). `turn` says where the interface task awaits: at the top of a
pass, or in the keypad scan, which yields on the K1 and not on the K5
(`ScanYields`). The windows of real time are the steps of `srv.quiet`
(`Quieten`) and of `ui.ripe` (`Ripen`).

Abstractions: the starting state is the one after the serial task's two
publications of boot; one slot is followed, the selected one; scanning, dual
watch and catches within a pass are left out; a memory is present; and a host's
image is one whole value, because only its commit is looked at. On the K1 the
memory is staged: a read during a write finds the old image, the new one or none
that can be loaded, which is what `Reload` and `HostWrite` allow.

### Staged writes: `StagedNor`

A block's contents are the set of its bits that are set, so that programming is
intersection with what is there and erasing restores all bits. `Write`, `Clear`
and `Stage` are a host block; `Commit`, `Fill`, `Erase`, `Copy` and `Committed`
are the three loops of `Staged::commit`. Each step may fail where the driver can
(`Fail`) or meet a power cut (`PowerCut`). `session` is a history: the region as
the host means it, and what has gone wrong in this write. The model is more
pessimistic than the part: an interrupted erase may leave any contents. A failed
erase has been refused or is done.

### The object device: `AtomicImage`, `DualSlot`, `ObjectDevice`

A slot is a function from its blocks (header, payload, commit marker) to what
they hold; a checksum is modelled by what it covers, and a block whose write was
interrupted is `Torn`, which no checksum accepts. `NewestSlot` compares
generations modulo `GenMod` as the code does modulo 2^32. `Updating` is one block
of `update`: erased marker first, the new one last; each may fail with or without
having arrived, and the power may go.

`ObjectDevice` adds the service (`device`), one action per request of the
protocol, and `Replay` for the request that has the number of the most recent
one. `device.held` is the exchange whose commit was undone because its storage
failed (`radio-sim`, `K5ObjectDevice`): the service is restored as it was before
the request, and the answer is kept beside it. `host` is one request at a time,
with the steps of `write`, its verification and a backup; `link` loses frames, and
delivers an outstanding request twice. `history` (what each generation was seen to
name, what was acknowledged, asked and kept) is read by properties only.

### Receive: `ReceiveControl`, `ReceivePass`

`ReceiveControl` has the operations of `BankedReceiveController` as operators
from a controller to an update: the controller after it, the setup to tune and
what becomes of the timer. A source is a set of indices; which records can be
read may be different in every step. `ReceivePass` runs one pass as turns in the
code's order (`clock`, `adopt`, `keys`, `idle` or `acted`, `radio`, `tune`,
`draw`); the serial task and the operator act between the turns at which the task
awaits. The scan's timer carries its token and whether it is due; battery save
and dual watch act whenever their conditions allow, which covers every
deadline. `ui.late` marks a move of dual watch the link held back.

### A host programs a K1: `PlaceLog`, `HostWrite`

The log is a function from slots to records. `Walk` is `read_operator_state`:
it reads every slot, keeps the last whole record, passes over torn ones, and
stops early where a read fails.
`BeginSave`, `Erase` and `Program` are the steps of `write_operator_state`; a
program that fails or is cut leaves its slot old, torn or new. `recent` and
`programs` are histories: the places a start may find, and the slots used since
the last erase.

`HostWrite` puts the session around it. The link keeps order in each direction,
loses messages, and an answer may come after the host has asked again
(`HostWaits` is the time-out, bounded by `EXCHANGE_ATTEMPTS`; an answer to an
earlier request is passed over, bounded by `EXCHANGE_STALE_PACKETS`). Image blocks
are staged and a read finds them before they are committed; place blocks are
gathered in RAM, and dropped by a reload that finds them incomplete. `staging` is
the write open in `Staged`. A commit may fail (`CommitFails`): the region is left
with any part of the image, the write stays open with its blocks and its fill, the
result is dropped, and what is staged goes on being read over the region. A later
block may then be refused, or be programmed over an old block that the commit
filled in (`spoilt`). A load may fail (`Loads`): the index is empty until the next
load. `StagedNor` has the steps of a commit; here is what is left of them for the
session. `harm` is a history of what `VerifiedRuns` and the two `Reaches` properties make no promise
about.

## 3. The runs

| Run | Module, cfg | Question | Bounds |
| --- | --- | --- | --- |
| `tx_system` | `MCTxSystem`, `MCTxSystem.cfg` | the safety of the transmit path, and its refinement of the lifecycle | two requests with timeouts 1 and 2, clock to 2, two cycles a start, any number of restarts |
| `tx_live` | `MCTxSystem`, `MCTxLive.cfg` | every transmission ends, and the amplifier is released, through restarts | one request, clock to 2, two cycles a start, any number of restarts |
| `tx_pass` | `MCTxPass`, `MCTxPass.cfg` | filter, controller and pass agree | one request, timeout 2, clock to 9, debounce 2, quiet 3, eight effects a pass |
| `tx_pass_held` | `MCTxPass`, `MCTxPassHeld.cfg` | is a held key ever taken for two presses? It is | the same |
| `app` | `MCAppTasks`, `MCApp.cfg` | both targets: the held bus and the order of adoption keep the radio off a half-written image; where the scan does not yield (K5) the image in memory is reached | five generations (two host writes) on the K5, three (one) on the K1; one channel, two squelch levels |
| `app_latest` | `MCAppTasks`, `MCAppLatest.cfg` | is a publication ever lost? On the K1 it is | three generations |
| `app_saved` | `MCAppTasks`, `MCAppSaved.cfg` | is the place the interface takes for written down written down? Not always | three generations |
| `staged` | `MCStagedNor`, `MCStagedNor.cfg` | staged writes through failures, repeated commits and power cuts | two sectors of two blocks, one bit a block |
| `staged_retry` | `MCStagedNor`, `MCStagedRetry.cfg` | does an acknowledged block always reach the memory? Not after a failed commit | the same |
| `object_device` | `MCObjectDevice`, `MCObjectDevice.cfg` | does a configuration written, verified or backed up survive whole? | two keys, one payload block, generations modulo 8, two mishaps, two sessions, two operations |
| `receive` | `MCReceivePass`, `MCReceive.cfg` | scan, dual watch, save, catch and publications over one receiver | two channels of which one is duplex, a list that may be narrowed, three tokens, two acts of the operator and host |
| `host_write` | `MCHostWrite`, `MCHostWrite.cfg` | does an image and a place a host writes arrive? | two image and two place blocks, none of the image there before, two slots, two attempts, two stale packets, two faults |

Twelve runs: eight pass, and four (`tx_pass_held`, `app_latest`, `app_saved`,
`staged_retry`) show a statement of the repository that the code does not keep.

**Why the bounds are enough.**

* `tx_system`: a deadline must be reachable before, at and after each phase of
  an entry; two timeouts on a clock to 2 give every order, and a press at the end
  of the clock has no representable deadline. Two requests are needed for
  "another request than the accepted one". Two cycles give a press, a shutdown
  opened from rest, and exhaustion; a repeated report of the first meets the second.
  A restart begins the same clock and cycles again, over outputs the chip has kept.
* `tx_pass`: the constants keep the order of the code's (debounce < quiet) and
  the clock runs long enough for a host request, the window, the debounce, an
  entry and its timeout in one behaviour. The largest share a pass needs, eight,
  is the code's own number.
* `app`: each host write takes two generations. A late reload of one write
  against the next needs two, on the K5; the races within one need one, and only
  the K1 has them.
* `staged`: with two sectors one is finished while the other is not; with two
  blocks a page and a sector, a neighbour is erased or filled with a block. One
  bit distinguishes kept, cleared and erased contents.
* `object_device`: modulo 8 is the smallest range with room on both sides of the
  comparison, and the run starts also just below the wrap. Two operations let a
  write meet what the one before it left behind; two sessions let requests and
  answers of the first meet the second, whose sequence numbers start again; two
  mishaps let one failure meet another (a storage failure and a restart, a
  repetition and a loss). One payload block has all the places an update can stop
  at (marker, header, payload, marker). The theorems have no such bounds.
* `receive`: two channels make a scan move, one duplex channel gives dual watch
  its second side, three tokens keep a stale one from looking fresh over the two
  acts, and two acts allow a publication, a key or a transmission in the middle
  of what another has begun.
* `host_write`: with two blocks a request between two blocks of the same record
  can be lost; two slots give a sector that is spent and erased; two attempts and
  two faults give an exchange that is repeated and one that fails, and let a lost
  message, a failed commit, load or save and a refused block meet in pairs; the
  battery is no fault and may go at any step. Blocks equal to the new ones are
  skipped by the host; that case is left to the theorem, which holds for any
  `Before`, because it would take the run past five minutes with the others.

Deadlock is checked in all runs but `object_device`; the other systems cannot
stop, since facts, keys, hosts and restarts always may act. In `object_device`
the host has a bounded number of operations and stops after them.

**Fairness.** `FairSpec` of `TxSystem`: the interface task calls `handle` and
`run_effects` on every pass, every few milliseconds, so time is told, a pending
effect is executed or rejected, and its report is delivered; and the radio does
not restart for ever (`<>[][~Restart]_vars`), without which it need never come to
do anything. `FairPassSpec`: the
executor polls the interface task and a pass runs to its end. `FairSpec` of
`AppTasks`: passes run; `Quieten` and `Reload` are strongly fair, because the
executor polls every task whose timer has expired whenever the interface task
awaits, and the interface task awaits in every pass. `ReceivePass`: the pass runs
on, an armed timer expires, and a clock turn at which the whole memory can be
read comes again and again (`SF` of `ScanClock(Channel)`: a failing bus does not
fail for good). `ObjectDevice`: the device answers what has arrived and the host
goes on, its time-out included. `HostWrite`: the host's program runs, the link
delivers what it has not lost, and the serial task is polled when bytes or its
timers wake it. Nothing is assumed of the operator, the facts or the outcome of any
operation, and nothing of the host in `AppTasks`. A latched transmit
fault makes the interface task skip the rest of each pass for good; the model
has that as `PassTop` returning to the top.

## 4. The properties

Transmit (`TxSystem`): `SilentBeforeReceive`, `KeyedWithAuthority`,
`TransmittingIsOnAir`, `IdentitiesUsedOnce`, `FaultLatches`, `WithinDeadline`,
`EveryTransmissionEnds`, `AmplifierReleased`, `ImplementsLifecycle`.
The pass (`TxPass`): `KeyAgrees`, `EntryNeedsSteadyKey`, `StopsInThePass`,
`PassSettles`, `NoRefusalInPass`, `LiftedKeyRearms`. The tasks (`AppTasks`):
`LatestAdoptedInTurn`, `RangesOfWholeImage`, `TunesWholeImage`,
`BlankPlaceDiscarded`, `LatestReaches`. Staged writes (`StagedNor`):
`StagingHoldsAll`, `ReadsAsWritten`, `CommitsExactly`. The object device
(`ObjectDevice`): `AcknowledgedSurvives`, `GenerationNames`, `SnapshotIsWhole`,
`NoTransactionLeftBehind`, `ReplayChangesNothing`, `StoresAtomically`,
`OperationsEnd`. Receive (`ReceivePass`): `ScanHasClock`, `ListensWhereItSays`,
`HoldsWhatItHears`, `DwellEnds`. A host's write (`PlaceLog`, `HostWrite`):
`KeepsLastPlace`, `ErasesWhenSpent`, `VerifiedRuns`, `SessionEnds`,
`ImageReaches`, `PlaceReaches`. Each is stated in words where it is defined.

What three of them leave out, because the code does not keep it:

* `IdentitiesUsedOnce` speaks of one start. Every start issues the same identities
  again, with instance 1 (section 6).
* `VerifiedRuns` and `ImageReaches` make no promise once a commit has failed, or
  the battery was pulled with the write uncommitted, after the last reading was
  asked for (`harm.image`): nobody looks at the commit's result or repeats it. And
  a load that could not read the memory leaves no image (`running` is `"unread"`)
  until the next load.
* `PlaceReaches` makes none if the radio reloads between the place's blocks, its
  memory fails over the place, or its battery is pulled (`harm.place`). The place
  is taken also when the commit of the image beside it has failed.

Proved, and in no run of their own: `TypeOK` of `TxSystem`, `StagedNor`,
`AppTasks`, `ObjectDevice` and `ReceivePass`, `PassTypeOK`, `PlaceTypeOK`,
`SlotTypeOK`, `HostTypeOK`, `StoredIsLoaded`, `StagedIsOnItsWay` and
`SlotsProgrammedOnce`. Whoever changes one of these modules adds its type
invariant to the cfg while doing so.

Four properties the documents or comments state do not hold of the code:

* `OneEntryPerPress`: a host request makes the filter report a held key released
  (`ptt.rs:56`), and the same press begins an entry it was never lifted for;
  `docs/tx-control.md:12` and `:57` exclude that.
* `LatestAdopted` on the K1: the interface task's republication of a squelch
  replaces a loaded image nobody has taken (`interface.rs:1915`). The radio then
  has no channels until the next write or restart.
* `SavedIsWrittenDown`: a place the reload discards stays marked as written down
  (`serial.rs:171`). Its squelch is lost at the next start.
* `CommitsAcknowledged`: after a failed commit a block not yet sent is programmed
  over the one the commit has filled in (`staged.rs:132`), and the bits both have
  in common are stored.

## 5. The proofs

TLAPS proves for every value of the constants, under the named assumptions of
the modules (`RequestAssumption`: timeouts are positive, as
`TxRequest::validate` requires; `BoundAssumption`, `PassAssumption`,
`StagedAssumption`, `SlotAssumption`, `ControlAssumption`, `PlaceAssumption`,
`HostAssumption`, `AppAssumption`: the ranges are ranges; `DeviceAssumption`: an
image is a configuration that fits the store and holds no object that is refused;
`NoneAssumption`, `ControllerAssumption` and `ExchangeAssumption`: an absent value
is not a present one):

| Theorem | Shows |
| --- | --- |
| `TypeCorrect`, `Silence`, `TransmissionIsReal`, `FaultsLatch`, `DeadlineKept`, `IdentitiesAreUnique`, `KeyingHasAuthority` (`TxSystem_proofs`) | the seven safety properties of `TxSystem` |
| `LifecycleImplemented` (`TxSystem_proofs`) | `TxSystem` implements `TxLifecycle` |
| `HandleSound` (`TxControl_proofs`) | one call of `handle`, with any event at any time, keeps deadlines and latched faults |
| `PassTypeCorrect`, `KeysAgree`, `NothingRefused`, `StopsAtOnce`, `SteadyKeyNeeded`, `PassesSettle` (`TxPass_proofs`) | the safety properties of the pass |
| `StagedTypeCorrect`, `NothingIsLost`, `ReadsSeeTheWrite`, `CommitIsExact` (`StagedNor_proofs`) | the safety properties of staged writes |
| `AppTypeCorrect`, `AdoptsTheLatest`, `KeysUnderWholeRanges`, `TunesNothingTorn`, `BlankPlacesDiscarded` (`AppTasks_proofs`) | the safety properties of the two tasks |
| `SlotTypeCorrect`, `SlotsStoreAtomically`, `FinishedUpdateIsLoaded` (`ObjectDevice_proofs`) | `DualSlot` implements `AtomicImage`, for any number of blocks and any range of generations |
| `DeviceTypeCorrect`, `DeviceStoresAtomically`, `RepeatedPerformedOnce`, `TransactionsEnd` (`ObjectDevice_proofs`) | types, the slots under the device, repeated requests and transactions that end, for any number of keys, pages, sessions, operations and mishaps |
| `AcknowledgedKept`, `GenerationNamesOne` (`ObjectDevice_proofs`) | what was acknowledged survives and a generation names one configuration, for generations that do not come round |
| `SnapshotsAreWhole`, `SessionSnapshotsAreWhole` (`ObjectDevice_proofs`) | a snapshot handed out is the configuration of its generation: in one session whatever is lost, in any number of sessions as long as none gave an exchange up |
| `TypeCorrect`, `ScanKeepsItsClock`, `StagedArrives`, `ReceiverIsWhereItListens`, `ScanHoldsWhatItHears` (`ReceivePass_proofs`) | the safety properties of the receive pass |
| `PlaceTypeCorrect`, `LastPlaceKept`, `SlotsUsedOnce`, `SpentBeforeErase` (`PlaceLog_proofs`) | the safety properties of the place log, for any number of slots |
| `HostKeepsTheLog`, `HostLosesNoPlace` (`PlaceLog_proofs`) | the radio a host programs keeps its log as `PlaceLog` says, so the log's promise holds there too |
| `HostTypeCorrect`, `VerifiedImageRuns` (`PlaceLog_proofs`) | types of the host's write, and that an image read back whole is the one the radio holds and runs, with the exceptions of section 4, for any image there before and any number of blocks, attempts, stale packets and faults |

**The argument for `TxSystem`.** `Inv` adds to the types four facts. The
controller is `Sound`: an active phase has an accepted request and a deadline not
yet reached, a latched fault excludes activity and rest. Its time is not ahead of
the clock. Every identity issued in this start is *past* (of an earlier cycle or
phase, in an order `Rank` gives the phases) except that of a report still owed
(`IssuedArePast`); this is why a repeated report can only be a note of time. And
`ChipAgrees`: phase by phase, before and after the effect has been executed, the
chip's outputs are as the effects so far have left them. Without `ChipAgrees`
nothing relates `Transmitting` to the air, and without `IssuedArePast` a repeated
report could complete an effect that has not run, which would break `ChipAgrees`.

**The refinement** adds `KeyDown`: an accepted press is still held, since a
release ends it in the same call. Each call of `handle` is then one of a few
*beats* of phase and key (`Beats`), each of which is one step of the lifecycle; a
completion maps to `Established` or `Settle` because `ChipAgrees` puts
transmission on the air and rest off it; and among the effects only that of the
phase `PaOn` can put the radio on the air.

**The argument for `TxPass`.** `PassInv` ties the filter to what the samples have
shown (`FilterTells`), the controller's key to the filter's, and keeps the
standing checks true to the end of the pass (`Standing`), because time, policy and
request are those `handle` has just checked. `PassesSettle` uses a second
invariant, that the chain still to run fits the share left (`Settling`); it is
proved for a share of at least eight.

**The argument for `StagedNor`.** `StagedInv` says which blocks of the two
regions are what the host means, operation by operation and up to the point each
loop has reached. Its core is that a block the host did not send has, in both
regions, at least the bits that are wanted: programming either from the other
only brings it closer, and repeating it changes nothing. That is what lets a
commit be repeated, and what a block first written after a failed commit breaks
(`CommitsAcknowledged`), which is why the theorems assume there was none
(`session.steady`).

**The argument for `AppTasks`.** `AppInv` adds to the types: while a host writes,
the generation is even and nothing is authorised (`Writes`); with every
publication taken, the interface's ranges are those in force (`RangesTaken`);
while a host writes, what the interface runs or will adopt is blank, or the bus is
held for the rest of the pass (`BlankWhileWritten`); and where the scan does not
await, the interface is at most one publication behind and in a pass not even
that (`InTurn`). The third is what `Blanked` must set `quiet` for, and the last
what a yielding scan breaks (`app_latest`).

**The argument for `DualSlot`.** `UpdateOK` says that the update goes to the slot
that is not in force, with the next generation, that its marker is erased from
the first block on, and which blocks already hold the new image. So until the
marker is written a start loads the other slot, and from then on this one, whose
generation is the newer by the circular comparison; every other step leaves the
loaded image alone. `GenMod > 4` is what the comparison needs.

**The argument for `ObjectDevice`** is laid out in parts.

* `BaseInv` is inductive by itself: the types, the slots, what the requests on
  the link may be (`RequestsOK`), a candidate that fits the store, and that the
  commit the slots are being written for is still at the head of the link
  (`CommitOK`). Every step is first reduced to one of a few shapes: a request
  handled (`Handling`), a host that goes on (`Asks`) or comes to rest (`Rests`).
* `RepeatedPerformedOnce` adds `AskedOK`: the request answered last is remembered
  with its answer, held beside the service or last in it.
* `AcknowledgedKept` and `GenerationNamesOne` add `NamesOK`. An undone commit may
  leave the slots one generation ahead of the service, and its number is given
  again: so the names are ordered by how far each lies behind what a start would
  find, and nobody was told the name of a generation the service skipped. Under
  `SmallRange` (the operations of a behaviour use less than half of the ring)
  the distances cannot come round. A distance is bounded by the commits spent,
  and a commit under way, to come or repeated counts as not yet spent (`Left`).
* `TransactionsEnd` adds `Undoubted`: as long as the host gave no exchange up, an
  open transaction is the one its request belongs to, and an answer that lets it
  rest finds the transaction closed. It needs to know which request an answer
  belongs to. `Numbered` says a number names one request and both queues are in
  the order of the numbers. In a new session that fails, for the numbers start
  again at one; but the first frame of every session is the same, and what a
  session that gave nothing up leaves on the link are repetitions of its last
  request. So until its first answer a session is `Greeting`, and after it
  everything older than its own requests is gone (`Tidy`).
* The snapshots add `BackupOK`: the pages so far are the first objects of the
  configuration their generation names, and what was read is either true of the
  first listing (`Truth`) or the device has left that generation for good and the
  second listing will differ (`Doubt`).

`SnapshotsAreWhole` assumes `OneSession`, `SessionSnapshotsAreWhole` that nothing
was given up, because an answer to a request given up may stay on the link, and a
later session can take it for the answer to its own request of the same number.
The run checks the combination for two sessions. Sequence and transaction numbers
are unbounded in the model; in the code they are a `u16` and a `u32` that skip
zero (`radio-programmer`, `lib.rs:1238`, `:971`), so the theorems speak of sessions of
less than 65535 requests.

**The argument for `ReceivePass`.** `Sound` keeps the timer and the scan together
(a timer if and only if the selected controller scans, with its token), and a
staged squelch with the retune that will acknowledge it. `Aimed` says a pending
retune is the selected channel's, or dual watch's move on its way; `There` that
with nothing pending the receiver is on the selected channel or on the stop dual
watch says; `ScansAtHome` that dual watch is home while a scan runs, but for the
turn in which a key has just started one. `There` is given up between a squelch
republished and its adoption, and while `ui.late` holds: those are the
exceptions `ListensWhereItSays` names.

**The argument for `PlaceLog`.** `Ahead`: what follows the next slot, and the slot
a save has chosen, is erased, although an interrupted program leaves a slot torn,
because a torn slot is passed over by the walk. `Accounted`: no slot has been
used that no program is counted for. With them a program extends the prefix the
walk reads, so the last record found is the one just programmed or the one
before. `HostStepsTheLog` shows that every action of `HostWrite` is a step of the
log or leaves it alone, and the promise carries over.

**The argument for `HostWrite`.** `VerifiedRuns` holds because the last reading is
answered from what the radio then holds, but an answer to the first reading, of the
same request, may still be on the link. `LinkOK` therefore speaks of every such
request and answer, by the step of the session: until the session asks for the
last reading, requests of the whole image stand before every block on the link, so their
answers say only what was stored, over restarts too; at the last reading an answer
says no more than the radio holds. A commit may take stored blocks away when it
fails, but one that runs in a session finds no answer on the link. `RadioInv` is
the radio's side: an open write commits to no less than the region holds
(`stored \subseteq Committed`), so that a commit that succeeds, like a block
written, only adds to what is read (`StagesKeepsView`), and a shut write has left
nothing staged, so that a restart then takes nothing away. `ImageReaches` then is what is
left to fairness: that the radio comes to rest.

**Only model-checked:** the liveness properties (`EveryTransmissionEnds`,
`AmplifierReleased`, `LiftedKeyRearms`, `LatestReaches`, `OperationsEnd`,
`DwellEnds`, `SessionEnds`, `ImageReaches`, `PlaceReaches`), which are out of the
prover's reach; `SnapshotIsWhole` over several sessions with exchanges given up;
and the four counterexamples. Every other property of a passing run is stated by
a theorem.

## 6. Observations and limits

What was seen while modelling and has no run of its own:

* Every host write passes through a blank configuration, so `was_empty`
  (`interface.rs:918`) holds after every write and the operator is moved to the
  head of the list. `docs/k1-bring-up.md:536` describes this; the comments at
  `serial.rs:181` and `interface.rs:902` say otherwise.
* Accepting a squelch level on the handset republishes the configuration, and
  `adopt_settings` (`interface.rs:850`) then puts dual watch back to its
  programmed value; compare `DECISIONS.md:1741`.
* On the K1 a place settled under the blank may be offered after
  `OPERATOR_PLACE.reset()` when the reload runs in the keypad scan
  (`interface.rs:1615`, `serial.rs:169`). `BlankPlaceDiscarded` is therefore
  checked for the K5.
* After a power cut in a staged commit nothing reads the staging region back, and
  the next host write erases it (`py32f071_eeprom.rs:163`); `StagingHoldsAll`
  says what is there until then. A block whose program failed is neither old nor
  new, and a later commit stores it as it is; the theorems speak of writes whose
  blocks were all acknowledged (`session.acked`).
* The firmware makes its controller with instance 1 at every start
  (`interface.rs:1298`), where `docs/tx-control.md:10`, `:54` and `:83` ask for one
  never reused. Identities are therefore issued again after a restart, and what
  keeps an old report from matching a new effect is that reports are made in the
  pass that ran the effect and none outlives the restart. `TxSystem` and `TxPass`
  have the code's instance.
* `run_effects` uses one time for the whole pass although its effects block; a
  deadline is noticed in the next pass. The comment at `transmit.rs:31` says one
  pass completes either chain: the longest is nine effects (a failing entry, its
  shutdown, a failing restoration), of which the last may remain
  (`PassSettles`).
* `Restart` in `TxSystem` leaves the chip's outputs until the controller's own
  start-up disables them; the firmware's chip initialisation may do so earlier.


Receive:

* `observe` arms the hold anew at every busy reading (`banked.rs:919`), so a scan
  that resumes after a time stays as long as the signal does.
  `docs/receive-control.md:51`, `radio-domain/src/lib.rs:322` and the test at
  `banked.rs:1523` describe a hold that ends.
* After Exit on the catch screen the shell is back on the operating screen, and
  the guard for a slot with nothing to tune (`interface.rs:1428`) swallows the
  `StopCatch`; the catch goes on unseen. Compare the comment at 1470.
* A move of dual watch that the link holds back stays in `pending` when dual watch
  comes home (`interface.rs:1547`), and is made when the bus is free; compare the
  comment at 1513. `ListensWhereItSays` and `HoldsWhatItHears` keep it apart.
* A publication adopted while dual watch is away tunes the selected slot without
  sending the watch home (`interface.rs:1202`).
* A quiet probe whose `skip_quiet` cannot read a record leaves `settled` true
  (`interface.rs:1797`), so the next reading is taken as that of a settled channel.
* A pending scan tune may be overwritten while the link holds the bus, and
  adopting a squelch resets dual watch.

Object device:

* A read-back that fails after the final marker leaves the storage one generation
  ahead of the restored service. The next commit and every later one is refused
  for its generation, until the device starts again. `GenerationNames` and
  `AcknowledgedSurvives` are checked through it.
* A lost answer to the request that opens a transaction, or a lost abort, leaves
  the transaction open, and the device refuses to begin another until it starts
  again (`NoTransactionLeftBehind` has `history.lost` for this).
* The programmer's write and restore put objects and never remove one.
* The first number of a session is always 1; a session that follows an exchange
  of that number is answered from the most recent exchange.

A host's write on the K1:

* The flasher waits 1.2 s or more before it repeats a request
  (`workflow.rs:986`), and the radio reloads after 1.0 s of quiet
  (`serial.rs:35`). A message lost between two blocks of a place makes
  `commit_host_write` (`main.rs:505`) drop the gathered part; the blocks that
  follow never make a whole record, each is acknowledged, and `write_afik_place`
  reports success without reading back. The comments at `workflow.rs:958` and 995
  rule that out. `PlaceReaches` excludes it by `harm.place`. The K5 writes place
  blocks where they belong and is not affected.
* The result of `write_operator_state` is ignored (`serial.rs:160`): a place the
  interface takes for recorded may not be, until it changes again.
* A bus error in the walk at a start makes the radio begin from an older place
  (`py32f071_eeprom.rs:277`); `KeepsLastPlace` speaks of a whole walk.
* A battery pulled within a second after the verification loses the image that
  was verified: it is staged and not yet committed.
* `serial.rs:174` clears `written` before it commits and drops the result. After a
  failed commit the radio goes on reading the staged blocks over the region, so the
  verified image may well be loaded; but the region holds a part of each image, no
  commit follows unless a host writes again, and at the next start that part, or
  none of it, is what the radio finds. The comment at `serial.rs:175` allows for
  the old image or none, and the flasher has reported success.
* `load` answers a failed read of the header or of an index with an empty
  configuration (`serial.rs:256`), which is published like any other. The radio
  then has no channels until the next write or start, with the whole image in
  its memory.
* A host's read of the place on a failing bus is answered as if there were none
  (`main.rs:478`).

Not modelled, and why:

* Conversions without control: records, checksums, framing, channel plans,
  drawing, APRS frames. They are data, tested where they are written.
* Register-level peripheral drivers and board bring-up: their behaviour is the
  hardware's.
* The programmer applications and the command lines: interfaces over the sessions
  that `ObjectDevice` and `HostWrite` model.
* `receive_app.rs`, `configuration_change.rs` and `serial_control.rs`: no target
  builds them.
* The flasher's conversations with the vendors' boot loaders: their other half is
  not in the repository.
* The TX policy's functions over ranges: `TxControl` takes the set of requests they
  authorise as it is.
* In `ReceivePass`: an empty image published with a place, broadcast channels,
  squelch-calibration retunes, and the rebuilding of the other slot when a group
  is narrowed. In `HostWrite`: the step at which a commit fails, which is
  `StagedNor`'s, a memory not identified at the start, an image without channels
  (a place written with one is adopted for the VFO alone), and the K5's memory. In `ObjectDevice`:
  `push_control`, which nothing but tests calls, and the lengths of objects.
* The parts of section 7, which are next.

The models cover the code whose correctness depends on order and failure, which
is a small share of the repository's lines: most of the rest is user interfaces,
encoders, register tables and tests.

## 7. Plan

In order of what they decide:

1. **TX policy** as theorems about its functions: what `authorise` accepts is
   permitted by a programmed range and class, whatever the order of the ranges.
2. **Snapshots over sessions that gave exchanges up** (`ObjectDevice`): how far
   behind the answers of such a session can fall, and whether the queue the link
   has room for bounds it.
3. **A run for the place lost between two blocks** on the K1 (section 6), once one
   of the four counterexamples is settled in the code; and `HostWrite` over the
   K5's memory, where a place needs no gathering.
4. **Composition of `ReceivePass` and `AppTasks`**: the place recorded while a
   scan or dual watch moves the receiver.
5. **Driver operations outside transmission** (`radio-bk4819`: sleep, probe,
   frequency and tone scans) at the grain of `TxChip`.
