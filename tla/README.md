# A TLA+ model of the BMS firmware

This directory models the firmware of this repository: a dual-slot bootloader with trial
boots, the host tool that updates it over a serial line, and a battery management
application whose threads filter samples, detect faults and drive a relay state machine.
Source paths below are relative to `apps/src/` unless they start with `tools/`.

Run a check with `tlc -config X.cfg MCModule.tla`, a proof with `tlapm Module_proofs.tla`.
`PROJECT.json` names, for every definition, the source lines it stands for.

## The system

| component | state | operations | what is hard |
|---|---|---|---|
| boot metadata (`bootloader/src/bld_meta.c`) | one record in one flash page: active, confirmed and pending slot; per slot version, size, CRC32, state, attempts | set pending, confirm, mark bad, decrement attempts | the page is erased before it is programmed; callers ignore results |
| engine (`bld_engine.c`) | session state, expected sequence number, received size, target slot, cached record | CMD, HEADER and DATA frames; the boot decision | long sequences of legal frames; power cuts between any two flash operations |
| flash storage (`bld_storage_flash.c`) | the flash | erase in pages, program in doublewords | alignment; operations that stop half-way |
| UART transport (`bld_transport_uart_dma.c`) | ring of received bytes with two 32-bit counters | DMA events in an interrupt, the parser in the main loop | interrupt and parser share the ring |
| confirmation (`application/bootloader_confirm`) | none of its own | the application accepts the pending image at start | which image is accepted |
| host tool (`tools/bld_host/bld_host.c`) | progress of an upload | write, abort, query, meta | replies carry nothing that names the request |
| acquisition thread | queue of sensor samples, latest raw inputs | three timers, callbacks, publish | drop-oldest queue, one notification for many samples |
| processing thread | queue of raw inputs, filters, latched faults, current stress | process a sample, charger change | two threads call the same state machine |
| BMS state machine (`domain/bms_fsm.cpp`) | state, charger flag, four nominal flags | twelve events, `UpdateFaultStatus` | events are dispatched one by one, each may switch relays |
| button debounce (`application/main.cpp`) | a 30 ms timer | edge interrupt, timer callback | last edge against settled level |

How they interact. The bootloader is one loop: `main` initialises, asks the engine for a boot
decision unless the button is pressed, then polls for frames. The engine calls storage and
metadata functions, which block until the flash operation ends. A jump hands the processor to
the application in a slot; the application confirms the pending image (a call into the same
metadata code), then starts its threads. The two programs share only the metadata page and the
slots. In the application, the timer task of FreeRTOS runs the callbacks of the three sampling
timers and of the debounce timer, which the work-queue thread starts after an edge; samples pass through the acquisition thread's queue to the processing
thread's queue; the processing thread evaluates faults and calls the state machine under its
mutex, and the debounce callback calls the state machine under the same mutex.

What makes each part correct:
- **metadata**: the slot fields and slot states of a stored record agree after every sequence
  of operations, cuts and failures;
- **engine and boot decision**: only the recorded image runs; trial boots are bounded; an
  accepted image is never lost or overwritten; what fails to confirm itself is given up;
- **flash**: programming always meets erased cells; nothing is erased outside the upload slot;
- **UART**: frames arrive whole and in order, nothing lost or misread blocks the ring;
- **host tool**: a reported success is true, the image linked for a slot ends in that slot, a
  broken session can always be ended;
- **processing**: limits trip and clear when they should, glitches are rejected;
- **threads**: no sample waits behind a sleeping thread, only the oldest of a full queue is lost,
  the charger flag ends at the level of the button;
- **state machine**: after each call the relays protect against every known fault, and
  Secure is left once everything is and stays calm.

## Modules

| module | what it models |
|---|---|
| `BldMeta` | the record and the pure edits of `bld_meta.c` (`SetPending`, `Confirm`, `MarkBad`, `Decrement`), the conditions under which each refuses, and what the engine reads from it |
| `BldDevice` | one board: engine, boot decision, flash cells, metadata page, application start, resets, power cuts, failing operations, decaying cells |
| `ABUpdate` | the abstract promise: one accepted image, one on trial with a budget of starts |
| `BldRefinement` | the mapping under which `BldDevice` implements `ABUpdate` |
| `FlashStorage` | the flash backend: ranges, banks, pages, doublewords, unlock and lock, failing orders |
| `RegionStore` | the abstract promise of `bld_storage.h`: separate regions addressed from 0; `FlashStorage` implements it |
| `UartDma` | ring, receive interrupt and frame parser |
| `FrameStream` | the abstract receiver: a queue of bytes from whose front frames are taken; `UartDma` implements it |
| `HostUpdate` | the host tool, a FIFO serial line in both directions, what a broken frame does in the board's receiver, and `BldDevice` at its end |
| `BmsFsm` | the state machine as operators on its context, one per handler |
| `Processing` | filters, fault detectors, current stress, and the two threads that call the state machine |
| `BmsThreads` | timer task, acquisition and processing thread, button interrupt, work queue and debounce timer around `Processing` |
| `SampleFeed` | the abstract feed: samples in order, one lost only when a full queue of newer ones waits; `BmsThreads` implements it, and its steps on the core are steps of `Processing` |
| `MCBldDevice`, `MCFlashStorage`, `MCUartDma`, `MCHostUpdate`, `MCProcessing`, `MCBmsThreads` | small instances for TLC |
| `BldDevice_proofs`, `BldSlots_proofs`, `BldRefinement_proofs` | the proofs about the bootloader: edits of the record, types, agreement and trials; contents of the slots; the promise of `ABUpdate` |
| `HostUpdate_proofs` | the proof that the board keeps all of this while the host tool updates it |
| `FlashStorage_proofs`, `UartDma_proofs`, `Processing_proofs`, `BmsThreads_proofs` | the proofs about flash storage, UART receiver, processing and threads |

A few operators are marked "mutated form". They are plausible mistakes (a page not counted, a
flag not cleared); no specification uses them, and each shows that some property fails if the
code made that mistake.

### Bootloader: state and actions

`pc` is the place of the processor. Between two flash operations the code is atomic (a single
loop, nothing preempts it that shares its state), so each handler is one action up to its
flash operation, and the operation with everything the code does after it is another:
`Header` then `SlotErase`; `Data` then `SlotWrite`; `CmdEnd` then `MetaErase`, `MetaWrite`;
`DecidePending`, `DecideConfirmed` with the metadata writes they ask for. `job` remembers the
call a metadata write belongs to, and `AfterMetaWrite` continues there, with the result
that the code looks at or ignores. `meta` is the metadata page: a record, or `Unreadable` when
magic, ids, states or CRC do not check. `flash` has the cells of both slots; a cell holds a
byte, is erased, or is torn by an interrupted operation. `ctrl` is the engine's cached record,
which the boot decision goes on using after the page has changed. `sent` is what was sent
since the last frame. Two history variables serve the properties only: `trials` (boots of the
image on trial) and `committed` (the last record written completely).

`Faults` chooses what may happen: `power_loss` (a cut inside a flash operation leaves any
prefix of it done and the next page or doubleword torn), `erase_fail` and `program_fail` (the
operation returns an error after any part of its work), `bit_rot` (a cell of a slot decays
while the board is off). Resets between flash operations are always possible, and
so is every frame in every state.

Abstractions: CRC32 is a parameter, any function of the content; reading flash does not fail;
frame bytes, the payload of STATUS, padding of a last doubleword and reserved fields are left
out; a failed program of the record leaves it unreadable (it covers a prefix of the
record; its CRC is last). A failed program of a chunk may have torn a doubleword or done
nothing (the unlock failed). The engine checks a session's CRC at END, so `Broken` images are
those with a correct CRC that crash before they confirm.

### Flash storage: state and actions

`call` is the call that a client (engine or metadata) made: any operation, region, offset and
length. `Refuse` is the path of the argument checks; `Unlock` works out the orders (`todo`),
`Operate` gives the next one to the flash, `OrderFails` is any error path (the early returns behind
the unlock, which all lock and return), `Finish` the good one. The configuration always has two
banks (`main.cpp` sets the size of both), so the fallback of `bank_of` for a single one is left out. `memory` is indexed by address; cells outside the regions hold `Foreign`.
The flash itself is external: an erase that fails has erased some pages and torn the next, a
doubleword is programmed once between erases, and a misaligned one is refused (the code does
that one step earlier, with the same effect). A read is one step. The unlock may fail; a
failing lock is ignored by the code and not modelled. In `RegionStore` a call changes only the
units it names, to what it asks for or to rubbish, and success means that everything was done.
This is what lets `BldDevice` number the cells of each slot from zero.

### UART: state and actions

`Receive` is the DMA storing a byte, `OnRxEvent` the interrupt (chunk full, or line idle), `OnError`
the error callback. `pc` is the place of `uart_dma_parse_frame` in its loop, one action per access
to the ring that the interrupt can separate from the next; `Continue` lets the time-out end
the call after any iteration. The interrupt only moves `w` and the parser only `r`, each by
reading and writing 32-bit words; the interrupt itself is not interrupted by the parser, so it is
one step. The driver may refuse to start reception (`StartFails`): all three callers ignore that
(`bld_transport_uart_dma.c:110`, `:132`, `:146`), so `Started` leaves the receiver deaf then, and
nothing but a reset mends it, since no callback comes any more. A message stands for a frame: begin, length, payload, end. Type and CRC are left to the
engine, and a length is one number. `lost` is history: a byte was lost, or the driver refused. The abstract `FrameStream` allows a byte
to be dropped only if no frame begins at it, so the resynchronisation may not skip a frame.

`HostUpdate` uses a line of frames. For frames that arrive whole, `InOrder` and `AllDelivered` justify
it: the tool waits for an answer before it sends again, a single frame always fits into the ring,
and reception starts. For broken ones it takes over what the parser does: a frame that lost bytes,
or whose length field is too large for it, stays at the front of the ring, over any number of
time-outs, until the bytes of later frames fill it (`Truncated`, `gap`, `LetGo`); `Lost` is only a
frame that does not arrive at all or is dropped at once, because its begin is gone or its length is
more than the parser takes.

### Host tool: state and actions

`host.step` is the reply that `do_write`, `do_abort`, `do_query` or `do_meta` waits for. Each `OnMeta`, `OnOk`,
`OnWrong` is the receipt of one frame and the sending of the next; `Timeout` is the tool
giving up, `ShortRead` the end of a session because only one or two of the three bytes behind the begin
of a reply were there when the tool read them (`bld_host.c:583`, `:699`); that needs no trouble on the line.
`down` and `up` are the frames on their way, `down` also those in the board's receiver. `gap` is how
many of them it takes to fill a broken frame in front of them: while it is not 0 the engine sees
none (`Poll` waits), then `LetGo` either drops the broken frame and finds the others, or refuses it
together with those that filled it. A reset empties the receiver. The user starts the tool for any build,
for an abort or for a look at status or metadata, whenever it is idle, and resets the board between sessions at will.

What may go wrong inside a session is counted by weight: a lost, a garbled or a truncated frame or a
timeout that expires before a slow answer weighs one; a reply that arrives after the port was
opened and flushed, or a reset in mid-session (the board sends a frame nobody asked for when
it starts the application), weighs two. `MaxTroubles = 2` thus allows any two of the first kind
or one of the second. The bound cannot be raised to three: an early timeout
followed by a late reply makes the tool report success one answer early (see "What the checks
found"). Four troubles of the first kind alone break nothing (tried with larger bounds,
too slow to keep with the liveness properties).
`MaxLine = 2` bounds how many frames may wait when a session or the board starts, and how many a
broken frame holds up; it never blocks a frame of a session. In the code a broken DATA frame may take dozens of short
commands to fill. Two already tell the cases apart: the next command completes it, or a
time-out comes first and the one after does.

### Application: state and actions

A sample is two steps, as in the code: the filter (`FilterValid`, `FilterInvalid`), outside
the lock, and `Evaluate`, which runs `EvaluateFaults` under the lock and ends in the state
machine's `UpdateFaultStatus`. `SetChargerConnected` may come between them. `BmsFsm` gives each
handler as an operator from context to context, and its `path` lists the states that one call
goes through, because each of them switches relays. Filters keep the window of the last
samples, oldest first; the median takes a sorted copy, so the position in the ring is
immaterial. Any reading of any channel may be the next one. `hot` and `cool` are history:
for how long the current has been high at each level, or calm. Integers are unbounded:
stress and recovery times are capped by the code itself far below their width (`TypeOK` says so),
and currents are within the range of the sensor.

`BmsThreads` puts the threads around this core. Every section under a lock is an action, and so is
the release of each notification after it: `OnTimer` then `ReleaseSensorBell` in the timer task;
`AcqAcquire`, `AcqTake` (pop and apply), `AcqPublish`, `AcqRing`, `AcqSleep`; `ProcAcquire`,
`ProcTake` (pop and filter), `ProcEvaluate`, `ProcSleep`. Sections of `raw_inputs_` that only one
thread enters are merged. A message is the set of its new readings: the others are carried along
by the code and never looked at. The timer task is one thread, so a sampling callback and the
debounce callback exclude each other; `DebounceFires` reads the level, `DebouncedButtonPressed`
takes the lock and reports it. `ButtonInterrupt` pushes work, or crashes when the work queue is
full; `ButtonEdgeDetected` restarts the timer, which may fire at any time after that. Thread
priorities are not modelled: every interleaving that they allow is included.

## What is checked

| run | instance | shows |
|---|---|---|
| `device_clean` | no faults, odd headers and chunks, 2-cell page and doubleword | `BootErrOnlyWithoutImage`: a boot fails only when there is nothing to boot; `RoomErased`: data is programmed into erased cells; `AcceptanceKept`: once there is an accepted image there always is one |
| `device_faults` | all four faults | `TypeOK`, `RecordAgrees`, `TrialsBounded`, `RoomErased`, `RunsRecordedImage`, `UploadSparesConfirmed` |
| `device_power` | power cuts, failing programs, fairness | `ConfirmedIntact`: the fallback is intact bit for bit; `ConfirmedProved`: only an image that reached its confirm call is confirmed; `ImplementsABUpdate`: refinement; `RollbackHappens`: a broken image does not stay on trial while the board is restarted again and again |
| `flash_storage` | two regions, two layouts, failing orders | `LockedBetweenCalls`: no path leaves the flash writable; `ForeignKept`: bootloader and unused pages are never touched; `ImplementsRegionStore`: refinement |
| `uart_dma` | ring of 6, chunks up to 3, three messages, lost bytes, refused starts, fairness | `InOrder`: without loss what the engine gets is a prefix of what was sent; `ImplementsFrameStream`: refinement; `AllDelivered`: without loss and refused starts everything arrives; `Drains`: a ring that holds a longest frame is always consumed from |
| `host_update` | two builds, troubles of weight 2, fairness | `SuccessIsTrue`: a reported success is true; `RightSlot`: no image is recorded for the other slot; `WriteSucceeds`: a write to an idle board with an empty receiver that nothing disturbs ends well, or in a short read; `AbortHelps`: a user who aborts again and again gets the board back to idle; `BoardIsDevice`: refinement, the board makes only steps of `BldDevice` |
| `proc_filter` | window 3, seven voltages | `OneLimitAtATime`, `SpikesRejected` |
| `proc_faults` | three channels, five currents, charger, invalid samples, fairness | `TypeOK`, `RelaysSafe`, `TripsInTime`, `ClearsAfterDelay`, `Released` |
| `threads` | queues of 2, three environments, bouncing button, fairness | `OneNewChannel`: a message marks one channel; `NoLostWakeup`: no sample waits behind a sleeping thread; `ImplementsSampleFeed`, `ImplementsProcessing`: refinements; `Reacts`: a voltage that stays too high ends in Secure; `ChargerFollows`: a settled button reaches the state machine |
| `v_confirm`, `v_skip`, `v_glitch` | | what the code does against what it says, below |

Bounds. Two cells per slot, page and doubleword of one or two cells: enough for an image that
ends inside a page, one that fills the slot, one erase or program that stops at each boundary,
and a chunk that crosses a boundary. Two byte values with an injective CRC make every two
contents distinguishable, and one content has CRC 0, which the code refuses. Good images differ
in length and one is broken; odd headers cover version 0, CRC 0, size 0 and too large.
Two boot attempts instead of three already separate first, middle and last. In `proc_*` the
samples lie on and on both sides of the thresholds in question, and times are a few sample
periods. A window of three is the smallest that can outvote a spike. `proc_filter` looks at one
channel because filters share nothing; `proc_faults` has all three meet in the state machine,
with window 1 so that a channel can change at once, and currents below, between, at and above
the levels.
`flash_storage` has pages of four bytes, doublewords of two and banks of three pages; region A
ends where bank 2 begins (as in `bld_config.h`) or lies across the boundary, and lengths go up to
the last one that does not fit into the address space, so that a sum wraps.
`uart_dma` sends three messages of three or five bytes: more than the ring holds and than the
counters count, with a payload that contains both delimiters and, read as a length, a value
that is too large.
`threads` checks three environments in one run: two channels that fill both queues, a sensor that
answers below zero, and a button that moves three times while the voltage is too high, with room
for one entry in the work queue (so that it also overflows). A queue of two tells the oldest
entry from the newest.
`host_update` has one build of one DATA frame and one of two, whose images for A and B differ,
and the longer one crashes in slot B; one side effect is that a rollback happens between uploads.
It has no failing flash operation and no power cut inside one, only resets and power cuts between two: with
them the run would be too long to keep its liveness properties. The theorems cover power cuts
(`SuccessIsReal`, `SessionsAreSafe`), and the safety properties were seen to hold with them under all
troubles of weight 2.

Fairness. `WF(DeviceStep)`: the processor executes. `RollbackHappens` further assumes, in its
premise, that restarts and completed boots recur and uploads end. `Processing.FairSpec`:
`Evaluate` is weakly fair (the thread goes on) and each channel's samples are strongly fair
(its timer re-arms itself before it asks the sensor, `acquisition_thread.cpp:30`; strong
because the processing thread takes the samples of three channels in turn, which disables and
enables each). `FairThreads`: each thread, the interrupt and the work queue are weakly fair: nothing
runs for ever in this application, periods are long compared with the work; the voltage timer and the
debounce timer are strongly fair, because other callbacks keep the timer task busy in between.
The other channels need not be fair. `UartDma`: the line delivers, the interrupt comes and
the main loop calls the parser again and again. `HostFairSpec`: weak fairness of board, tool and line together, and
no trouble is ever fair. Users and resets are not fair; `AbortHelps` has in its premise that aborts recur.
The driver's refusal is not fair either: `AllDelivered` excludes it in its premise (`lost`), as it does lost bytes.

Deadlock is checked in every run: something can always happen (a reset, a frame, a sample, a
new session).

## What is proved

The proofs hold for every value of the constants that satisfies the assumptions named in the
modules (`SizeAssumption` and the others of `BldMeta` and `BldDevice`, `BuildAssumption`, `FlashAssumption`,
`UartAssumption`, `ThreadsAssumption`, those of `Processing`): all slot, page, doubleword and chunk sizes, CRC functions, headers, payloads, sets of
broken images, attempt limits and sets of faults; all flash layouts, address widths and calls; all sizes of ring, chunk and frame and all messages; all limits,
times, samples and windows; all queue capacities, sensors and button movements. A theorem that
needs more says so as its hypothesis (`SoundFlash`, `NothingFails`, `Steady` and `FlashWorks`,
`ExactTimes`), explained below.

**Bootloader** (`BldDevice_proofs`, `BldSlots_proofs`, `BldRefinement_proofs`).

- `TypeCorrect` (`[]TypeOK`). `TypeOK` is not inductive: an
  operation in progress relies on who started it. `JobInv` adds that a session state has a
  target slot, that an erase belongs to a HEADER and a program to a chunk that fits, and so
  on. One lemma per group of actions. It includes that the received size stays in the slot.
- `RecordsAgree` (`[]RecordAgrees`). The record in flight must agree too, and an upload
  must not work on the confirmed slot, else its END would overwrite the state of the
  confirmed image; `AgreeInv` says both. Rests on lemmas on what each
  edit preserves, and on `TargetNotConfirmed`, which uses the agreement to show
  that the target is not the confirmed slot.
- `UploadsSpareConfirmed` (`UploadSparesConfirmed`), from the same invariant and the
  lemmas that erase and program operations, finished or cut, change one slot only.
- `TrialsAreBounded` (`[]TrialsBounded`): boots counted so far and attempts left,
  in the stored record or the one in flight, never add up to more than the limit.
- `RoomIsErased` (`[]RoomErased`), for all faults: an upload in progress means that the board
  polls or writes, and the cells from the received size on are erased (`RoomInv`); an erase
  rounded up to pages covers the whole image.
- `RunsOnlyRecorded` (`[]RunsRecordedImage`), for all faults: what the boot decision verified stays
  true until the jump, over the metadata write that spends an attempt (`BootInv`).
- `ConfirmedStaysIntact`, `ConfirmedIsProved` (`[]ConfirmedIntact`, `[]ConfirmedProved`), under the hypothesis
  `SoundFlash`: no erase fails and no cell decays. Both faults break them: a decayed cell at once, a
  failing erase as `v_confirm` shows. `KeepInv` says that stored record and record in
  flight name a confirmed image that is intact and not broken, and that an application runs with
  no other image pending, so that the confirm call accepts the one that runs.
- `BootErrMeansNoImage`, `AcceptedIsKept` (`[]BootErrOnlyWithoutImage`, `AcceptanceKept`), under the
  hypothesis `NothingFails`: a power cut between erasing and programming the only metadata page loses
  the record, whatever the rest of the code does. `AcceptInv` says what was last stored
  completely, and that nothing sent since the last frame was a BOOT_ERR unless a decision had nothing to boot.
- `DeviceKeepsPromise` (`ImplementsABUpdate`), under `SoundFlash`: the step simulation, with
  one lemma per group of actions. `RefInv` relates the record in flight to the
  stored one by the call it comes from: spends one attempt of the same image, rejects it, installs
  the uploaded one, or confirms the running one; those are the four steps of `ABUpdate`.

**Host tool** (`HostUpdate_proofs`).

- `HostDrivesDevice` (`BoardIsDevice`): every step of tool, line, user and board is a step of `BldDevice` or
  leaves the board alone. Frames wait on the line, so `ToolInv` says that whatever waits is a frame the board
  may get, and that the tool knows a build once it has asked for the record and a slot once it has seen it.
  `BuildAssumption` has that the headers and chunks of the builds are among those that `BldDevice` admits;
  the code cuts a build the same way (`bld_host.c:1026`).
- `SessionsAreSafe`, `SessionsKeepPromise` compose it with the theorems of the board: `RecordAgrees`, `TrialsBounded`,
  `RoomErased`, `RunsRecordedImage` and `UploadSparesConfirmed` hold in every session, under every trouble of
  the line, and `ConfirmedIntact`, `ConfirmedProved` and `ImplementsABUpdate` under `SoundFlash`.
- `SuccessIsReal`, `ImagesInTheirSlots` (`[]SuccessIsTrue`, `[]RightSlot`): however many frames are lost whole or damaged in
  either direction, however many replies come in two pieces, whatever builds, images and sizes of chunks, with any number of aborted and repeated
  sessions and power cuts between them. Neither is inductive: a status frame does not say what it answers,
  so that an OK is true has to follow from what was asked. `SessionInv` says it step by step of the
  tool: at most one frame is outstanding (a request, the answer to it, or the board at work on it); the first n
  cells of the image are in the tool's slot and the board's session counts n; the chunk on its way is the
  one that follows; after END the record names the image with attempts left, and a status OK after BOOT
  is sent only when the boot decision has spent one of them and starts it (`Installed`). Lemmas follow
  the board (`IdleBoard` to `BootBoard`, one per step of the tool), the tool on each answer (`OnMetaKeeps`, `OnOkKeeps`), and
  the ends of a session (`EndsKeep`). `RecordInv`, part of it, has that each recorded image was linked for its slot.
  Hypotheses: `Steady`, of the troubles only loss of whole frames and damage occur (then `gap` stays 0), and
  `FlashWorks`, erases and program operations succeed. Both are needed: TLC breaks `SuccessIsTrue` with two late
  replies or two resets in mid-session (see below), frames held up in the receiver over many sessions and then answered at once would be as
  many stale answers, and both properties with a failing erase or program
  operation, since then the record may be lost, or the boot decision falls back to the old image and answers BOOT with OK as well.

**Flash storage** (`FlashStorage_proofs`).

- `FlashIsLocked` (`[]LockedBetweenCalls`), `OthersAreSpared` (`[]ForeignKept`) and `BackendIsAStore`
  (`ImplementsRegionStore`). The arithmetic comes first: an accepted range does not wrap
  (`CallRange`), rounded up to pages it ends in its region because regions are whole pages
  (`EraseRange`), the orders of an erase are exactly those pages on either side of the bank
  boundary (`EraseOrdersCover`), those of a write exactly its doublewords with the data at their
  place (`ProgramOrdersCover`). The invariant `CallInv` says that the first n orders of the call are done and
  have had their effect, the others wait, and a doubleword that was not
  programmed is erased, so padding with erased bytes changes nothing. Each order, finished or
  failed, changes only what the call may change (`Allowed`), from which both `ForeignKept` and
  the steps of `RegionStore` follow. `FlashAssumption` has what `bld_config.h` provides: sizes that divide each other,
  regions of whole pages that do not overlap and lie in the two banks, and addresses that fit.

**UART** (`UartDma_proofs`).

- `ReceiverIsAFrameStream` (`ImplementsFrameStream`), whatever is lost on the line. The arithmetic comes first: the ring
  does not notice that a counter wraps because its size divides the counter's range (`RingWraps`),
  positions less than a ring apart differ (`RingDistinct`), what the interrupt copies stands behind the waiting bytes and
  overwrites none of them (`PushAppends`), and dropping a byte takes the first (`DropTakes`). `ReceiverInv` says
  what the parser has seen of the frame at the front; more bytes do not change it (`SeenExtends`), so the
  interrupt may come between any two of its steps.
- `FramesComeInOrder` (`[]InOrder`): as long as nothing is lost and the driver starts reception, the bytes in ring, chunk and line are the messages not yet
  delivered, one after the other (`InSequence`; the places where one ends are a function that exists, not a recursive
  definition). Hence a frame begins at the front and the parser skips nothing (`FrontIsMessage`,
  `SkipsNothing`). `UartAssumption` has that the host sends frames for which the bootloader has room.

**Application** (`Processing_proofs`, `BmsThreads_proofs`).

- `RelaysAreSafe` (`[]RelaysSafe`): whatever order samples and
  charger changes come in, after every call the state machine is settled for the faults
  known. The lemmas follow `UpdateFaultStatus` event by event.
- `ProcessingTypes` (`[]TypeOK`), `RecoveryWaits` (`ClearsAfterDelay`): `DataInv` adds which sample may be
  between its filter and its evaluation, and that the recovery time counted by the code never exceeds the
  time the current has really been low.
- `TripsWithoutDelay` (`[]TripsInTime`): `StressInv` bounds the stress from below by the share
  of its time that each level has used; a higher level adds at least as much. Its hypothesis
  `ExactTimes` is that the share of one sample is not rounded and that times shrink with the level; integer division would
  otherwise lose time with every sample. The values of `bms_parameters.hpp` satisfy it (`MCProcessing` assumes it of its own, which TLC evaluates).
- `LimitsAreExclusive` (`[]OneLimitAtATime`).
- `SpikesAreRejected` (`SpikesRejected`), for every window: the median is defined by its rank (fewer than
  or exactly as many samples are smaller than ...), not by a sorting algorithm, and lemmas on cardinalities count
  the samples on its far side. `RanksSort` in `MCProcessing` has TLC compare it with
  the element in the middle of the sorted window.
- `MessagesMarkOne`, `WakeupsAreKept` (`[]OneNewChannel`, `[]NoLostWakeup`): `QueueInv` says what each queue,
  each thread and the publication in progress may hold.
- `ThreadsDriveProcessing` (`ImplementsProcessing`): each step of the threads is a step of `Processing` or none,
  because a reading that reaches the core is one that `Processing` allows. So the safety theorems of
  `Processing` hold of the threads.
- `QueuesFeedInOrder` (`ImplementsSampleFeed`): each step of the threads is one of the feed.

What is only model-checked. `RollbackHappens`, `AllDelivered`, `Drains`, `WriteSucceeds`, `AbortHelps`,
`Released`, `Reacts`, `ChargerFollows`: liveness under fairness is outside this prover's reach, and so are
`HostFairSpec` and its like. `SuccessIsTrue` and `RightSlot` when frames are truncated, timeouts expire early, replies come
late or the board is reset in mid-session: late replies and resets break them once their weight reaches four, so a
proof would have to count stale answers against troubles spent, and that part stays with TLC (`host_update`). Early
timeouts alone broke neither in TLC up to a weight of six; that is not proved.
That the median of `Processing` is the middle of the sorted window (`RanksSort`) is TLC's too: sorting is recursive.

## What the checks found

Three runs end in a counterexample on purpose; each is a statement of the repository that the
code does not keep.

- `v_confirm` (`bld_meta.c:255`): the confirm call accepts whatever slot the record calls pending.
  If marking a bad pending image fails (`bld_engine.c:561` ignores it), the old application is
  booted and confirms the image that was just rejected. That is why `ConfirmedProved` is checked
  without failing erases.
- `v_skip` (`bld_host.c:989`): an upload that breaks off after HEADER leaves the record of the
  erased slot as it was, and the tool skips the next write as "already contains this image".
- `v_glitch` (`bms_fsm.cpp:238`): one sample that clears the last fault and raises another
  passes through IdleDischarge or Charge: a relay closes for an instant.

Seen on the way, without a run of their own, because the property that shows it is checked where it holds:

- A power cut between erasing and programming the only metadata page (`bld_meta.c:136`) loses the record, and an
  intact accepted image is not booted, although `bld_engine.h:78` says that a decision fails only 'if no bootable
  image is available'. A program of the record that fails does the same, also in the middle of a boot decision
  (`bld_engine.c:583`). `BootErrOnlyWithoutImage` and `AcceptanceKept` are therefore checked and proved
  without faults; with `Faults = {"power_loss"}` TLC breaks the first.
- A corrupt confirmed slot is demoted and the other, intact one becomes the confirmed one, but the same
  decision answers BOOT_ERR (`bld_engine.c:607`); the next reset boots it. With `Faults = {"bit_rot"}` TLC breaks
  `BootErrOnlyWithoutImage` that way.
- Nobody looks at the result of starting reception (`bld_transport_uart_dma.c:110`, `:132`, `:146`); one refusal and the bootloader
  hears nothing until it is reset, although `bld_transport_uart_dma.h:62` says that an error 'restarts
  reception'. `AllDelivered` excludes a refusal in its premise; `InOrder` and `Drains` hold all the same.
- An ABORT sent after a frame that lost bytes is held up behind it or taken as its end
  (`bld_transport_uart_dma.c:245`), and the session goes on, although `bld_protocol.h:53` says 'cancel current
  transfer'. `AbortHelps` therefore has a user who aborts again.
- A status frame says nothing of the command it answers:
  with two resets in mid-session, two late replies, or an early timeout and a late reply, the tool can count a stale OK as the answer
  to the next request, report success one answer early, and with a stale META send the image
  linked for slot A into slot B.

Smaller ones: a reply of the board that comes in two pieces ends the tool on a healthy line
(`bld_host.c:583` reads three bytes at once, and reports 'timeout waiting STATUS' at `:812`);
`WriteSucceeds` allows for it. When the queues of the application fill
up again and again, dropping the oldest entry may always hit the samples of one channel,
although another channel is served; `Reacts` excludes that in its premise. A charger that is
plugged in when the board starts gives no edge and is not reported (`main.cpp:123`); and a
button that bounces faster than the work queue is served crashes the application. An empty pack in Secure stays there when the charger is plugged in, since Secure
handles no charger event (`bms_fsm.cpp:186`, against README.md:126-127). A failed BOOT answers
twice (`bld_engine.c:339` and `:611`).

## Not modelled

Simulated sensors: their wave forms stand in for hardware, and any reading may occur in
`Processing`. The EMA filter: no thread uses it. CRC32's bit loop: a parameter; it is pure
arithmetic without state. Frame layout, byte order and checksums of frames: a frame is intact,
garbled or too short. What `query` and `meta` print. Sending over the UART: a blocking call that keeps
nothing. Time stamps of samples: nobody reads them. Thread priorities and stack sizes. Clock
and pin set-up, interrupt vectors, the assembly of the jump, linker scripts, flashing script: no
control state of their own.

The composition of `UartDma` with the engine in place of the line of `HostUpdate` is out of
TLC's reach (`uart_dma` alone has more than a million states for three short messages);
its place is taken by the argument under "UART" above.

## Plan

All modules of the plan are written: `BldMeta`, `BldDevice`, `ABUpdate`, `BldRefinement`,
`FlashStorage` with `RegionStore`, `UartDma` with `FrameStream`, `HostUpdate`, `BmsFsm`,
`Processing`, `BmsThreads` with `SampleFeed`; every refinement that a run checks is proved, and
every invariant of a passing run is stated by a theorem, with the hypotheses named above. What is
left: `SuccessIsTrue` and `RightSlot` for a bounded weight of truncated frames, late replies, early timeouts and resets, and
the composition of `UartDma` with the line of `HostUpdate`.
