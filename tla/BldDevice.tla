----------------------------- MODULE BldDevice -----------------------------
(***************************************************************************)
(* One board with the dual-slot bootloader: the engine of bld_engine.c and *)
(* main.cpp, the flash they write through bld_storage_flash.c, the start   *)
(* of the application (bld_confirm.c) and power that may fail.             *)
(*                                                                         *)
(* Every erase and every program operation of the flash is a step of its   *)
(* own, so that a power cut or a failing operation can fall between any    *)
(* two of them; what the code does between two flash operations is atomic  *)
(* (the bootloader is a single loop).  The host is unconstrained: any      *)
(* frame may arrive whenever the engine polls.                             *)
(***************************************************************************)
EXTENDS BldMeta, Sequences

CONSTANTS
  SlotSize,     \* size of an application slot, in cells
  PageSize,     \* cells of an erase page
  DwSize,       \* cells of a flash doubleword, the unit of programming
  Bytes,        \* what an image cell can hold
  Erased, Torn, \* content of an erased cell; of an interrupted page or doubleword
  Crc32(_),     \* CRC32 of a sequence of cells
  Headers,      \* the HEADER frames the host may send: version, size, crc
  Payloads,     \* the chunks a DATA frame may carry
  Broken,       \* image contents that crash before they confirm themselves
  Faults,       \* the failures that may happen, see FaultKinds
  NoJob         \* no flash operation is in progress

FaultKinds == {"power_loss", "erase_fail", "program_fail", "bit_rot"}

Cell == Bytes \cup {Erased, Torn}
Contents == UNION {[1..n -> Cell] : n \in 0..SlotSize}

ASSUME SizeAssumption ==
  /\ SlotSize \in Nat \ {0} /\ PageSize \in Nat \ {0} /\ DwSize \in Nat \ {0}
  /\ SlotSize % PageSize = 0
  /\ PageSize % DwSize = 0

ASSUME ImageAssumption ==
  /\ \A c \in Contents : Crc32(c) \in Crcs
  /\ Headers \subseteq [version : Nat, size : Nat, crc : Crcs]
  /\ Payloads \subseteq Seq(Bytes)

ASSUME FaultAssumption == Faults \subseteq FaultKinds

VARIABLES
  meta,     \* flash: the metadata page
  flash,    \* flash: the cells of the two slots
  pc,       \* where the processor is, see Places
  job,      \* the flash operation in progress and what it works on
  state,    \* engine->state
  target,   \* engine->target_slot
  session,  \* engine->session
  ctrl,     \* engine->boot_ctrl, the cached metadata
  caller,   \* who called bld_engine_boot_decide_and_jump: main or a BOOT command
  running,  \* the slot the application runs from
  sent,     \* the frames sent since the last frame arrived
  trials,   \* history: boots of the pending image since it was installed, up to
            \* MaxAttempts + 1
  committed \* history: the last record written completely

ram == <<state, target, session, ctrl, caller>>
history == <<trials, committed>>
vars == <<meta, flash, pc, job, ram, running, sent, history>>

Places ==
  {"off", "decide", "confirmed", "poll",   \* bootloader
   "slotErase", "slotWrite",               \* inside an operation on a slot
   "metaErase", "metaWrite",               \* inside bld_meta_record_write
   "app", "appMain"}                       \* application before and after confirming

InFlashOp == pc \in {"slotErase", "slotWrite", "metaErase", "metaWrite"}
InApp == pc \in {"app", "appMain"}

EngineStates == {"IDLE", "WAIT_HEADER", "RECV_DATA", "WAIT_END", "ERROR"}

NoSession == [seq |-> 0, received |-> 0, size |-> 0, crc |-> ZeroCrc, version |-> 0]

-----------------------------------------------------------------------------
(* Images in flash *)

Content(f, s, n) == [i \in 1..n |-> f[s][i]]

\* bld_engine_verify_slot_image
NoCrcCheck(f, s, n, crc) == n # 0 /\ crc # ZeroCrc   \* mutated form
ImageOk(f, s, n, crc) ==
  /\ n # 0 /\ crc # ZeroCrc
  /\ n <= SlotSize
  /\ Crc32(Content(f, s, n)) = crc

SlotOk(f, m, s) == ImageOk(f, s, m.slots[s].size, m.slots[s].crc)

AlignDown(n, a) == (n \div a) * a    \* mutated form of AlignUp
AlignUp(n, a) == ((n + a - 1) \div a) * a

\* Mutated form of ErasedUpTo: the last page is not counted.
ErasedButLast(f, s, n) ==
  [f EXCEPT ![s] = [i \in 1..SlotSize |->
                      IF i <= AlignUp(n, PageSize) - PageSize THEN Erased ELSE f[s][i]]]

\* Cells 1 .. n of slot s erased, in whole pages.
ErasedUpTo(f, s, n) ==
  [f EXCEPT ![s] = [i \in 1..SlotSize |-> IF i <= AlignUp(n, PageSize) THEN Erased ELSE f[s][i]]]

\* An erase of 1 .. n that stopped inside the page that starts after cell p.
EraseCutAt(f, s, p) ==
  [f EXCEPT ![s] = [i \in 1..SlotSize |-> IF i <= p THEN Erased
                                          ELSE IF i <= p + PageSize THEN Torn
                                          ELSE f[s][i]]]

CutErases(f, s, n) ==
  {EraseCutAt(f, s, k * PageSize) : k \in {j \in 0..SlotSize : j * PageSize < AlignUp(n, PageSize)}}

\* The chunk d programmed after cell off; k of its cells, when it stops early.
Written(f, s, off, d) ==
  [f EXCEPT ![s] = [i \in 1..SlotSize |->
                      IF i > off /\ i <= off + Len(d) THEN d[i - off] ELSE f[s][i]]]

WriteCutAt(f, s, off, d, k) ==
  [f EXCEPT ![s] = [i \in 1..SlotSize |->
                      IF i > off /\ i <= off + k THEN d[i - off]
                      ELSE IF i > off + k /\ i <= off + k + DwSize THEN Torn
                      ELSE f[s][i]]]

CutWrites(f, s, off, d) ==
  {WriteCutAt(f, s, off, d, k) : k \in {j \in 0..Len(d) : j % DwSize = 0 /\ j < Len(d)}}

\* The doublewords that a chunk of n cells occupies are still erased.
RoomFor(f, s, off, n) == \A i \in 1..SlotSize : off < i /\ i <= off + n => f[s][i] = Erased

-----------------------------------------------------------------------------
Init ==
  /\ meta = Unreadable                          \* a board fresh from production
  /\ flash = [s \in Slots |-> [i \in 1..SlotSize |-> Erased]]
  /\ pc = "off" /\ job = NoJob
  /\ state = "IDLE" /\ target = None /\ session = NoSession
  /\ ctrl = InitDefault /\ caller = "main"
  /\ running = None /\ sent = <<>>
  /\ trials = 0 /\ committed = InitDefault

\* What is left of the bootloader's RAM when it is gone.
ClearRam ==
  /\ state' = "IDLE" /\ target' = None /\ session' = NoSession
  /\ ctrl' = InitDefault /\ caller' = "main"

Reply(st) == sent' = Append(sent, st)
ReplyFirst(st) == sent' = <<st>>          \* the first frame sent after one arrived

-----------------------------------------------------------------------------
(* Writing metadata: bld_meta_record_write erases the page, then programs  *)
(* the record.  The job remembers the call it belongs to.                  *)

StartMetaWrite(r, call) ==
  /\ pc' = "metaErase"
  /\ job' = [record |-> r, call |-> call]

-----------------------------------------------------------------------------
(* Boot decision: bld_engine_boot_decide_and_jump *)

Jump(s) ==
  /\ Reply("OK")
  /\ running' = s /\ pc' = "app" /\ job' = NoJob
  /\ ClearRam

\* The engine returns to (or reaches) its poll loop without an image to run.
NothingToBoot(replies) ==
  /\ sent' = sent \o replies \o (IF caller = "cmd" THEN <<"BOOT_ERR">> ELSE <<>>)
  /\ pc' = "poll" /\ job' = NoJob /\ caller' = "main"

\* Reading the metadata and looking at the pending slot.
DecidePending ==
  /\ pc = "decide"
  /\ ctrl' = LoadOrDefault(meta)
  /\ LET s == ctrl'.pending IN
     \/ /\ ~Readable(meta)
        /\ NothingToBoot(<<>>)
     \/ /\ Readable(meta) /\ s = None
        /\ pc' = "confirmed" /\ UNCHANGED <<job, caller, sent>>
     \/ /\ Readable(meta) /\ s # None
        /\ ~IsBootable(meta.slots[s]) \/ meta.slots[s].attempts = 0 \/ ~SlotOk(flash, meta, s)
        /\ StartMetaWrite(MarkBad(meta, s), "rejectPending")
        /\ UNCHANGED <<caller, sent>>
     \/ /\ Readable(meta) /\ s # None
        /\ IsBootable(meta.slots[s]) /\ meta.slots[s].attempts # 0 /\ SlotOk(flash, meta, s)
        /\ IF DecrementRejects(meta)
             THEN StartMetaWrite(MarkBad(meta, s), "rejectPending")
             ELSE StartMetaWrite(Decrement(meta), "spendAttempt")
        /\ UNCHANGED <<caller, sent>>
  /\ UNCHANGED <<meta, flash, state, target, session, running, history>>

\* The confirmed slot, after the pending one was absent or rejected.
DecideConfirmed ==
  /\ pc = "confirmed"
  /\ LET s == ctrl.confirmed IN
     \/ /\ s = None
        /\ NothingToBoot(<<"BOOT_ERR">>)
        /\ UNCHANGED <<state, target, session, ctrl, running>>
     \/ /\ s # None /\ SlotOk(flash, ctrl, s)
        /\ Jump(s)
     \/ /\ s # None /\ ~SlotOk(flash, ctrl, s)
        /\ StartMetaWrite(MarkBad(meta, s), "rejectConfirmed")
        /\ UNCHANGED <<ram, running, sent>>
  /\ UNCHANGED <<meta, flash, history>>

-----------------------------------------------------------------------------
(* What follows a metadata write, at the place that asked for it *)

AfterSpendAttempt(ok) ==
  IF ok
    THEN /\ Jump(job.record.pending)
         /\ trials' = IF trials <= MaxAttempts THEN trials + 1 ELSE trials
    ELSE /\ StartMetaWrite(MarkBad(meta', ctrl.pending), "rejectPending")
         /\ UNCHANGED <<ram, running, sent, trials>>

AfterRejectConfirmed ==
  /\ ctrl' = LoadOrDefault(meta')
  /\ NothingToBoot(<<"BOOT_ERR">>)
  /\ UNCHANGED <<state, target, session, running, trials>>

\* The result of bld_meta_mark_slot_bad is ignored; the metadata is read again.
AfterRejectPending ==
  /\ ctrl' = LoadOrDefault(meta')
  /\ pc' = "confirmed" /\ job' = NoJob
  /\ UNCHANGED <<state, target, session, caller, running, sent, trials>>

\* The END command, after bld_meta_set_pending.
AfterSetPending(ok) ==
  /\ IF ok
       THEN /\ ctrl' = LoadOrDefault(meta')
            /\ state' = "IDLE" /\ target' = None /\ session' = NoSession
            /\ trials' = 0
            /\ Reply("OK")
       ELSE /\ state' = "ERROR"
            /\ Reply("FLASH_ERR")
            /\ UNCHANGED <<target, session, ctrl, trials>>
  /\ pc' = "poll" /\ job' = NoJob
  /\ UNCHANGED <<caller, running>>

\* The application ignores the result of bld_confirm_running_image.
AfterConfirm ==
  /\ pc' = "appMain" /\ job' = NoJob
  /\ UNCHANGED <<ram, running, sent, trials>>

AfterMetaWrite(ok) ==
  \/ job.call = "spendAttempt" /\ AfterSpendAttempt(ok)
  \/ job.call = "rejectPending" /\ AfterRejectPending
  \/ job.call = "rejectConfirmed" /\ AfterRejectConfirmed
  \/ job.call = "setPending" /\ AfterSetPending(ok)
  \/ job.call = "confirm" /\ AfterConfirm

MetaErase ==
  /\ pc = "metaErase"
  /\ \/ /\ meta' = Unreadable
        /\ pc' = "metaWrite"
        /\ UNCHANGED <<job, ram, running, sent, trials>>
     \/ /\ "erase_fail" \in Faults
        /\ meta' \in {meta, Unreadable}
        /\ AfterMetaWrite(FALSE)
  /\ UNCHANGED <<flash, committed>>

MetaWrite ==
  /\ pc = "metaWrite"
  /\ \/ /\ meta' = job.record /\ committed' = job.record
        /\ AfterMetaWrite(TRUE)
     \/ /\ "program_fail" \in Faults
        /\ meta' = Unreadable
        /\ AfterMetaWrite(FALSE)
        /\ UNCHANGED committed
  /\ UNCHANGED flash

-----------------------------------------------------------------------------
(* Frames: bld_engine_poll and the handlers it dispatches to *)

Refused(st) ==
  /\ ReplyFirst(st)
  /\ UNCHANGED <<meta, flash, pc, job, ram, running, history>>

\* A frame whose delimiters, lengths, type or CRC are wrong.
BadFrame ==
  /\ pc = "poll"
  /\ \E st \in {"BAD_FRAME", "BAD_CRC"} : Refused(st)

CmdAbort ==
  /\ pc = "poll"
  /\ state' = "IDLE" /\ target' = None /\ session' = NoSession
  /\ ReplyFirst("OK")
  /\ UNCHANGED <<meta, flash, pc, job, ctrl, caller, running, history>>

CmdMeta ==
  /\ pc = "poll" /\ state = "IDLE"
  /\ ctrl' = LoadOrDefault(meta)
  /\ ReplyFirst("META")
  /\ UNCHANGED <<meta, flash, pc, job, state, target, session, caller, running, history>>

CmdStart ==
  /\ pc = "poll" /\ state = "IDLE"
  /\ ctrl' = LoadOrDefault(meta)
  /\ session' = NoSession
  /\ target' = ChooseTarget(ctrl')
  /\ state' = "WAIT_HEADER"
  /\ ReplyFirst("OK")
  /\ UNCHANGED <<meta, flash, pc, job, caller, running, history>>

CmdQuery ==
  /\ pc = "poll" /\ state = "IDLE"
  /\ Refused("OK")

CmdBoot ==
  /\ pc = "poll" /\ state = "IDLE"
  /\ pc' = "decide" /\ caller' = "cmd" /\ sent' = <<>>
  /\ UNCHANGED <<meta, flash, job, state, target, session, ctrl, running, history>>

EndFails(st) ==
  /\ state' = "ERROR"
  /\ ReplyFirst(st)
  /\ UNCHANGED <<meta, flash, pc, job, target, session, ctrl, caller, running, history>>

CmdEnd ==
  /\ pc = "poll" /\ state = "WAIT_END"
  /\ \/ /\ session.received # session.size
        /\ EndFails("BAD_FRAME")
     \/ /\ session.received = session.size
        /\ ~ImageOk(flash, target, session.size, session.crc)
        /\ EndFails("BAD_CRC")
     \/ /\ session.received = session.size
        /\ ImageOk(flash, target, session.size, session.crc)
        /\ SetPendingRejects(session.version, session.size, session.crc, MaxAttempts)
        /\ EndFails("FLASH_ERR")
     \/ /\ session.received = session.size
        /\ ImageOk(flash, target, session.size, session.crc)
        /\ ~SetPendingRejects(session.version, session.size, session.crc, MaxAttempts)
        /\ StartMetaWrite(SetPending(meta, target, session.version, session.size,
                                     session.crc, MaxAttempts), "setPending")
        /\ sent' = <<>>
        /\ UNCHANGED <<meta, flash, ram, running, history>>

\* A command the current state does not take (END when idle, START when not, ...).
CmdBadState ==
  /\ pc = "poll"
  /\ Refused("BAD_STATE")

Header(h) ==
  /\ pc = "poll"
  /\ \/ /\ state # "WAIT_HEADER"
        /\ Refused("BAD_STATE")
     \/ /\ state = "WAIT_HEADER"
        /\ h.size = 0 \/ h.size > SlotSize
        /\ state' = "IDLE" /\ target' = None /\ session' = NoSession
        /\ ReplyFirst("TOO_LARGE")
        /\ UNCHANGED <<meta, flash, pc, job, ctrl, caller, running, history>>
     \/ /\ state = "WAIT_HEADER"
        /\ h.size # 0 /\ h.size <= SlotSize
        /\ pc' = "slotErase" /\ job' = h /\ sent' = <<>>
        /\ UNCHANGED <<meta, flash, ram, running, history>>

\* The erase in the header handler, and what the handler does after it.
SlotErase ==
  /\ pc = "slotErase"
  /\ \/ /\ flash' = ErasedUpTo(flash, target, job.size)
        /\ session' = [seq |-> 0, received |-> 0,
                       size |-> job.size, crc |-> job.crc, version |-> job.version]
        /\ state' = "RECV_DATA"
        /\ Reply("OK")
     \/ /\ "erase_fail" \in Faults
        /\ flash' \in {flash} \cup CutErases(flash, target, job.size)
        /\ state' = "ERROR"
        /\ Reply("FLASH_ERR")
        /\ UNCHANGED session
  /\ pc' = "poll" /\ job' = NoJob
  /\ UNCHANGED <<meta, target, ctrl, caller, running, history>>

DataFails(st) ==
  /\ state' = "ERROR"
  /\ ReplyFirst(st)
  /\ UNCHANGED <<meta, flash, pc, job, target, session, ctrl, caller, running, history>>

\* stm32l4_write refuses an empty chunk and an offset inside a doubleword.
Unwritable(d) == Len(d) = 0 \/ session.received % DwSize # 0

NeverTooMuch(d) == session.received > session.size   \* mutated form: checked too late
TooMuch(d) == session.received + Len(d) > session.size

Data(seq, d) ==
  /\ pc = "poll"
  /\ \/ /\ state # "RECV_DATA"
        /\ Refused("BAD_STATE")
     \/ /\ state = "RECV_DATA" /\ seq # session.seq
        /\ Refused("SEQ_ERR")
     \/ /\ state = "RECV_DATA" /\ seq = session.seq
        /\ TooMuch(d)
        /\ DataFails("BAD_FRAME")
     \/ /\ state = "RECV_DATA" /\ seq = session.seq
        /\ ~TooMuch(d)
        /\ Unwritable(d)
        /\ DataFails("FLASH_ERR")
     \/ /\ state = "RECV_DATA" /\ seq = session.seq
        /\ ~TooMuch(d)
        /\ ~Unwritable(d)
        /\ pc' = "slotWrite" /\ job' = [data |-> d] /\ sent' = <<>>
        /\ UNCHANGED <<meta, flash, ram, running, history>>

\* The write in the data handler.  Programming needs erased cells.
SlotWrite ==
  /\ pc = "slotWrite"
  /\ LET d == job.data
         off == session.received
     IN \/ /\ RoomFor(flash, target, off, Len(d))
           /\ flash' = Written(flash, target, off, d)
           /\ session' = [session EXCEPT !.received = @ + Len(d), !.seq = @ + 1]
           /\ state' = IF session'.received >= session.size THEN "WAIT_END" ELSE "RECV_DATA"
           /\ Reply("OK")
        \/ /\ "program_fail" \in Faults \/ ~RoomFor(flash, target, off, Len(d))
           /\ flash' \in {flash} \cup CutWrites(flash, target, off, d)
           /\ state' = "ERROR"
           /\ Reply("FLASH_ERR")
           /\ UNCHANGED session
  /\ pc' = "poll" /\ job' = NoJob
  /\ UNCHANGED <<meta, target, ctrl, caller, running, history>>

Frame ==
  \/ BadFrame
  \/ CmdAbort \/ CmdMeta \/ CmdStart \/ CmdQuery \/ CmdBoot \/ CmdEnd \/ CmdBadState
  \/ \E h \in Headers : Header(h)
  \/ \E d \in Payloads, seq \in {session.seq, session.seq + 1} : Data(seq, d)

-----------------------------------------------------------------------------
(* Application start: main.cpp calls bld_confirm_running_image before it   *)
(* starts its threads.                                                     *)

AppImage == Content(flash, running, committed.slots[running].size)

AppConfirm ==
  /\ pc = "app" /\ AppImage \notin Broken
  /\ IF ConfirmRejects(meta)
       THEN pc' = "appMain" /\ UNCHANGED job
       ELSE StartMetaWrite(Confirm(meta), "confirm")
  /\ UNCHANGED <<meta, flash, ram, running, sent, history>>

-----------------------------------------------------------------------------
(* Power *)

\* Reset or power on: main() initialises the engine, then decides unless the
\* user button is pressed.
PowerOn ==
  /\ pc = "off"
  /\ pc' \in {"decide", "poll"}
  /\ ctrl' = LoadOrDefault(meta)
  /\ state' = "IDLE" /\ target' = None /\ session' = NoSession /\ caller' = "main"
  /\ sent' = <<>>
  /\ UNCHANGED <<meta, flash, job, running, history>>

Stopped ==
  /\ pc' = "off" /\ job' = NoJob /\ running' = None /\ sent' = <<>>
  /\ ClearRam

\* A reset (user, crash of an image) while no flash operation is in progress.
Reset ==
  /\ pc # "off" /\ ~InFlashOp
  /\ Stopped
  /\ UNCHANGED <<meta, flash, history>>

\* Power fails inside a flash operation.
PowerCut ==
  /\ "power_loss" \in Faults
  /\ \/ /\ pc \in {"metaErase", "metaWrite"}
        /\ meta' \in {meta, Unreadable}
        /\ UNCHANGED flash
     \/ /\ pc = "slotErase"
        /\ flash' \in {flash} \cup CutErases(flash, target, job.size)
        /\ UNCHANGED meta
     \/ /\ pc = "slotWrite"
        /\ flash' \in {flash} \cup CutWrites(flash, target, session.received, job.data)
        /\ UNCHANGED meta
  /\ Stopped
  /\ UNCHANGED history

\* A cell of a slot decays while the board is off.
BitRot ==
  /\ "bit_rot" \in Faults /\ pc = "off"
  /\ \E s \in Slots, i \in 1..SlotSize : flash' = [flash EXCEPT ![s][i] = Torn]
  /\ UNCHANGED <<meta, pc, job, ram, running, sent, history>>

-----------------------------------------------------------------------------
DeviceStep ==
  DecidePending \/ DecideConfirmed \/ MetaErase \/ MetaWrite \/ SlotErase \/ SlotWrite \/ AppConfirm

Next == DeviceStep \/ Frame \/ PowerOn \/ Reset \/ PowerCut \/ BitRot

Spec == Init /\ [][Next]_vars

\* The processor runs: a step of the program that can be taken is taken.
FairSpec == Spec /\ WF_vars(DeviceStep)

-----------------------------------------------------------------------------
(* Properties *)

\* Every variable holds a value of its kind; a job matches the place it is for.
Calls == {"spendAttempt", "rejectPending", "rejectConfirmed", "setPending", "confirm"}
Statuses == {"OK", "META", "BAD_FRAME", "BAD_CRC", "BAD_STATE", "SEQ_ERR", "TOO_LARGE",
             "FLASH_ERR", "BOOT_ERR"}
MetaJobs == [record : Records, call : Calls]
HeaderJobs == [version : Nat, size : 1..SlotSize, crc : Crcs]
DataJobs == [data : Seq(Bytes)]
Sessions ==
  [seq : Nat, received : 0..SlotSize, size : 0..SlotSize, crc : Crcs, version : Nat]

TypeOK ==
  /\ meta \in Records \cup {Unreadable}
  /\ flash \in [Slots -> [1..SlotSize -> Cell]]
  /\ pc \in Places
  /\ pc \in {"metaErase", "metaWrite"} => job \in MetaJobs
  /\ pc = "slotErase" => job \in HeaderJobs
  /\ pc = "slotWrite" => job \in DataJobs
  /\ state \in EngineStates
  /\ target \in SlotIds
  /\ session \in Sessions
  /\ ctrl \in Records
  /\ caller \in {"main", "cmd"}
  /\ running \in SlotIds
  /\ sent \in Seq(Statuses)
  /\ trials \in Nat
  /\ committed \in Records

\* The image recorded for slot s of record r is in the slot, bit for bit as
\* far as its CRC32 tells.
Intact(r, s) ==
  LET i == r.slots[s] IN
  /\ i.size \in 1..SlotSize /\ i.crc # ZeroCrc
  /\ Crc32(Content(flash, s, i.size)) = i.crc

\* The stored record is consistent (Agrees, in BldMeta) after every interrupted
\* or failed operation.
RecordAgrees == Readable(meta) => Agrees(meta)

\* The image of the confirmed slot stays intact, whatever is uploaded, aborted
\* or cut short in the other slot: the fallback is always there.
ConfirmedIntact == Readable(meta) /\ meta.confirmed # None => Intact(meta, meta.confirmed)

\* An image becomes the confirmed one only if it is able to confirm itself: the
\* confirm call of an application accepts the image it runs from, never one that
\* crashes before its own confirm call (bld_confirm.c:59-89).
ConfirmedProved ==
  Readable(meta) /\ meta.confirmed # None =>
    Content(flash, meta.confirmed, meta.slots[meta.confirmed].size) \notin Broken

\* No erase or program operation, finished or cut, touches the slot that the
\* stored metadata calls confirmed.
UploadSparesConfirmed ==
  [][SlotErase \/ SlotWrite \/ PowerCut =>
       \A s \in Slots : Readable(meta) /\ meta.confirmed = s => flash'[s] = flash[s]]_vars

\* An image is booted on trial at most MaxAttempts times between its
\* installation and its confirmation or rejection, however often power fails.
TrialsBounded == trials <= MaxAttempts

\* While data is received, the part of the image still to come is erased: the
\* data handler never programs a cell twice (bld_engine.c:490-516).
RoomErased ==
  state = "RECV_DATA" /\ pc \in {"poll", "slotWrite"} =>
    RoomFor(flash, target, session.received, session.size - session.received)

\* An application that starts is the pending or the confirmed image of the
\* stored record, and the slot holds exactly what the record says.
RunsRecordedImage ==
  pc = "app" =>
    /\ Readable(meta)
    /\ running \in {meta.pending, meta.confirmed} \ {None}
    /\ Intact(meta, running)

\* The record that is stored, or is about to be stored by the write in progress.
Stored == IF pc = "metaWrite" THEN job.record ELSE meta

\* Once an image is accepted the device always has an accepted image: rejecting
\* a trial image never takes the fallback with it.
AcceptanceKept ==
  [][Readable(Stored) /\ Stored.confirmed # None =>
       Readable(Stored') /\ Stored'.confirmed # None]_vars

\* bld_engine.h:77-78: a boot decision fails only if no bootable image is
\* available, so never while the accepted image of the last complete record is
\* still intact in its slot.
BootErrOnlyWithoutImage ==
  (\E i \in 1..Len(sent) : sent[i] = "BOOT_ERR") =>
    ~(committed.confirmed # None /\ Intact(committed, committed.confirmed))

\* If the board keeps being reset and started and uploads end, an image that crashes before
\* confirming does not stay on trial for ever: it is rejected after its attempts.
OnTrialBroken ==
  LET r == LoadOrDefault(Stored) IN
  /\ r.pending # None
  /\ Content(flash, r.pending, r.slots[r.pending].size) \in Broken

RollbackHappens ==
  ([]<>(pc = "off") /\ []<>(pc = "app") /\ <>[](state = "IDLE")) => []<>~OnTrialBroken
=============================================================================
