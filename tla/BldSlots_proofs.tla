-------------------------- MODULE BldSlots_proofs --------------------------
(***************************************************************************)
(* Theorems about the contents of the two slots: what is written meets     *)
(* erased cells, what runs is what the record says, and the image to fall  *)
(* back to stays intact.                                                   *)
(***************************************************************************)
EXTENDS BldDevice_proofs

-----------------------------------------------------------------------------
(* Programming meets erased cells.  RoomErased is inductive once it says   *)
(* that a board that does not poll or write has no upload in progress.     *)

RoomInv ==
  state = "RECV_DATA" =>
    /\ pc \in {"poll", "slotWrite"}
    /\ RoomFor(flash, target, session.received, session.size - session.received)

\* Rounding up loses nothing, so an erase of n cells covers them all (align_up).
LEMMA AlignUpCovers ==
  ASSUME NEW n \in Nat
  PROVE  n <= AlignUp(n, PageSize)
<1>1. PageSize \in Nat \ {0} BY SizeAssumption
<1>2. ASSUME NEW x \in Nat, NEW a \in Nat \ {0} PROVE x < (x \div a) * a + a
  <2>1. x = a * (x \div a) + (x % a) /\ x % a \in 0..(a - 1) BY <1>2
  <2>2. x \div a \in Nat BY <1>2
  <2>3. a * (x \div a) = (x \div a) * a BY <2>2
  <2> QED BY <2>1, <2>2, <2>3
<1>3. n + PageSize - 1 \in Nat BY <1>1
<1>4. n + PageSize - 1 < ((n + PageSize - 1) \div PageSize) * PageSize + PageSize BY <1>1, <1>2, <1>3
<1>5. ((n + PageSize - 1) \div PageSize) * PageSize \in Nat BY <1>1, <1>3
<1> QED BY <1>1, <1>4, <1>5 DEF AlignUp

LEMMA SlotStepRoom == TypeInv /\ RoomInv /\ (SlotErase \/ SlotWrite) => RoomInv'
<1> SUFFICES ASSUME TypeInv, RoomInv, SlotErase \/ SlotWrite, state' = "RECV_DATA" PROVE RoomInv'
  BY DEF RoomInv
<1>0. /\ pc' = "poll" /\ target' = target /\ target \in Slots /\ session \in Sessions
      /\ flash \in Flash
  BY DEF SlotErase, SlotWrite, TypeInv, TypeOK, JobInv, Flash
<1>1. CASE SlotErase
  <2>1. job.size \in Nat BY <1>1, SizeAssumption DEF SlotErase, TypeInv, TypeOK, HeaderJobs
  <2>2. /\ flash' = ErasedUpTo(flash, target, job.size)
        /\ session'.received = 0 /\ session'.size = job.size
    BY <1>1 DEF SlotErase
  <2>3. \A i \in 1..SlotSize : i <= job.size => i <= AlignUp(job.size, PageSize)
    <3>1. AlignUp(job.size, PageSize) \in Nat BY <2>1, SizeAssumption DEF AlignUp
    <3> QED BY <2>1, <3>1, AlignUpCovers, SizeAssumption
  <2>4. \A i \in 1..SlotSize : i <= job.size => flash'[target][i] = Erased
    BY <1>0, <2>2, <2>3 DEF ErasedUpTo, Flash
  <2> QED BY <1>0, <2>1, <2>2, <2>4, SizeAssumption DEF RoomInv, RoomFor
<1>2. CASE SlotWrite
  <2> DEFINE d == job.data
             off == session.received
  <2>1. /\ d \in Seq(Bytes) /\ off \in Nat /\ session.size \in Nat /\ Len(d) \in Nat
        /\ RoomFor(flash, target, off, session.size - off)
    BY <1>2, SizeAssumption DEF SlotWrite, TypeInv, TypeOK, JobInv, DataJobs, Sessions, RoomInv
  <2>2. flash' = Written(flash, target, off, d) /\ session' = [session EXCEPT !.received = @ + Len(d), !.seq = @ + 1]
    BY <1>2 DEF SlotWrite
  <2>3. session'.received = off + Len(d) /\ session'.size = session.size
    BY <1>0, <2>2 DEF Sessions
  <2>4. \A i \in 1..SlotSize : i > off + Len(d) => flash'[target][i] = flash[target][i]
    BY <1>0, <2>1, <2>2, SizeAssumption DEF Written, Flash
  <2> HIDE DEF d, off
  <2> QED BY <1>0, <2>1, <2>3, <2>4, SizeAssumption DEF RoomInv, RoomFor
<1> QED BY <1>1, <1>2

LEMMA FrameRoom == TypeInv /\ RoomInv /\ Frame => RoomInv'
<1> SUFFICES ASSUME TypeInv, RoomInv, Frame, state' = "RECV_DATA" PROVE RoomInv' BY DEF RoomInv
<1>1. /\ pc = "poll" /\ state = "RECV_DATA" /\ pc' \in {"poll", "slotWrite"}
      /\ UNCHANGED <<flash, target, session>>
  <2>1. CASE BadFrame \/ CmdAbort \/ CmdMeta \/ CmdStart \/ CmdQuery \/ CmdBoot \/ CmdBadState
    BY <2>1 DEF BadFrame, CmdAbort, CmdMeta, CmdStart, CmdQuery, CmdBoot, CmdBadState, Refused, ram
  <2>2. CASE CmdEnd BY <2>2 DEF CmdEnd, EndFails, ram
  <2>3. CASE \E h \in Headers : Header(h) BY <2>3 DEF Header, Refused, ram
  <2>4. CASE \E d \in Payloads, seq \in {session.seq, session.seq + 1} : Data(seq, d)
    BY <2>4 DEF Data, Refused, DataFails, ram
  <2> QED BY <2>1, <2>2, <2>3, <2>4 DEF Frame
<1> QED BY <1>1 DEF RoomInv, RoomFor

LEMMA OtherRoom ==
  TypeInv /\ RoomInv
    /\ (DecidePending \/ DecideConfirmed \/ MetaErase \/ MetaWrite \/ AppConfirm \/ PowerOn \/ Reset
          \/ PowerCut \/ BitRot \/ UNCHANGED vars)
    => RoomInv'
<1> SUFFICES ASSUME TypeInv, RoomInv,
                    DecidePending \/ DecideConfirmed \/ MetaErase \/ MetaWrite \/ AppConfirm \/ PowerOn
                      \/ Reset \/ PowerCut \/ BitRot \/ UNCHANGED vars
             PROVE  RoomInv'
  OBVIOUS
<1> USE DEF RoomInv
<1>1. CASE DecidePending \/ DecideConfirmed
  BY <1>1 DEF DecidePending, DecideConfirmed, NothingToBoot, Jump, ClearRam, ram
<1>2. CASE MetaErase \/ MetaWrite
  <2>1. pc \in MetaPlaces BY <1>2 DEF MetaErase, MetaWrite, MetaPlaces
  <2>2. state' = state \/ state' \in {"IDLE", "ERROR"}
    BY <1>2 DEF MetaErase, MetaWrite, AfterMetaWrite, AfterSpendAttempt, AfterRejectConfirmed,
         AfterRejectPending, AfterSetPending, AfterConfirm, Jump, ClearRam, ram
  <2> QED BY <2>1, <2>2 DEF MetaPlaces
<1>3. CASE AppConfirm \/ PowerOn BY <1>3 DEF AppConfirm, PowerOn, StartMetaWrite, ram
<1>4. CASE Reset \/ PowerCut BY <1>4 DEF Reset, PowerCut, Stopped, ClearRam
<1>5. CASE BitRot \/ UNCHANGED vars BY <1>5 DEF BitRot, vars, ram, RoomFor
<1> QED BY <1>1, <1>2, <1>3, <1>4, <1>5

\* Whatever was sent, aborted, cut short or failed before: while an upload receives data
\* the cells still to come are erased, so a chunk is never programmed over another
\* (bld_engine.c:490-516).
THEOREM RoomIsErased == Spec => []RoomErased
<1>1. Init => TypeInv /\ RoomInv BY TypeInit DEF Init, RoomInv
<1>2. (TypeInv /\ RoomInv) /\ [Next]_vars => (TypeInv /\ RoomInv)'
  BY TypeNext, SlotStepRoom, FrameRoom, OtherRoom DEF Next, DeviceStep
<1>3. RoomInv => RoomErased BY DEF RoomInv, RoomErased
<1> QED BY <1>1, <1>2, <1>3, PTL DEF Spec

-----------------------------------------------------------------------------
(* What runs is what the record says, under every combination of faults.   *)

\* Intact, with the slots as a parameter: the code compares in place.
IntactIn(f, r, s) ==
  LET i == r.slots[s] IN
  /\ i.size \in 1..SlotSize /\ i.crc # ZeroCrc
  /\ Crc32(Content(f, s, i.size)) = i.crc

\* The boot decision looks at the record it loaded last, and the attempt of a pending
\* image is spent for an image that has just been verified.
BootInv ==
  /\ pc = "confirmed" => ctrl = LoadOrDefault(meta)
  /\ pc \in MetaPlaces /\ job.call = "spendAttempt" => IntactIn(flash, job.record, job.record.pending)
  /\ pc = "app" =>
       /\ Readable(meta)
       /\ running \in {meta.pending, meta.confirmed} \ {None}
       /\ IntactIn(flash, meta, running)

\* bld_engine_verify_slot_image accepts exactly the intact images.
LEMMA SlotOkIsIntact ==
  ASSUME NEW f, NEW r \in Records, NEW s \in Slots
  PROVE  SlotOk(f, r, s) <=> IntactIn(f, r, s)
<1>1. r.slots[s].size \in Nat BY DEF Records, SlotInfo
<1> QED BY <1>1, SizeAssumption DEF SlotOk, ImageOk, IntactIn

\* Whether an image is intact depends on its slot, its size and its CRC only.
LEMMA IntactDepends ==
  ASSUME NEW f, NEW g, NEW s, f[s] = g[s],
         NEW q, NEW r, q.slots[s].size = r.slots[s].size, q.slots[s].crc = r.slots[s].crc,
         IntactIn(f, q, s)
  PROVE  IntactIn(g, r, s)
  BY DEF IntactIn, Content

\* A frame changes nothing that outlasts the bootloader; END may ask for a record.
LEMMA FrameEffect ==
  ASSUME Frame
  PROVE  /\ pc = "poll" /\ UNCHANGED <<meta, flash, running, trials, committed>>
         /\ pc' \in {"poll", "decide", "slotErase", "slotWrite", "metaErase"}
         /\ pc' = "metaErase" =>
              /\ state = "WAIT_END"
              /\ job'.call = "setPending"
              /\ job'.record = SetPending(meta, target, session.version, session.size,
                                          session.crc, MaxAttempts)
              /\ ~SetPendingRejects(session.version, session.size, session.crc, MaxAttempts)
              /\ ImageOk(flash, target, session.size, session.crc)
              /\ sent' = <<>>
<1>1. CASE BadFrame \/ CmdAbort \/ CmdMeta \/ CmdStart \/ CmdQuery \/ CmdBoot \/ CmdBadState
  BY <1>1 DEF BadFrame, CmdAbort, CmdMeta, CmdStart, CmdQuery, CmdBoot, CmdBadState, Refused, history
<1>2. CASE CmdEnd BY <1>2 DEF CmdEnd, EndFails, StartMetaWrite, history
<1>3. CASE \E h \in Headers : Header(h) BY <1>3 DEF Header, Refused, history
<1>4. CASE \E d \in Payloads, seq \in {session.seq, session.seq + 1} : Data(seq, d)
  BY <1>4 DEF Data, Refused, DataFails, history
<1> QED BY <1>1, <1>2, <1>3, <1>4 DEF Frame

LEMMA DecidePendingBoot == TypeInv /\ BootInv /\ DecidePending => BootInv'
<1> SUFFICES ASSUME TypeInv, BootInv, DecidePending PROVE BootInv' OBVIOUS
<1> USE DEF BootInv, MetaPlaces
<1>1. meta' = meta /\ flash' = flash /\ ctrl' = LoadOrDefault(meta) BY DEF DecidePending
<1>2. CASE pc' \in {"poll", "confirmed"} BY <1>1, <1>2 DEF LoadOrDefault, Readable
<1>3. ASSUME NEW r, StartMetaWrite(r, "rejectPending") PROVE BootInv'
  BY <1>1, <1>3 DEF StartMetaWrite
<1>4. ASSUME Readable(meta), meta.pending # None, SlotOk(flash, meta, meta.pending),
             ~DecrementRejects(meta), StartMetaWrite(Decrement(meta), "spendAttempt")
      PROVE  BootInv'
  <2>1. meta \in Records /\ meta.pending \in Slots /\ meta = LoadOrDefault(meta)
    BY <1>4 DEF TypeInv, TypeOK, Readable, Records, SlotIds, LoadOrDefault
  <2>2. IntactIn(flash, meta, meta.pending) BY <1>4, <2>1, SlotOkIsIntact
  <2>3. Decrement(meta).pending = meta.pending
        /\ Decrement(meta).slots[meta.pending].size = meta.slots[meta.pending].size
        /\ Decrement(meta).slots[meta.pending].crc = meta.slots[meta.pending].crc
    BY <1>4, <2>1, DecrementFields
  <2>4. IntactIn(flash, Decrement(meta), Decrement(meta).pending) BY <2>2, <2>3, IntactDepends
  <2> QED BY <1>1, <1>4, <2>4 DEF StartMetaWrite
<1> QED BY <1>1, <1>2, <1>3, <1>4 DEF DecidePending, NothingToBoot, LoadOrDefault

LEMMA DecideConfirmedBoot == TypeInv /\ BootInv /\ DecideConfirmed => BootInv'
<1> SUFFICES ASSUME TypeInv, BootInv, DecideConfirmed PROVE BootInv' OBVIOUS
<1> USE DEF BootInv, MetaPlaces
<1>1. meta' = meta /\ flash' = flash /\ ctrl = LoadOrDefault(meta) /\ ctrl \in Records
  BY DEF DecideConfirmed, TypeInv, TypeOK
<1>2. CASE pc' = "poll" BY <1>1, <1>2
<1>3. ASSUME NEW r, StartMetaWrite(r, "rejectConfirmed") PROVE BootInv'
  BY <1>1, <1>3 DEF StartMetaWrite
<1>4. ASSUME ctrl.confirmed # None, SlotOk(flash, ctrl, ctrl.confirmed), Jump(ctrl.confirmed)
      PROVE  BootInv'
  <2>1. Readable(meta) /\ ctrl = meta /\ meta.confirmed \in Slots
    BY <1>1, <1>4 DEF LoadOrDefault, InitDefault, Records, SlotIds
  <2>2. IntactIn(flash, meta, meta.confirmed) BY <1>1, <1>4, <2>1, SlotOkIsIntact
  <2> QED BY <1>1, <1>4, <2>1, <2>2 DEF Jump, Readable
<1> QED BY <1>2, <1>3, <1>4 DEF DecideConfirmed, NothingToBoot

LEMMA MetaStepBoot == TypeInv /\ BootInv /\ (MetaErase \/ MetaWrite) => BootInv'
<1> SUFFICES ASSUME TypeInv, BootInv, MetaErase \/ MetaWrite PROVE BootInv' OBVIOUS
<1> USE DEF BootInv, MetaPlaces
<1>1. /\ flash' = flash /\ pc \in MetaPlaces /\ job \in MetaJobs /\ job.record \in Records
  BY DEF MetaErase, MetaWrite, TypeInv, TypeOK, MetaJobs
<1>2. CASE pc' = "metaWrite" /\ UNCHANGED job BY <1>1, <1>2
<1>3. ASSUME NEW ok \in BOOLEAN, AfterMetaWrite(ok), ok => meta' = job.record PROVE BootInv'
  <2>1. CASE job.call = "spendAttempt" /\ ok
    <3>1. IntactIn(flash, job.record, job.record.pending) /\ job.record.pending \in Slots
      BY <1>1, <2>1 DEF TypeInv, JobInv
    <3>2. pc' = "app" /\ running' = job.record.pending /\ meta' = job.record
      BY <1>3, <2>1 DEF AfterMetaWrite, AfterSpendAttempt, Jump
    <3>3. job.record.pending # None /\ Readable(job.record)
      BY <1>1, <3>1, UnreadableAssumption DEF Slots, None, Readable
    <3> QED BY <1>1, <3>1, <3>2, <3>3 DEF Readable
  <2>2. ASSUME pc' = "metaErase", job'.call = "rejectPending" PROVE BootInv' BY <2>2
  <2>3. CASE AfterRejectPending BY <2>3 DEF AfterRejectPending, LoadOrDefault, Readable
  <2>4. ASSUME pc' \in {"poll", "appMain"} PROVE BootInv' BY <2>4
  <2> QED BY <1>3, <2>1, <2>2, <2>3, <2>4
          DEF AfterMetaWrite, AfterSpendAttempt, StartMetaWrite, AfterRejectConfirmed, NothingToBoot,
              AfterSetPending, AfterConfirm
<1> QED BY <1>2, <1>3 DEF MetaErase, MetaWrite

LEMMA OtherBoot ==
  TypeInv /\ BootInv
    /\ (Frame \/ SlotErase \/ SlotWrite \/ AppConfirm \/ PowerOn \/ Reset \/ PowerCut \/ BitRot
          \/ UNCHANGED vars)
    => BootInv'
<1> SUFFICES ASSUME TypeInv, BootInv,
                    Frame \/ SlotErase \/ SlotWrite \/ AppConfirm \/ PowerOn \/ Reset \/ PowerCut
                      \/ BitRot \/ UNCHANGED vars
             PROVE  BootInv'
  OBVIOUS
<1> USE DEF BootInv, MetaPlaces
<1>1. CASE Frame BY <1>1, FrameEffect
<1>2. CASE SlotErase \/ SlotWrite BY <1>2 DEF SlotErase, SlotWrite
<1>3. CASE AppConfirm BY <1>3 DEF AppConfirm, StartMetaWrite
<1>4. CASE PowerOn \/ Reset \/ PowerCut BY <1>4 DEF PowerOn, Reset, PowerCut, Stopped
<1>5. CASE BitRot BY <1>5 DEF BitRot
<1>6. CASE UNCHANGED vars BY <1>6 DEF vars, ram, LoadOrDefault, Readable
<1> QED BY <1>1, <1>2, <1>3, <1>4, <1>5, <1>6

LEMMA BootNext == TypeInv /\ BootInv /\ [Next]_vars => BootInv'
  BY DecidePendingBoot, DecideConfirmedBoot, MetaStepBoot, OtherBoot DEF Next, DeviceStep

\* For all faults: an application that starts is the pending or the confirmed image of
\* the stored record, and its slot holds what the record says, bit for bit as far as its
\* CRC32 tells; a record that was lost or a slot that decayed starts nothing.
THEOREM RunsOnlyRecorded == Spec => []RunsRecordedImage
<1>1. Init => TypeInv /\ BootInv BY TypeInit DEF Init, BootInv, MetaPlaces
<1>2. (TypeInv /\ BootInv) /\ [Next]_vars => (TypeInv /\ BootInv)' BY TypeNext, BootNext
<1>3. BootInv => RunsRecordedImage BY DEF BootInv, RunsRecordedImage, Intact, IntactIn
<1> QED BY <1>1, <1>2, <1>3, PTL DEF Spec

-----------------------------------------------------------------------------
(* The image to fall back to, as long as erasing works and no cell decays  *)
(* (with a failing erase a rejected image can be confirmed).               *)

SoundFlash == "erase_fail" \notin Faults /\ "bit_rot" \notin Faults

\* The confirmed image of r is intact and not one that crashes before it confirms.
ProvedIn(f, r) ==
  r.confirmed # None =>
    /\ IntactIn(f, r, r.confirmed)
    /\ Content(f, r.confirmed, r.slots[r.confirmed].size) \notin Broken

\* The record in flight must be as good as the stored one, no decision may start the
\* confirmed image beside a pending one, or the confirmed image would confirm the other,
\* and the image that confirms itself is the one the record describes.
KeepInv ==
  /\ Readable(meta) => ProvedIn(flash, meta) /\ committed = meta
  /\ pc = "confirmed" => ctrl.pending = None
  /\ pc = "app" => meta.pending \in {None, running}
  /\ pc \in MetaPlaces =>
       /\ ProvedIn(flash, job.record)
       /\ job.call = "rejectPending" => job.record.pending = None
       /\ job.call # "rejectConfirmed"

LEMMA ProvedDepends ==
  ASSUME NEW f, NEW g, NEW q, NEW r,
         r.confirmed \in {None, q.confirmed}, f[r.confirmed] = g[r.confirmed],
         q.slots[r.confirmed].size = r.slots[r.confirmed].size,
         q.slots[r.confirmed].crc = r.slots[r.confirmed].crc,
         ProvedIn(f, q)
  PROVE  ProvedIn(g, r)
<1> SUFFICES ASSUME r.confirmed # None
             PROVE  IntactIn(g, r, r.confirmed)
                      /\ Content(g, r.confirmed, r.slots[r.confirmed].size) \notin Broken
  BY DEF ProvedIn
<1>1. /\ q.confirmed = r.confirmed /\ IntactIn(f, q, r.confirmed)
      /\ Content(f, r.confirmed, r.slots[r.confirmed].size) \notin Broken
  BY DEF ProvedIn
<1>2. Content(g, r.confirmed, r.slots[r.confirmed].size) = Content(f, r.confirmed, r.slots[r.confirmed].size)
  BY DEF Content
<1> QED BY <1>1, <1>2, IntactDepends

LEMMA LoadProved ==
  ASSUME NEW m, NEW f, Readable(m) => ProvedIn(f, m)
  PROVE  ProvedIn(f, LoadOrDefault(m))
  BY DEF LoadOrDefault, InitDefault, ProvedIn

\* Rejecting a slot that is not the confirmed one leaves the confirmed one alone.
LEMMA MarkBadProved ==
  ASSUME NEW m \in Records \cup {Unreadable}, NEW s \in Slots, NEW f,
         Readable(m) => ProvedIn(f, m), LoadOrDefault(m).confirmed # s
  PROVE  /\ ProvedIn(f, MarkBad(m, s))
         /\ MarkBad(m, s).confirmed = LoadOrDefault(m).confirmed
<1> DEFINE r == LoadOrDefault(m)
           b == MarkBad(m, s)
<1>1. ProvedIn(f, r) BY LoadProved
<1>2. /\ b.confirmed = MovedOff(r.confirmed, s, SelectableForConfirmed(r.slots[Other(s)]))
      /\ \A t \in Slots : b.slots[t].size = r.slots[t].size /\ b.slots[t].crc = r.slots[t].crc
  BY MarkBadFields
<1>3. b.confirmed = r.confirmed /\ r.confirmed \in SlotIds BY <1>2, LoadRecord DEF MovedOff, Records
<1> HIDE DEF r, b
<1>4. CASE r.confirmed = None BY <1>3, <1>4 DEF ProvedIn, b, r
<1>5. CASE r.confirmed \in Slots BY <1>1, <1>2, <1>3, <1>5, ProvedDepends DEF b, r
<1> QED BY <1>3, <1>4, <1>5 DEF SlotIds

\* The pending slot of a consistent record is not the confirmed one.
LEMMA PendingNotConfirmed ==
  ASSUME NEW r \in Records, Agrees(r), r.pending # None
  PROVE  r.pending \in Slots /\ r.confirmed # r.pending
  BY DEF Agrees, Records, SlotIds

LEMMA DecidePendingKeep ==
  ASSUME TypeInv, AgreeInv, KeepInv, DecidePending
  PROVE  KeepInv'
<1> USE DEF KeepInv, MetaPlaces
<1>1. /\ UNCHANGED <<meta, flash, committed>> /\ ctrl' = LoadOrDefault(meta)
      /\ meta \in Records \cup {Unreadable}
  BY DEF DecidePending, history, TypeInv, TypeOK
<1>2. CASE pc' \in {"poll", "confirmed"} /\ (pc' = "confirmed" => ctrl'.pending = None)
  BY <1>1, <1>2 DEF Readable, ProvedIn
<1>3. ASSUME Readable(meta), ctrl'.pending # None,
             StartMetaWrite(MarkBad(meta, ctrl'.pending), "rejectPending")
      PROVE  KeepInv'
  <2>1. meta \in Records /\ ctrl' = meta /\ Agrees(meta) /\ LoadOrDefault(meta) = meta
    BY <1>1, <1>3 DEF Readable, LoadOrDefault, AgreeInv
  <2>2. meta.pending \in Slots /\ meta.confirmed # meta.pending BY <1>3, <2>1, PendingNotConfirmed
  <2>3. ProvedIn(flash, MarkBad(meta, meta.pending)) BY <1>1, <1>3, <2>1, <2>2, MarkBadProved
  <2>4. MarkBad(meta, meta.pending).pending = None BY <1>1, <2>1, <2>2, MarkBadFields DEF ClearedIf
  <2> QED BY <1>1, <1>3, <2>1, <2>3, <2>4 DEF StartMetaWrite, Readable, ProvedIn
<1>4. ASSUME Readable(meta), ~DecrementRejects(meta), StartMetaWrite(Decrement(meta), "spendAttempt")
      PROVE  KeepInv'
  <2>1. meta \in Records /\ LoadOrDefault(meta) = meta BY <1>1, <1>4 DEF Readable, LoadOrDefault
  <2>2. Decrement(meta).confirmed = meta.confirmed
        /\ \A t \in Slots : Decrement(meta).slots[t].size = meta.slots[t].size
                            /\ Decrement(meta).slots[t].crc = meta.slots[t].crc
    BY <1>4, <2>1, DecrementFields
  <2>3. meta.confirmed \in SlotIds BY <2>1 DEF Records
  <2>4. ProvedIn(flash, Decrement(meta))
    <3>1. CASE meta.confirmed = None BY <2>2, <3>1 DEF ProvedIn
    <3>2. CASE meta.confirmed \in Slots BY <1>4, <2>2, <3>2, ProvedDepends
    <3> QED BY <2>3, <3>1, <3>2 DEF SlotIds
  <2> QED BY <1>1, <1>4, <2>4 DEF StartMetaWrite, Readable, ProvedIn
<1> QED BY <1>1, <1>2, <1>3, <1>4 DEF DecidePending, NothingToBoot, Readable

\* The confirmed image of a sound flash is never rejected.
LEMMA ConfirmedIsOk ==
  ASSUME TypeInv, BootInv, KeepInv, DecideConfirmed
  PROVE  /\ ctrl = LoadOrDefault(meta) /\ ctrl \in Records
         /\ ctrl.confirmed # None => SlotOk(flash, ctrl, ctrl.confirmed)
<1>1. ctrl = LoadOrDefault(meta) /\ ctrl \in Records
  BY DEF DecideConfirmed, BootInv, TypeInv, TypeOK
<1>2. ProvedIn(flash, ctrl) BY <1>1, LoadProved DEF KeepInv
<1> QED BY <1>1, <1>2, SlotOkIsIntact DEF ProvedIn, Records, SlotIds

LEMMA DecideConfirmedKeep ==
  ASSUME TypeInv, BootInv, KeepInv, DecideConfirmed
  PROVE  KeepInv'
<1> USE DEF KeepInv, MetaPlaces
<1>1. /\ UNCHANGED <<meta, flash, committed>> /\ ctrl = LoadOrDefault(meta) /\ ctrl \in Records
      /\ ctrl.pending = None
  BY DEF DecideConfirmed, history, BootInv, TypeInv, TypeOK
<1>2. CASE pc' = "poll" BY <1>1, <1>2 DEF Readable, ProvedIn
<1>3. ctrl.confirmed # None => SlotOk(flash, ctrl, ctrl.confirmed) BY ConfirmedIsOk
<1>4. CASE ctrl.confirmed # None /\ Jump(ctrl.confirmed)
  <2>1. meta = ctrl BY <1>1, <1>4 DEF LoadOrDefault, InitDefault
  <2> QED BY <1>1, <1>4, <2>1 DEF Jump, Readable, ProvedIn
<1> QED BY <1>2, <1>3, <1>4 DEF DecideConfirmed, NothingToBoot

LEMMA MetaStepKeep ==
  ASSUME SoundFlash, TypeInv, AgreeInv, KeepInv, MetaErase \/ MetaWrite
  PROVE  KeepInv'
<1> USE DEF KeepInv, MetaPlaces
<1>1. /\ flash' = flash /\ pc \in MetaPlaces /\ job \in MetaJobs /\ job.record \in Records
      /\ ProvedIn(flash, job.record) /\ Readable(job.record)
  BY UnreadableAssumption DEF MetaErase, MetaWrite, TypeInv, TypeOK, MetaJobs, Readable
<1>2. CASE meta' = Unreadable /\ pc' = "metaWrite" /\ UNCHANGED job
  BY <1>1, <1>2 DEF Readable, ProvedIn
<1>3. ASSUME NEW ok \in BOOLEAN, AfterMetaWrite(ok), ok => meta' = job.record /\ committed' = job.record,
             ~ok => meta' = Unreadable
      PROVE  KeepInv'
  <2>1. Readable(meta') => meta' = job.record /\ committed' = meta' BY <1>3 DEF Readable
  <2>2. CASE job.call = "spendAttempt" /\ ok
    <3>1. pc' = "app" /\ running' = job.record.pending /\ meta' = job.record
      BY <1>3, <2>2 DEF AfterMetaWrite, AfterSpendAttempt, Jump
    <3> QED BY <1>1, <2>1, <3>1 DEF Readable, ProvedIn
  <2>3. CASE job.call = "spendAttempt" /\ ~ok
    <3>1. StartMetaWrite(MarkBad(meta', ctrl.pending), "rejectPending") /\ ctrl.pending \in Slots
      BY <1>1, <1>3, <2>3 DEF AfterMetaWrite, AfterSpendAttempt, TypeInv, JobInv
    <3>2. meta' = Unreadable /\ Unreadable \in Records \cup {Unreadable}
          /\ LoadOrDefault(Unreadable) = InitDefault /\ ~Readable(Unreadable)
      BY <1>3, <2>3 DEF LoadOrDefault, Readable
    <3>3. InitDefault.confirmed # ctrl.pending /\ InitDefault.pending = None
      BY <3>1 DEF InitDefault, Slots, None
    <3>4. ProvedIn(flash, MarkBad(Unreadable, ctrl.pending))
      BY <3>1, <3>2, <3>3, MarkBadProved
    <3>5. MarkBad(Unreadable, ctrl.pending).pending = None
      BY <3>1, <3>2, <3>3, MarkBadFields DEF ClearedIf
    <3> QED BY <1>1, <3>1, <3>2, <3>4, <3>5 DEF StartMetaWrite, Readable, ProvedIn
  <2>4. CASE job.call = "rejectPending" /\ AfterRejectPending
    <3>1. LoadOrDefault(meta').pending = None
      BY <1>1, <2>1, <2>4 DEF LoadOrDefault, InitDefault
    <3> QED BY <1>1, <2>1, <2>4, <3>1 DEF AfterRejectPending, Readable, ProvedIn, LoadOrDefault
  <2>5. ASSUME pc' \in {"poll", "appMain"} PROVE KeepInv'
    BY <1>1, <2>1, <2>5 DEF Readable, ProvedIn
  <2> QED BY <1>1, <1>3, <2>2, <2>3, <2>4, <2>5
          DEF AfterMetaWrite, AfterSetPending, AfterConfirm
<1> QED BY <1>2, <1>3 DEF MetaErase, MetaWrite, SoundFlash

\* A frame asks for a record that keeps the confirmed slot: END installs in the other one.
LEMMA FrameKeep ==
  ASSUME TypeInv, AgreeInv, KeepInv, Frame
  PROVE  KeepInv'
<1> USE DEF KeepInv, MetaPlaces
<1>1. /\ pc = "poll" /\ UNCHANGED <<meta, flash, running, committed>>
      /\ pc' \in {"poll", "decide", "slotErase", "slotWrite", "metaErase"}
      /\ meta \in Records \cup {Unreadable}
  BY FrameEffect DEF TypeInv, TypeOK
<1>2. CASE pc' # "metaErase" BY <1>1, <1>2 DEF Readable, ProvedIn
<1>3. CASE pc' = "metaErase"
  <2> DEFINE r == LoadOrDefault(meta)
             p == SetPending(meta, target, session.version, session.size, session.crc, MaxAttempts)
  <2>1. job'.call = "setPending" /\ job'.record = p /\ state = "WAIT_END" BY <1>3, FrameEffect
  <2>2. target \in Slots /\ r.confirmed # target /\ r \in Records
    BY <2>1, LoadRecord, <1>1 DEF TypeInv, JobInv, AgreeInv, Uploading, LoadOrDefault, InitDefault, Slots, None
  <2>3. p.confirmed = r.confirmed /\ \A t \in Slots \ {target} : p.slots[t] = r.slots[t]
    BY <2>2 DEF SetPending, Records
  <2>4. ProvedIn(flash, r) BY LoadProved
  <2> HIDE DEF r, p
  <2>5. ProvedIn(flash, p)
    <3>1. CASE r.confirmed = None BY <2>3, <3>1 DEF ProvedIn
    <3>2. CASE r.confirmed \in Slots BY <2>2, <2>3, <2>4, <3>2, ProvedDepends
    <3> QED BY <2>2, <3>1, <3>2 DEF Records, SlotIds
  <2> QED BY <1>1, <1>3, <2>1, <2>5 DEF Readable, ProvedIn
<1> QED BY <1>2, <1>3

\* Erasing and programming, finished or cut, stay out of the confirmed slot.
LEMMA SlotStepKeep ==
  ASSUME TypeInv, AgreeInv, KeepInv, SlotErase \/ SlotWrite \/ PowerCut
  PROVE  KeepInv'
<1> USE DEF KeepInv, MetaPlaces
<1>1. committed' = committed /\ pc' \in {"poll", "off"} /\ meta' \in {meta, Unreadable}
  BY DEF SlotErase, SlotWrite, PowerCut, Stopped, history
<1>2. ASSUME Readable(meta') PROVE ProvedIn(flash', meta')
  <2>1. meta' = meta /\ Readable(meta) BY <1>1, <1>2 DEF Readable
  <2>2. meta.confirmed \in Slots => flash'[meta.confirmed] = flash[meta.confirmed]
    <3> SUFFICES ASSUME meta.confirmed \in Slots PROVE flash'[meta.confirmed] = flash[meta.confirmed]
      OBVIOUS
    <3>1. [Next]_vars BY DEF Next, DeviceStep
    <3> QED BY <2>1, <3>1, UploadStep
  <2>3. meta.confirmed \in SlotIds BY <2>1 DEF Readable, TypeInv, TypeOK, Records
  <2>4. CASE meta.confirmed = None BY <2>1, <2>4 DEF ProvedIn
  <2>5. CASE meta.confirmed \in Slots BY <2>1, <2>2, <2>5, ProvedDepends
  <2> QED BY <2>3, <2>4, <2>5 DEF SlotIds
<1> QED BY <1>1, <1>2 DEF Readable

\* The image that confirms itself is the one that runs, intact and able to confirm.
LEMMA AppConfirmKeep ==
  ASSUME TypeInv, BootInv, KeepInv, AppConfirm
  PROVE  KeepInv'
<1> USE DEF KeepInv, MetaPlaces
<1>1. /\ UNCHANGED <<meta, flash, running, committed>> /\ pc = "app"
      /\ Readable(meta) /\ meta \in Records /\ committed = meta
      /\ IntactIn(flash, meta, running) /\ meta.pending \in {None, running}
      /\ Content(flash, running, meta.slots[running].size) \notin Broken
  BY DEF AppConfirm, AppImage, history, BootInv, TypeInv, TypeOK, Readable
<1>2. CASE ConfirmRejects(meta) BY <1>1, <1>2 DEF AppConfirm, Readable, ProvedIn
<1>3. CASE ~ConfirmRejects(meta)
  <2>1. StartMetaWrite(Confirm(meta), "confirm") BY <1>3 DEF AppConfirm
  <2>2. meta.pending = running /\ running \in Slots BY <1>1, <1>3 DEF ConfirmRejects, Slots, None
  <2>3. /\ Confirm(meta).confirmed = running
        /\ Confirm(meta).slots[running].size = meta.slots[running].size
        /\ Confirm(meta).slots[running].crc = meta.slots[running].crc
    <3>1. meta.slots[running] \in SlotInfo BY <1>1, <2>2 DEF Records
    <3>2. /\ Confirm(meta).confirmed = running
          /\ Confirm(meta).slots[running] = [meta.slots[running] EXCEPT !.state = "CONFIRMED", !.attempts = 0]
      BY <1>1, <2>2 DEF Confirm, Records
    <3> QED BY <3>1, <3>2 DEF SlotInfo
  <2>4. IntactIn(flash, Confirm(meta), running) BY <1>1, <2>3, IntactDepends
  <2>5. ProvedIn(flash, Confirm(meta)) BY <1>1, <2>3, <2>4 DEF ProvedIn
  <2> QED BY <1>1, <2>1, <2>5 DEF StartMetaWrite, Readable, ProvedIn
<1> QED BY <1>2, <1>3

LEMMA KeepNext == SoundFlash /\ TypeInv /\ AgreeInv /\ BootInv /\ KeepInv /\ [Next]_vars => KeepInv'
<1> SUFFICES ASSUME SoundFlash, TypeInv, AgreeInv, BootInv, KeepInv, [Next]_vars PROVE KeepInv'
  OBVIOUS
<1>1. CASE PowerOn \/ Reset BY <1>1 DEF PowerOn, Reset, Stopped, history, KeepInv, MetaPlaces, Readable, ProvedIn
<1>2. CASE BitRot BY <1>2 DEF BitRot, SoundFlash
<1>3. CASE UNCHANGED vars BY <1>3 DEF vars, ram, history, KeepInv, MetaPlaces, Readable, ProvedIn
<1> QED BY <1>1, <1>2, <1>3, DecidePendingKeep, DecideConfirmedKeep, MetaStepKeep, FrameKeep,
           SlotStepKeep, AppConfirmKeep
        DEF Next, DeviceStep

LEMMA KeepInvariant ==
  ASSUME SoundFlash
  PROVE  Spec => [](TypeInv /\ AgreeInv /\ BootInv /\ KeepInv)
<1> DEFINE Inv == TypeInv /\ AgreeInv /\ BootInv /\ KeepInv
<1>1. Init => Inv
  BY TypeInit, AgreeInit DEF Init, BootInv, KeepInv, MetaPlaces, Readable
<1>2. Inv /\ [Next]_vars => Inv' BY TypeNext, AgreeNext, BootNext, KeepNext
<1> HIDE DEF Inv
<1>3. Spec => []Inv BY <1>1, <1>2, PTL DEF Spec
<1> QED BY <1>3, PTL DEF Inv

\* The fallback is always there: power may fail at any point and writes may fail, and
\* still the slot that a readable record calls confirmed holds the recorded image.  With
\* a failing erase this is not so: a rejected image can be confirmed (the run v_confirm).
THEOREM ConfirmedStaysIntact ==
  ASSUME SoundFlash
  PROVE  Spec => []ConfirmedIntact
<1>1. KeepInv => ConfirmedIntact
  BY DEF KeepInv, ProvedIn, IntactIn, Intact, ConfirmedIntact
<1> QED BY <1>1, KeepInvariant, PTL

\* An image that crashes before its own confirm call never becomes the confirmed one,
\* whatever the power does (bld_confirm.c:59-89 trusts the pending field of the record,
\* and the boot decision makes that the running image).
THEOREM ConfirmedIsProved ==
  ASSUME SoundFlash
  PROVE  Spec => []ConfirmedProved
<1>1. KeepInv => ConfirmedProved BY DEF KeepInv, ProvedIn, ConfirmedProved
<1> QED BY <1>1, KeepInvariant, PTL

-----------------------------------------------------------------------------
(* A board on which nothing fails, with any frames and any resets between  *)
(* flash operations: an accepted image is never lost.                      *)

NothingFails == Faults = {}

NoBootErr(msgs) == \A i \in 1..Len(msgs) : msgs[i] # "BOOT_ERR"

\* The record about to replace one with a confirmed image has a confirmed image; only a
\* board that never stored a record has none; BOOT_ERR leaves the engine polling.
AcceptInv ==
  /\ pc = "metaErase" /\ Readable(meta) /\ meta.confirmed # None => job.record.confirmed # None
  /\ pc # "metaWrite" /\ ~Readable(meta) => committed = InitDefault
  /\ pc # "poll" \/ committed.confirmed # None => NoBootErr(sent)

LEMMA QuietOps ==
  ASSUME TypeOK, NEW st \in Statuses \ {"BOOT_ERR"}
  PROVE  NoBootErr(<<>>) /\ NoBootErr(<<st>>) /\ (NoBootErr(sent) => NoBootErr(Append(sent, st)))
<1>1. sent \in Seq(Statuses) BY DEF TypeOK
<1> QED BY <1>1 DEF NoBootErr

LEMMA FrameQuiet ==
  ASSUME TypeOK, Frame
  PROVE  NoBootErr(sent')
<1>1. sent' \in {<<>>, <<"OK">>, <<"META">>, <<"BAD_FRAME">>, <<"BAD_CRC">>, <<"BAD_STATE">>,
                 <<"SEQ_ERR">>, <<"TOO_LARGE">>, <<"FLASH_ERR">>}
  <2>1. CASE BadFrame \/ CmdAbort \/ CmdMeta \/ CmdStart \/ CmdQuery \/ CmdBoot \/ CmdBadState
    BY <2>1 DEF BadFrame, CmdAbort, CmdMeta, CmdStart, CmdQuery, CmdBoot, CmdBadState, Refused, ReplyFirst
  <2>2. CASE CmdEnd BY <2>2 DEF CmdEnd, EndFails, ReplyFirst
  <2>3. CASE \E h \in Headers : Header(h) BY <2>3 DEF Header, Refused, ReplyFirst
  <2>4. CASE \E d \in Payloads, seq \in {session.seq, session.seq + 1} : Data(seq, d)
    BY <2>4 DEF Data, Refused, DataFails, ReplyFirst
  <2> QED BY <2>1, <2>2, <2>3, <2>4 DEF Frame
<1>2. \A st \in Statuses \ {"BOOT_ERR"} : NoBootErr(<<st>>) BY QuietOps
<1>3. NoBootErr(<<>>) BY DEF NoBootErr
<1> QED BY <1>1, <1>2, <1>3 DEF Statuses

\* What a step of the boot decision asks for, or says.
LEMMA DecideAccept ==
  ASSUME TypeInv, AgreeInv, BootInv, KeepInv, AcceptInv, DecidePending \/ DecideConfirmed
  PROVE  AcceptInv'
<1> USE DEF AcceptInv
<1>1. UNCHANGED <<meta, committed>> /\ pc \in {"decide", "confirmed"} /\ NoBootErr(sent)
  BY DEF DecidePending, DecideConfirmed, history
<1>2. CASE DecidePending
  <2>1. CASE NothingToBoot(<<>>) /\ ~Readable(meta)
    BY <1>1, <2>1 DEF NothingToBoot, InitDefault
  <2>2. CASE pc' = "confirmed" /\ UNCHANGED sent BY <1>1, <2>2
  <2>3. ASSUME NEW r, NEW c, StartMetaWrite(r, c), UNCHANGED sent, r.confirmed = meta.confirmed
        PROVE  AcceptInv'
    BY <1>1, <2>3 DEF StartMetaWrite
  <2>4. ASSUME Readable(meta), meta.pending # None
        PROVE  /\ MarkBad(meta, meta.pending).confirmed = meta.confirmed
               /\ ~DecrementRejects(meta) => Decrement(meta).confirmed = meta.confirmed
    <3>1. meta \in Records /\ LoadOrDefault(meta) = meta /\ Agrees(meta)
      BY <2>4 DEF TypeInv, TypeOK, AgreeInv, LoadOrDefault, Readable
    <3>2. meta.pending \in Slots /\ meta.confirmed # meta.pending BY <2>4, <3>1, PendingNotConfirmed
    <3>3. MarkBad(meta, meta.pending).confirmed = meta.confirmed
      BY <3>1, <3>2, MarkBadProved DEF KeepInv
    <3> QED BY <3>1, <3>3, DecrementFields
  <2> QED BY <1>2, <2>1, <2>2, <2>3, <2>4 DEF DecidePending, LoadOrDefault
<1>3. CASE DecideConfirmed
  <2>1. CASE ctrl.confirmed = None /\ NothingToBoot(<<"BOOT_ERR">>)
    <3>1. committed.confirmed = None
      BY <1>1, <1>3, <2>1, ConfirmedIsOk DEF KeepInv, LoadOrDefault, DecideConfirmed, InitDefault
    <3> QED BY <1>1, <2>1, <3>1 DEF NothingToBoot
  <2>2. CASE Jump(ctrl.confirmed)
    BY <1>1, <1>3, <2>2, QuietOps DEF Jump, Reply, Statuses, TypeInv, DecideConfirmed
  <2> QED BY <1>3, <2>1, <2>2, ConfirmedIsOk DEF DecideConfirmed
<1> QED BY <1>2, <1>3

LEMMA MetaStepAccept ==
  ASSUME NothingFails, TypeInv, AgreeInv, KeepInv, AcceptInv, MetaErase \/ MetaWrite
  PROVE  AcceptInv'
<1> USE DEF AcceptInv
<1>1. pc \in MetaPlaces /\ NoBootErr(sent) BY DEF MetaErase, MetaWrite, MetaPlaces
<1>2. CASE MetaErase
  <2>1. pc' = "metaWrite" /\ UNCHANGED sent BY <1>2 DEF MetaErase, NothingFails
  <2> QED BY <1>1, <2>1
<1>3. CASE MetaWrite
  <2>1. /\ meta' = job.record /\ committed' = job.record /\ AfterMetaWrite(TRUE)
        /\ job.record \in Records
    BY <1>3 DEF MetaWrite, NothingFails, TypeInv, TypeOK, MetaJobs
  <2>2. Readable(meta') BY <2>1, UnreadableAssumption DEF Readable
  <2>3. pc' # "metaErase" /\ (sent' = sent \/ sent' = Append(sent, "OK"))
    BY <1>1, <2>1 DEF AfterMetaWrite, AfterSpendAttempt, Jump, AfterRejectPending, AfterSetPending,
         AfterConfirm, Reply, KeepInv
  <2>4. NoBootErr(sent') BY <1>1, <2>3, QuietOps DEF Statuses, TypeInv
  <2> QED BY <2>2, <2>3, <2>4
<1> QED BY <1>2, <1>3

LEMMA FrameAccept ==
  ASSUME TypeInv, AcceptInv, Frame
  PROVE  AcceptInv'
<1>1. UNCHANGED <<meta, committed>> /\ pc = "poll" /\ NoBootErr(sent') BY FrameEffect, FrameQuiet DEF TypeInv
<1>2. pc' = "metaErase" /\ Readable(meta) => job'.record.confirmed = meta.confirmed
  BY FrameEffect DEF SetPending, LoadOrDefault
<1> QED BY <1>1, <1>2 DEF AcceptInv, Readable

LEMMA OtherAccept ==
  ASSUME NothingFails, TypeInv, AcceptInv,
         SlotErase \/ SlotWrite \/ AppConfirm \/ PowerOn \/ Reset \/ PowerCut \/ BitRot \/ UNCHANGED vars
  PROVE  AcceptInv'
<1> USE DEF AcceptInv, Readable
<1>1. CASE SlotErase \/ SlotWrite
  <2>1. UNCHANGED <<meta, committed>> /\ pc # "poll" /\ pc # "metaWrite" /\ pc' = "poll"
    BY <1>1 DEF SlotErase, SlotWrite, history
  <2>2. NoBootErr(sent')
    BY <1>1, <2>1, QuietOps DEF SlotErase, SlotWrite, Reply, TypeInv, Statuses
  <2> QED BY <2>1, <2>2
<1>2. CASE AppConfirm
  <2>1. ~ConfirmRejects(meta) => Confirm(meta).confirmed # None
    BY DEF ConfirmRejects, Confirm, Slots, None, Readable, TypeInv, TypeOK, Records
  <2> QED BY <1>2, <2>1 DEF AppConfirm, StartMetaWrite, history
<1>3. CASE PowerOn \/ Reset
  <2>1. UNCHANGED <<meta, committed>> /\ sent' = <<>> /\ pc \notin MetaPlaces /\ pc' # "metaErase"
    BY <1>3 DEF PowerOn, Reset, Stopped, history, InFlashOp, MetaPlaces
  <2> QED BY <2>1 DEF NoBootErr, MetaPlaces
<1>4. CASE PowerCut \/ BitRot BY <1>4 DEF PowerCut, BitRot, NothingFails
<1>5. CASE UNCHANGED vars BY <1>5 DEF vars, history
<1> QED BY <1>1, <1>2, <1>3, <1>4, <1>5

LEMMA AcceptInvariant ==
  ASSUME NothingFails
  PROVE  Spec => [](TypeInv /\ AgreeInv /\ BootInv /\ KeepInv /\ AcceptInv)
<1> DEFINE Keep == TypeInv /\ AgreeInv /\ BootInv /\ KeepInv
<1>1. SoundFlash BY DEF SoundFlash, NothingFails
<1>2. Init => AcceptInv BY DEF Init, AcceptInv, NoBootErr
<1>3. Keep /\ AcceptInv /\ [Next]_vars => AcceptInv'
  BY DecideAccept, MetaStepAccept, FrameAccept, OtherAccept DEF Next, DeviceStep
<1>4. Spec => []Keep BY <1>1, KeepInvariant
<1> HIDE DEF Keep
<1>5. Spec => [](Keep /\ AcceptInv) BY <1>2, <1>3, <1>4, PTL DEF Spec
<1> QED BY <1>5, PTL DEF Keep

\* On a board whose flash works and keeps its power, BOOT_ERR means that the last record
\* names no intact accepted image (bld_engine.h:77-78), whatever was uploaded and rejected.
THEOREM BootErrMeansNoImage ==
  ASSUME NothingFails
  PROVE  Spec => []BootErrOnlyWithoutImage
<1>1. AcceptInv => BootErrOnlyWithoutImage BY DEF AcceptInv, BootErrOnlyWithoutImage, NoBootErr
<1> QED BY <1>1, AcceptInvariant, PTL

\* A step never leaves the device without the accepted image it had.
LEMMA AcceptStep ==
  ASSUME NothingFails, TypeInv, AgreeInv, BootInv, KeepInv, AcceptInv, [Next]_vars,
         Readable(Stored), Stored.confirmed # None
  PROVE  Readable(Stored') /\ Stored'.confirmed # None
<1>1. CASE MetaErase
  <2>1. pc = "metaErase" /\ pc' = "metaWrite" /\ job' = job /\ job.record \in Records
    BY <1>1 DEF MetaErase, NothingFails, TypeInv, TypeOK, MetaJobs
  <2> QED BY <2>1, UnreadableAssumption DEF Stored, AcceptInv, Readable
<1>2. CASE MetaWrite
  <2>1. pc = "metaWrite" /\ meta' = job.record BY <1>2 DEF MetaWrite, NothingFails
  <2>2. pc' # "metaWrite"
    BY <1>2 DEF MetaWrite, NothingFails, AfterMetaWrite, AfterSpendAttempt, Jump, AfterRejectPending,
         AfterRejectConfirmed, NothingToBoot, AfterSetPending, AfterConfirm
  <2> QED BY <2>1, <2>2 DEF Stored, Readable
<1>3. CASE UNCHANGED vars BY <1>3 DEF vars, Stored, Readable
<1>4. CASE ~(MetaErase \/ MetaWrite \/ UNCHANGED vars)
  <2>1. meta' = meta /\ pc # "metaWrite" /\ pc' # "metaWrite"
    <3>1. CASE DecidePending \/ DecideConfirmed
      BY <3>1 DEF DecidePending, DecideConfirmed, NothingToBoot, Jump, StartMetaWrite
    <3>2. CASE Frame BY <3>2, FrameEffect
    <3>3. CASE SlotErase \/ SlotWrite \/ AppConfirm
      BY <3>3 DEF SlotErase, SlotWrite, AppConfirm, StartMetaWrite
    <3>4. CASE PowerOn \/ Reset BY <3>4 DEF PowerOn, Reset, Stopped, InFlashOp
    <3>5. CASE PowerCut \/ BitRot BY <3>5 DEF PowerCut, BitRot, NothingFails
    <3> QED BY <1>4, <3>1, <3>2, <3>3, <3>4, <3>5 DEF Next, DeviceStep
  <2> QED BY <2>1 DEF Stored, Readable
<1> QED BY <1>1, <1>2, <1>3, <1>4

\* Once an image is accepted, every later record has an accepted image: installing,
\* trying and rejecting images never takes the fallback with it (bld_meta.c:303-344).
THEOREM AcceptedIsKept ==
  ASSUME NothingFails
  PROVE  Spec => AcceptanceKept
<1> DEFINE Inv == TypeInv /\ AgreeInv /\ BootInv /\ KeepInv /\ AcceptInv
<1>1. Inv /\ [Next]_vars =>
        [Readable(Stored) /\ Stored.confirmed # None => Readable(Stored') /\ Stored'.confirmed # None]_vars
  BY AcceptStep
<1>2. Spec => []Inv BY AcceptInvariant
<1> HIDE DEF Inv
<1> QED BY <1>1, <1>2, PTL DEF Spec, AcceptanceKept
=============================================================================
