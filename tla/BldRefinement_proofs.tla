------------------------ MODULE BldRefinement_proofs ------------------------
(***************************************************************************)
(* The bootloader implements the promise of ABUpdate, for every number of  *)
(* cells, every set of images and frames and every CRC function, on a      *)
(* flash that erases and does not decay: power may fail inside every       *)
(* operation and program operations may fail.                              *)
(***************************************************************************)
EXTENDS BldRefinement, BldSlots_proofs

-----------------------------------------------------------------------------
(* What the mapping needs to know of a metadata write in progress.         *)

\* The slots of q and r hold the same images.
SameImages(q, r) ==
  \A s \in Slots : q.slots[s].size = r.slots[s].size /\ q.slots[s].crc = r.slots[s].crc

OnTrial(r) == r.pending # None => r.slots[r.pending].crc # ZeroCrc

\* How the record of a write that still has to erase the page differs from the stored one.
SpendsOne(m, r) ==
  /\ Readable(m) /\ SameImages(m, r)
  /\ r.confirmed = m.confirmed /\ r.pending = m.pending /\ r.pending \in Slots
  /\ m.slots[m.pending].attempts = r.slots[m.pending].attempts + 1

RejectsTrial(m, r) ==
  /\ SameImages(LoadOrDefault(m), r)
  /\ r.confirmed = LoadOrDefault(m).confirmed /\ r.pending = None

Installs(m, r) ==
  /\ r.confirmed = LoadOrDefault(m).confirmed
  /\ r.confirmed # None => r.slots[r.confirmed].crc = LoadOrDefault(m).slots[r.confirmed].crc
  /\ r.pending \in Slots /\ r.slots[r.pending].attempts = MaxAttempts

Confirms(m, r) ==
  /\ Readable(m) /\ SameImages(m, r)
  /\ m.pending = running /\ r.confirmed = running /\ r.pending = None

RefInv ==
  /\ running # None => InApp \/ (pc \in MetaPlaces /\ job.call = "confirm")
  /\ Readable(meta) => OnTrial(meta)
  /\ pc \in MetaPlaces => OnTrial(job.record)
  /\ pc \in MetaPlaces /\ job.call = "confirm" =>
       /\ running \in Slots /\ IntactIn(flash, job.record, running)
       /\ committed.slots[running].size = job.record.slots[running].size
  /\ pc = "metaErase" =>
       /\ job.call = "spendAttempt" => SpendsOne(meta, job.record)
       /\ job.call = "rejectPending" => RejectsTrial(meta, job.record)
       /\ job.call = "setPending" => Installs(meta, job.record)
       /\ job.call = "confirm" => Confirms(meta, job.record)

LEMMA DecidePendingRef ==
  ASSUME TypeInv, AgreeInv, RefInv, DecidePending
  PROVE  RefInv'
<1> USE DEF RefInv, MetaPlaces, InApp
<1>1. /\ UNCHANGED <<meta, flash, running, committed>> /\ pc = "decide" /\ running = None
      /\ ctrl' = LoadOrDefault(meta) /\ meta \in Records \cup {Unreadable}
  BY DEF DecidePending, history, TypeInv, TypeOK
<1>2. CASE pc' \in {"poll", "confirmed"} BY <1>1, <1>2 DEF Readable, OnTrial
<1>3. ASSUME NEW r, NEW c \in {"spendAttempt", "rejectPending"}, StartMetaWrite(r, c), OnTrial(r),
             c = "spendAttempt" => SpendsOne(meta, r), c = "rejectPending" => RejectsTrial(meta, r)
      PROVE  RefInv'
  BY <1>1, <1>3 DEF StartMetaWrite, Readable, OnTrial, SpendsOne, RejectsTrial, SameImages, LoadOrDefault
<1>4. ASSUME Readable(meta), meta.pending # None
      PROVE  /\ meta \in Records /\ LoadOrDefault(meta) = meta /\ meta.pending \in Slots
             /\ meta.confirmed # meta.pending
  BY <1>1, <1>4, PendingNotConfirmed DEF Readable, LoadOrDefault, AgreeInv
<1>5. ASSUME Readable(meta), meta.pending # None
      PROVE  LET b == MarkBad(meta, meta.pending) IN RejectsTrial(meta, b) /\ OnTrial(b)
  BY <1>4, <1>5, MarkBadFields DEF RejectsTrial, SameImages, OnTrial, ClearedIf, MovedOff
<1>6. ASSUME Readable(meta), meta.pending # None, ~DecrementRejects(meta),
             meta.slots[meta.pending].attempts # 0
      PROVE  LET d == Decrement(meta) IN SpendsOne(meta, d) /\ OnTrial(d)
  <2> DEFINE d == Decrement(meta)
  <2>1. /\ d.pending = meta.pending /\ d.confirmed = meta.confirmed /\ SameImages(meta, d)
        /\ d.slots[meta.pending].attempts = OneLess(meta.slots[meta.pending].attempts)
    BY <1>4, <1>6, DecrementFields DEF SameImages
  <2>2. meta.slots[meta.pending].attempts \in Nat
    BY <1>4, <1>6, MetaAssumption DEF Records, SlotInfo
  <2> HIDE DEF d
  <2>3. meta.slots[meta.pending].attempts = d.slots[meta.pending].attempts + 1
    BY <1>6, <2>1, <2>2 DEF OneLess
  <2> QED BY <1>4, <1>6, <2>1, <2>3 DEF SpendsOne, OnTrial, SameImages, d
<1>7. CASE /\ Readable(meta) /\ meta.pending # None
           /\ \/ StartMetaWrite(MarkBad(meta, meta.pending), "rejectPending")
              \/ /\ ~DecrementRejects(meta) /\ meta.slots[meta.pending].attempts # 0
                 /\ StartMetaWrite(Decrement(meta), "spendAttempt")
  BY <1>3, <1>5, <1>6, <1>7
<1>8. Readable(meta) => ctrl' = meta BY <1>1 DEF LoadOrDefault
<1> QED BY <1>2, <1>7, <1>8 DEF DecidePending, NothingToBoot

LEMMA DecideConfirmedRef ==
  ASSUME TypeInv, BootInv, KeepInv, RefInv, DecideConfirmed
  PROVE  RefInv'
<1>1. UNCHANGED <<meta, committed>> /\ pc' \in {"poll", "app"} /\ (running' = running \/ pc' = "app")
      /\ running = None
  BY ConfirmedIsOk DEF DecideConfirmed, history, NothingToBoot, Jump, RefInv, InApp, MetaPlaces
<1> QED BY <1>1 DEF RefInv, InApp, MetaPlaces, Readable, OnTrial

LEMMA MetaStepRef ==
  ASSUME SoundFlash, TypeInv, KeepInv, RefInv, MetaErase \/ MetaWrite
  PROVE  RefInv'
<1> USE DEF RefInv, MetaPlaces, InApp
<1>1. /\ pc \in MetaPlaces /\ flash' = flash /\ job.record \in Records /\ Readable(job.record)
  BY UnreadableAssumption DEF MetaErase, MetaWrite, TypeInv, TypeOK, MetaJobs, Readable
<1>2. CASE meta' = Unreadable /\ pc' = "metaWrite" /\ UNCHANGED <<job, running, committed>>
  BY <1>1, <1>2 DEF Readable, OnTrial
<1>3. ASSUME NEW ok \in BOOLEAN, AfterMetaWrite(ok), ok => meta' = job.record,
             ~ok => meta' = Unreadable /\ committed' = committed
      PROVE  RefInv'
  <2>1. Readable(meta') => OnTrial(meta') BY <1>1, <1>3 DEF Readable
  <2>2. CASE job.call = "spendAttempt" /\ ok
    <3>1. pc' = "app" BY <1>3, <2>2 DEF AfterMetaWrite, AfterSpendAttempt, Jump
    <3> QED BY <2>1, <3>1 DEF Readable, OnTrial
  <2>3. CASE job.call = "spendAttempt" /\ ~ok
    <3> DEFINE b == MarkBad(Unreadable, ctrl.pending)
    <3>1. /\ pc' = "metaErase" /\ job' = [record |-> b, call |-> "rejectPending"]
          /\ meta' = Unreadable /\ running' = running /\ running = None
      BY <1>1, <1>3, <2>3 DEF AfterMetaWrite, AfterSpendAttempt, StartMetaWrite
    <3>2. ctrl.pending \in Slots BY <1>1, <2>3 DEF TypeInv, JobInv
    <3>3. LoadOrDefault(Unreadable) = InitDefault BY DEF LoadOrDefault, Readable
    <3>4. /\ SameImages(InitDefault, b)
          /\ b.confirmed = MovedOff(InitDefault.confirmed, ctrl.pending,
                                    SelectableForConfirmed(InitDefault.slots[Other(ctrl.pending)]))
          /\ b.pending = ClearedIf(InitDefault.pending, ctrl.pending)
      BY <3>2, <3>3, MarkBadFields DEF SameImages
    <3>5. b.confirmed = None /\ b.pending = None
      BY <3>2, <3>4 DEF MovedOff, ClearedIf, InitDefault, Slots, None
    <3>6. RejectsTrial(Unreadable, b) /\ OnTrial(b)
      BY <3>3, <3>4, <3>5 DEF RejectsTrial, OnTrial, InitDefault
    <3> HIDE DEF b
    <3>7. job'.record = b /\ job'.call = "rejectPending" BY <3>1
    <3> QED BY <2>1, <3>1, <3>6, <3>7 DEF Readable, OnTrial, RejectsTrial, SameImages, LoadOrDefault
  <2>4. ASSUME pc' \in {"poll", "confirmed"}, running' = running, job.call # "confirm" PROVE RefInv'
    BY <1>1, <2>1, <2>4 DEF Readable, OnTrial
  <2>5. ASSUME pc' = "appMain" PROVE RefInv' BY <2>1, <2>5 DEF Readable, OnTrial
  <2> QED BY <1>3, <2>2, <2>3, <2>4, <2>5
          DEF AfterMetaWrite, AfterRejectPending, AfterRejectConfirmed, NothingToBoot, AfterSetPending,
              AfterConfirm
<1> QED BY <1>2, <1>3 DEF MetaErase, MetaWrite, SoundFlash

LEMMA FrameRef ==
  ASSUME TypeInv, AgreeInv, RefInv, Frame
  PROVE  RefInv'
<1> USE DEF RefInv, MetaPlaces, InApp
<1>1. /\ pc = "poll" /\ UNCHANGED <<meta, flash, running, committed>> /\ running = None
      /\ pc' \in {"poll", "decide", "slotErase", "slotWrite", "metaErase"}
      /\ meta \in Records \cup {Unreadable}
  BY FrameEffect DEF TypeInv, TypeOK
<1>2. CASE pc' # "metaErase" BY <1>1, <1>2 DEF Readable, OnTrial
<1>3. CASE pc' = "metaErase"
  <2> DEFINE r == LoadOrDefault(meta)
             p == SetPending(meta, target, session.version, session.size, session.crc, MaxAttempts)
  <2>1. /\ job'.call = "setPending" /\ job'.record = p /\ state = "WAIT_END"
        /\ session.crc # ZeroCrc
    BY <1>3, FrameEffect DEF SetPendingRejects
  <2>2. target \in Slots /\ r.confirmed # target /\ r \in Records
    BY <2>1, LoadRecord, <1>1 DEF TypeInv, JobInv, AgreeInv, Uploading, LoadOrDefault, InitDefault, Slots, None
  <2>3. /\ p.confirmed = r.confirmed /\ \A t \in Slots \ {target} : p.slots[t] = r.slots[t]
        /\ p.pending = target /\ p.slots[target].crc = session.crc
        /\ p.slots[target].attempts = MaxAttempts
    BY <2>2 DEF SetPending, Records
  <2>4. r.confirmed \in SlotIds BY <2>2 DEF Records
  <2>5. Installs(meta, p) /\ OnTrial(p)
    <3> HIDE DEF p
    <3> QED BY <2>1, <2>2, <2>3, <2>4 DEF Installs, OnTrial, SlotIds
  <2> HIDE DEF p, r
  <2> QED BY <1>1, <1>3, <2>1, <2>5 DEF Readable, OnTrial, Installs, LoadOrDefault
<1> QED BY <1>2, <1>3

LEMMA AppConfirmRef ==
  ASSUME TypeInv, BootInv, KeepInv, RefInv, AppConfirm
  PROVE  RefInv'
<1> USE DEF RefInv, MetaPlaces, InApp
<1>1. /\ UNCHANGED <<meta, flash, running, committed>> /\ pc = "app"
      /\ Readable(meta) /\ meta \in Records /\ committed = meta
      /\ IntactIn(flash, meta, running) /\ meta.pending \in {None, running}
  BY DEF AppConfirm, history, BootInv, KeepInv, TypeInv, TypeOK, Readable
<1>2. CASE ConfirmRejects(meta) BY <1>1, <1>2 DEF AppConfirm, Readable, OnTrial
<1>3. CASE ~ConfirmRejects(meta)
  <2> DEFINE c == Confirm(meta)
  <2>1. pc' = "metaErase" /\ job' = [record |-> c, call |-> "confirm"]
    BY <1>3 DEF AppConfirm, StartMetaWrite
  <2>2. meta.pending = running /\ running \in Slots BY <1>1, <1>3 DEF ConfirmRejects, Slots, None
  <2>3. c.confirmed = running /\ c.pending = None BY <1>1, <2>2 DEF Confirm, Records
  <2>4. SameImages(meta, c)
    <3>1. \A s \in Slots : meta.slots[s] \in SlotInfo BY <1>1 DEF Records
    <3>2. \A s \in Slots : c.slots[s] =
            IF s = meta.pending THEN [meta.slots[s] EXCEPT !.state = "CONFIRMED", !.attempts = 0]
                                ELSE Retired(meta.slots[s])
      BY <1>1 DEF Confirm, Records
    <3> HIDE DEF c
    <3> QED BY <3>1, <3>2 DEF SameImages, SlotInfo, Retired
  <2> HIDE DEF c
  <2>5. IntactIn(flash, c, running) BY <1>1, <2>2, <2>4, IntactDepends DEF SameImages
  <2>6. Confirms(meta, c) /\ OnTrial(c) /\ committed.slots[running].size = c.slots[running].size
    BY <1>1, <2>2, <2>3, <2>4 DEF Confirms, OnTrial, SameImages
  <2>7. job'.record = c /\ job'.call = "confirm" BY <2>1
  <2> QED BY <1>1, <2>1, <2>2, <2>5, <2>6, <2>7 DEF Readable, OnTrial, Confirms, SameImages
<1> QED BY <1>2, <1>3

LEMMA OtherRef ==
  ASSUME SoundFlash, TypeInv, AgreeInv, RefInv,
         SlotErase \/ SlotWrite \/ PowerOn \/ Reset \/ PowerCut \/ BitRot \/ UNCHANGED vars
  PROVE  RefInv'
<1> USE DEF RefInv, MetaPlaces, InApp
<1>1. CASE SlotErase \/ SlotWrite
  BY <1>1 DEF SlotErase, SlotWrite, history, Readable, OnTrial
<1>2. CASE PowerOn BY <1>2 DEF PowerOn, history, Readable, OnTrial
<1>3. CASE Reset \/ PowerCut BY <1>3 DEF Reset, PowerCut, Stopped, Readable, OnTrial
<1>4. CASE BitRot BY <1>4 DEF BitRot, SoundFlash
<1>5. CASE UNCHANGED vars
  <2>1. UNCHANGED <<meta, flash, pc, job, running, committed>> BY <1>5 DEF vars, history
  <2> QED BY <2>1 DEF Readable, OnTrial, SpendsOne, RejectsTrial, Installs, Confirms, SameImages,
             LoadOrDefault, InFlashOp
<1> QED BY <1>1, <1>2, <1>3, <1>4, <1>5

RefInvs == TypeInv /\ AgreeInv /\ BootInv /\ KeepInv /\ RefInv

LEMMA RefInvariant ==
  ASSUME SoundFlash
  PROVE  Spec => []RefInvs
<1> DEFINE Keep == TypeInv /\ AgreeInv /\ BootInv /\ KeepInv
<1>1. Init => RefInv BY DEF Init, RefInv, MetaPlaces, Readable
<1>2. Keep /\ RefInv /\ [Next]_vars => RefInv'
  BY DecidePendingRef, DecideConfirmedRef, MetaStepRef, FrameRef, AppConfirmRef, OtherRef
     DEF Next, DeviceStep
<1>3. Spec => []Keep BY KeepInvariant
<1> HIDE DEF Keep
<1>4. Spec => [](Keep /\ RefInv) BY <1>1, <1>2, <1>3, PTL DEF Spec
<1> QED BY <1>4, PTL DEF RefInvs, Keep

-----------------------------------------------------------------------------
(* Every step of the device is a step of ABUpdate or a stutter.            *)

\* While no write of a record is finished and nothing runs, the promise sees nothing.
LEMMA StutterIdle ==
  ASSUME UNCHANGED meta, pc # "metaWrite", pc' # "metaWrite", running = None, running' = None
  PROVE  UNCHANGED AB!vars
<1>1. Record' = Record BY DEF Record, Stored, LoadOrDefault, Readable
<1>2. RunningImage = ZeroCrc /\ RunningImage' = ZeroCrc BY DEF RunningImage
<1> QED BY <1>1, <1>2 DEF AB!vars, ImageIn, BudgetLeft

LEMMA StutterSame ==
  ASSUME Record' = Record, RunningImage' = RunningImage, BudgetLeft' = BudgetLeft
  PROVE  UNCHANGED AB!vars
  BY DEF AB!vars, ImageIn

LEMMA SameRunningImage ==
  ASSUME UNCHANGED <<flash, running>>,
         running # None => committed'.slots[running].size = committed.slots[running].size
  PROVE  RunningImage' = RunningImage
  BY DEF RunningImage, Content

\* A record that is lost is a promise forgotten, whether the board stops or goes on.
LEMMA ForgetSim ==
  ASSUME meta' = Unreadable, pc' # "metaWrite", RunningImage' \in {RunningImage, ZeroCrc}
  PROVE  AB!Forget
<1>1. Record' = InitDefault BY DEF Record, Stored, LoadOrDefault, Readable
<1>2. /\ ImageIn(Record.confirmed)' = ZeroCrc /\ ImageIn(Record.pending)' = ZeroCrc
      /\ BudgetLeft' = 0
  BY <1>1 DEF ImageIn, BudgetLeft, InitDefault
<1> QED BY <1>2 DEF AB!Forget

\* The accepted image runs only when no trial is left.
LEMMA DecideConfirmedSim ==
  ASSUME RefInvs, DecideConfirmed
  PROVE  AB!StartAccepted \/ UNCHANGED AB!vars
<1> USE DEF RefInvs
<1>1. /\ UNCHANGED <<meta, flash, committed>> /\ pc = "confirmed" /\ running = None
      /\ ctrl = LoadOrDefault(meta) /\ ctrl \in Records /\ ctrl.pending = None
  BY ConfirmedIsOk DEF DecideConfirmed, history, RefInv, InApp, MetaPlaces, KeepInv
<1>2. CASE ctrl.confirmed = None
  BY <1>1, <1>2, StutterIdle DEF DecideConfirmed, NothingToBoot
<1>3. CASE ctrl.confirmed # None
  <2> DEFINE s == ctrl.confirmed
  <2>1. SlotOk(flash, ctrl, s) /\ Jump(s) BY <1>3, ConfirmedIsOk DEF DecideConfirmed
  <2>2. s \in Slots BY <1>1, <1>3 DEF Records, SlotIds
  <2>3. IntactIn(flash, ctrl, s) BY <1>1, <2>1, <2>2, SlotOkIsIntact
  <2>4. meta = ctrl /\ Readable(meta) BY <1>1, <1>3 DEF LoadOrDefault, InitDefault
  <2>5. committed = ctrl BY <2>4 DEF KeepInv
  <2>6. pc' = "app" /\ running' = s BY <2>1 DEF Jump
  <2>7. Record = ctrl /\ Record' = ctrl BY <1>1, <2>4, <2>6 DEF Record, Stored, LoadOrDefault, Readable
  <2>8. RunningImage = ZeroCrc BY <1>1 DEF RunningImage
  <2>9. RunningImage' = ctrl.slots[s].crc /\ ctrl.slots[s].crc # ZeroCrc
    BY <1>1, <1>3, <2>3, <2>5, <2>6 DEF RunningImage, IntactIn, Content
  <2>10. UNCHANGED <<ImageIn(Record.confirmed), ImageIn(Record.pending), BudgetLeft>>
    BY <1>1, <2>6, <2>7 DEF ImageIn, BudgetLeft
  <2>11. ImageIn(Record.pending) = ZeroCrc /\ ImageIn(Record.confirmed) = ctrl.slots[s].crc
    BY <1>1, <1>3, <2>7 DEF ImageIn
  <2> QED BY <2>8, <2>9, <2>10, <2>11 DEF AB!StartAccepted
<1> QED BY <1>2, <1>3

\* The page is erased: the promise already sees the record that will be programmed.
LEMMA EraseSim ==
  ASSUME RefInvs, pc = "metaErase", meta' = Unreadable, pc' = "metaWrite",
         UNCHANGED <<flash, job, running, committed>>
  PROVE  AB!Install \/ AB!Reject \/ AB!Accept \/ UNCHANGED AB!vars
<1> USE DEF RefInvs
<1> DEFINE m == LoadOrDefault(meta)
           r == job.record
<1>1. /\ job \in MetaJobs /\ r \in Records /\ meta \in Records \cup {Unreadable} /\ m \in Records
      /\ job.call \in Calls
  BY LoadRecord DEF TypeInv, TypeOK, MetaJobs
<1>2. Record = m BY DEF Record, Stored
<1>3. Record' = r BY <1>1, UnreadableAssumption DEF Record, Stored, LoadOrDefault, Readable
<1>4. RunningImage' = RunningImage BY SameRunningImage
<1>5. job.call # "confirm" => RunningImage = ZeroCrc
  BY DEF RefInv, InApp, MetaPlaces, RunningImage
<1>6. OnTrial(r) /\ OnTrial(m)
  BY DEF RefInv, MetaPlaces, LoadOrDefault, InitDefault, OnTrial, Readable
<1>7. /\ m.pending \in SlotIds /\ r.pending \in SlotIds /\ m.confirmed \in SlotIds
      /\ r.confirmed \in SlotIds
  BY <1>1 DEF Records
<1> HIDE DEF m, r
<1>8. /\ ImageIn(Record.confirmed) = (IF m.confirmed = None THEN ZeroCrc ELSE m.slots[m.confirmed].crc)
      /\ ImageIn(Record.confirmed)' = (IF r.confirmed = None THEN ZeroCrc ELSE r.slots[r.confirmed].crc)
      /\ ImageIn(Record.pending) = (IF m.pending = None THEN ZeroCrc ELSE m.slots[m.pending].crc)
      /\ ImageIn(Record.pending)' = (IF r.pending = None THEN ZeroCrc ELSE r.slots[r.pending].crc)
      /\ BudgetLeft = (IF m.pending = None THEN 0 ELSE m.slots[m.pending].attempts + 0)
      /\ BudgetLeft' = (IF r.pending = None THEN 0
                        ELSE r.slots[r.pending].attempts + (IF job.call = "spendAttempt" THEN 1 ELSE 0))
  BY <1>2, <1>3 DEF ImageIn, BudgetLeft
<1>9. \A s \in Slots : m.slots[s].attempts \in Nat /\ r.slots[s].attempts \in Nat
                       /\ m.slots[s].crc \in Crcs /\ r.slots[s].crc \in Crcs
  BY <1>1, MetaAssumption DEF Records, SlotInfo
<1>10. CASE job.call = "spendAttempt"
  <2>1. SpendsOne(meta, r) /\ m = meta BY <1>10 DEF RefInv, r, m, SpendsOne, LoadOrDefault
  <2> QED BY <1>4, <1>7, <1>8, <1>9, <1>10, <2>1 DEF SpendsOne, SameImages, AB!vars, SlotIds, None, Slots
<1>11. CASE job.call = "rejectPending"
  <2>1. RejectsTrial(meta, r) BY <1>11 DEF RefInv, r
  <2>2. /\ m.confirmed = r.confirmed /\ r.pending = None
        /\ \A s \in Slots : m.slots[s].crc = r.slots[s].crc
    BY <2>1 DEF RejectsTrial, SameImages, m
  <2>3. UNCHANGED ImageIn(Record.confirmed) BY <1>7, <1>8, <2>2 DEF SlotIds
  <2>4. CASE m.pending = None BY <1>4, <1>8, <2>2, <2>3, <2>4 DEF AB!vars
  <2>5. CASE m.pending # None
    BY <1>4, <1>5, <1>6, <1>8, <1>11, <2>2, <2>3, <2>5 DEF AB!Reject, OnTrial
  <2> QED BY <2>4, <2>5
<1>12. CASE job.call = "setPending"
  <2>1. Installs(meta, r) BY <1>12 DEF RefInv, r
  <2>2. /\ m.confirmed = r.confirmed /\ r.pending \in Slots
        /\ r.confirmed # None => r.slots[r.confirmed].crc = m.slots[r.confirmed].crc
        /\ r.slots[r.pending].attempts = MaxAttempts
    BY <2>1 DEF Installs, m
  <2>3. UNCHANGED ImageIn(Record.confirmed) BY <1>8, <2>2
  <2>4. r.pending # None BY <2>2 DEF Slots, None
  <2>5. ImageIn(Record.pending)' \in Crcs \ {ZeroCrc} BY <1>6, <1>8, <1>9, <2>2, <2>4 DEF OnTrial
  <2>6. BudgetLeft' = MaxAttempts BY <1>8, <1>12, <2>2, <2>4, MetaAssumption
  <2> QED BY <1>4, <1>5, <1>12, <2>3, <2>5, <2>6 DEF AB!Install
<1>13. CASE job.call = "confirm"
  <2>1. Confirms(meta, r) /\ m = meta BY <1>13 DEF RefInv, r, m, Confirms, LoadOrDefault
  <2>2. /\ running \in Slots /\ IntactIn(flash, r, running)
        /\ committed.slots[running].size = r.slots[running].size
    BY <1>13 DEF RefInv, MetaPlaces, r
  <2>3. running # None BY <2>2 DEF Slots, None
  <2>4. RunningImage = r.slots[running].crc BY <2>2, <2>3 DEF RunningImage, IntactIn
  <2>5. m.pending = running /\ r.confirmed = running /\ r.pending = None
        /\ m.slots[running].crc = r.slots[running].crc
    BY <2>1, <2>2 DEF Confirms, SameImages
  <2> QED BY <1>4, <1>6, <1>8, <2>3, <2>4, <2>5 DEF AB!Accept, OnTrial
<1>14. job.call # "rejectConfirmed" BY DEF KeepInv, MetaPlaces
<1> QED BY <1>1, <1>10, <1>11, <1>12, <1>13, <1>14 DEF Calls

\* The record is programmed: a trial starts, or nothing is seen.
LEMMA WriteSim ==
  ASSUME RefInvs, pc = "metaWrite", meta' = job.record, committed' = job.record, flash' = flash,
         AfterMetaWrite(TRUE)
  PROVE  AB!StartTrial \/ UNCHANGED AB!vars
<1> USE DEF RefInvs
<1> DEFINE r == job.record
<1>1. r \in Records /\ Readable(r) /\ OnTrial(r)
  BY UnreadableAssumption DEF TypeInv, TypeOK, MetaJobs, Readable, RefInv, MetaPlaces
<1>2. pc' # "metaWrite"
  BY DEF AfterMetaWrite, AfterSpendAttempt, Jump, AfterRejectPending, AfterRejectConfirmed, NothingToBoot,
      AfterSetPending, AfterConfirm
<1>3. Record = r /\ Record' = r BY <1>1, <1>2 DEF Record, Stored, LoadOrDefault, Readable
<1>4. CASE job.call = "spendAttempt"
  <2>1. pc' = "app" /\ running' = r.pending BY <1>4 DEF AfterMetaWrite, AfterSpendAttempt, Jump
  <2>2. r.pending \in Slots /\ IntactIn(flash, r, r.pending) /\ running = None
    BY <1>4 DEF TypeInv, JobInv, BootInv, RefInv, MetaPlaces, InApp
  <2>3. r.pending # None BY <2>2 DEF Slots, None
  <2>4. RunningImage = ZeroCrc BY <2>2 DEF RunningImage
  <2>5. RunningImage' = r.slots[r.pending].crc BY <2>1, <2>2, <2>3 DEF RunningImage, IntactIn, Content
  <2>6. r.slots[r.pending].attempts \in Nat BY <1>1, <2>2, MetaAssumption DEF Records, SlotInfo
  <2> HIDE DEF r
  <2>7. UNCHANGED <<ImageIn(Record.confirmed), ImageIn(Record.pending)>> BY <1>3 DEF ImageIn
  <2>8. ImageIn(Record.pending) = r.slots[r.pending].crc /\ r.slots[r.pending].crc # ZeroCrc
    BY <1>1, <1>3, <2>3 DEF ImageIn, OnTrial
  <2>9. BudgetLeft = r.slots[r.pending].attempts + 1 /\ BudgetLeft' = r.slots[r.pending].attempts
    BY <1>2, <1>3, <1>4, <2>3, <2>6 DEF BudgetLeft
  <2> QED BY <2>4, <2>5, <2>6, <2>7, <2>8, <2>9 DEF AB!StartTrial
<1>5. CASE job.call # "spendAttempt"
  <2>1. UNCHANGED running
    BY <1>5 DEF AfterMetaWrite, AfterRejectPending, AfterRejectConfirmed, AfterSetPending, AfterConfirm
  <2>2. running # None => r.slots[running].size = committed.slots[running].size
    BY DEF RefInv, InApp, MetaPlaces
  <2>3. RunningImage' = RunningImage BY <2>1, <2>2, SameRunningImage
  <2>4. BudgetLeft' = BudgetLeft BY <1>2, <1>3, <1>5 DEF BudgetLeft
  <2> QED BY <1>3, <2>3, <2>4, StutterSame
<1> QED BY <1>4, <1>5

LEMMA MetaStepSim ==
  ASSUME SoundFlash, RefInvs, MetaErase \/ MetaWrite
  PROVE  [AB!Next]_(AB!vars)
<1>1. CASE MetaErase
  <2>1. /\ pc = "metaErase" /\ meta' = Unreadable /\ pc' = "metaWrite"
        /\ UNCHANGED <<flash, job, running, committed>>
    BY <1>1 DEF MetaErase, SoundFlash
  <2> QED BY <2>1, EraseSim DEF AB!Next
<1>2. CASE MetaWrite
  <2>1. CASE meta' = job.record /\ committed' = job.record /\ AfterMetaWrite(TRUE)
    <3>1. pc = "metaWrite" /\ flash' = flash BY <1>2 DEF MetaWrite
    <3> QED BY <2>1, <3>1, WriteSim DEF AB!Next
  <2>2. CASE meta' = Unreadable /\ AfterMetaWrite(FALSE) /\ UNCHANGED committed
    <3>1. UNCHANGED <<flash, running, committed>> /\ pc' # "metaWrite"
      BY <1>2, <2>2 DEF MetaWrite, AfterMetaWrite, AfterSpendAttempt, StartMetaWrite, AfterRejectPending,
         AfterRejectConfirmed, NothingToBoot, AfterSetPending, AfterConfirm
    <3>2. RunningImage' = RunningImage BY <3>1, SameRunningImage
    <3> QED BY <2>2, <3>1, <3>2, ForgetSim DEF AB!Next
  <2> QED BY <1>2, <2>1, <2>2 DEF MetaWrite
<1> QED BY <1>1, <1>2

\* Power fails, or the board is reset.
LEMMA StopSim ==
  ASSUME RefInvs, Reset \/ PowerCut
  PROVE  AB!Stop \/ AB!Forget \/ UNCHANGED AB!vars
<1> USE DEF RefInvs
<1>1. pc' = "off" /\ running' = None /\ UNCHANGED committed
  BY DEF Reset, PowerCut, Stopped, history
<1>2. RunningImage' = ZeroCrc BY <1>1 DEF RunningImage
<1>3. CASE meta' = meta /\ pc # "metaWrite"
  <2>1. Record' = Record BY <1>1, <1>3 DEF Record, Stored, LoadOrDefault, Readable
  <2>2. UNCHANGED <<ImageIn(Record.confirmed), ImageIn(Record.pending), BudgetLeft>>
    BY <1>1, <1>3, <2>1 DEF ImageIn, BudgetLeft
  <2> QED BY <1>2, <2>2 DEF AB!Stop, AB!vars
<1>4. CASE meta' = Unreadable BY <1>1, <1>2, <1>4, ForgetSim
<1>5. pc = "metaWrite" => meta = Unreadable BY DEF AgreeInv
<1> QED BY <1>3, <1>4, <1>5 DEF Reset, PowerCut, InFlashOp

LEMMA OtherSim ==
  ASSUME SoundFlash, RefInvs,
         DecidePending \/ SlotErase \/ SlotWrite \/ AppConfirm \/ Frame \/ PowerOn \/ BitRot
           \/ UNCHANGED vars
  PROVE  UNCHANGED AB!vars
<1> USE DEF RefInvs
<1>1. CASE DecidePending \/ SlotErase \/ SlotWrite \/ Frame \/ PowerOn
  <2>1. UNCHANGED <<meta, running>> /\ pc \in {"decide", "slotErase", "slotWrite", "poll", "off"}
        /\ pc' # "metaWrite"
    BY <1>1, FrameEffect DEF DecidePending, SlotErase, SlotWrite, PowerOn, NothingToBoot, StartMetaWrite
  <2>2. running = None BY <2>1 DEF RefInv, InApp, MetaPlaces
  <2> QED BY <2>1, <2>2, StutterIdle
<1>2. CASE AppConfirm
  <2>1. UNCHANGED <<meta, flash, running, committed>> /\ pc = "app" /\ pc' # "metaWrite"
    BY <1>2 DEF AppConfirm, StartMetaWrite, history
  <2>2. Record' = Record BY <2>1 DEF Record, Stored, LoadOrDefault, Readable
  <2>3. BudgetLeft' = BudgetLeft BY <2>1, <2>2 DEF BudgetLeft
  <2>4. RunningImage' = RunningImage BY <2>1, SameRunningImage
  <2> QED BY <2>2, <2>3, <2>4, StutterSame
<1>3. CASE BitRot BY <1>3 DEF BitRot, SoundFlash
<1>4. CASE UNCHANGED vars
  <2>1. UNCHANGED <<meta, flash, pc, job, running, committed>> BY <1>4 DEF vars, history
  <2>2. Record' = Record BY <2>1 DEF Record, Stored, LoadOrDefault, Readable
  <2>3. BudgetLeft' = BudgetLeft BY <2>1, <2>2 DEF BudgetLeft
  <2>4. RunningImage' = RunningImage BY <2>1, SameRunningImage
  <2> QED BY <2>2, <2>3, <2>4, StutterSame
<1> QED BY <1>1, <1>2, <1>3, <1>4

\* The device implements the promise: whatever frames arrive and wherever power fails,
\* only an image that runs is accepted, the accepted image starts only when no trial is
\* left, a trial starts at most MaxAttempts times, and only the loss of a record write
\* takes an image away (bld_engine.c:544-613, bld_confirm.c:59-89).
THEOREM DeviceKeepsPromise ==
  ASSUME SoundFlash
  PROVE  Spec => ImplementsABUpdate
<1>1. Init => AB!Init
  <2> SUFFICES ASSUME Init PROVE AB!Init OBVIOUS
  <2>1. Record = InitDefault /\ running = None BY DEF Init, Record, Stored, LoadOrDefault, Readable
  <2> QED BY <2>1 DEF AB!Init, ImageIn, BudgetLeft, RunningImage, InitDefault
<1>2. RefInvs /\ [Next]_vars => [AB!Next]_(AB!vars)
  BY DecideConfirmedSim, MetaStepSim, StopSim, OtherSim DEF Next, DeviceStep, AB!Next
<1> QED BY <1>1, <1>2, RefInvariant, PTL DEF Spec, ImplementsABUpdate, AB!Spec
=============================================================================
