-------------------------- MODULE BldDevice_proofs --------------------------
(***************************************************************************)
(* Theorems about the bootloader of BldDevice, for every number of cells,  *)
(* every set of images and frames, every CRC function and, unless a        *)
(* theorem says otherwise, every combination of faults.                    *)
(***************************************************************************)
EXTENDS BldDevice, TLAPS

-----------------------------------------------------------------------------
(* The edits of bld_meta.c: each yields a record, and each keeps it consistent *)

\* The record that replaces unreadable metadata (bld_meta.c:29-47) is a consistent record.
LEMMA DefaultRecord == InitDefault \in Records /\ Agrees(InitDefault)
  BY MetaAssumption DEF InitDefault, EmptyInfo, Records, SlotInfo, SlotIds, Slots, None,
     States, Agrees

\* Loading (bld_meta.c:148-158) yields a consistent record if the stored one is.
LEMMA LoadRecord ==
  ASSUME NEW m \in Records \cup {Unreadable}
  PROVE  /\ LoadOrDefault(m) \in Records
         /\ (Readable(m) => Agrees(m)) => Agrees(LoadOrDefault(m))
  BY DefaultRecord DEF LoadOrDefault, Readable

\* bld_meta_mark_slot_bad keeps the record well formed and consistent.
LEMMA MarkBadRecord ==
  ASSUME NEW m \in Records \cup {Unreadable}, NEW s \in Slots
  PROVE  /\ MarkBad(m, s) \in Records
         /\ (Readable(m) => Agrees(m)) => Agrees(MarkBad(m, s))
<1> DEFINE r == LoadOrDefault(m)
<1>1. r \in Records BY LoadRecord
<1>2. (Readable(m) => Agrees(m)) => Agrees(r) BY LoadRecord
<1>3. Other(s) \in Slots /\ Other(s) # s BY DEF Other, Slots
<1> HIDE DEF r
<1>4. MarkBad(m, s) = [active |-> MovedOff(r.active, s, SelectableForActive(r.slots[Other(s)])),
                       confirmed |-> MovedOff(r.confirmed, s, SelectableForConfirmed(r.slots[Other(s)])),
                       pending |-> ClearedIf(r.pending, s),
                       slots |-> [r.slots EXCEPT ![s] = [@ EXCEPT !.state = "BAD", !.attempts = 0]]]
  BY DEF MarkBad, r
<1>a. [r.slots[s] EXCEPT !.state = "BAD", !.attempts = 0] \in SlotInfo
  <2>1. r.slots[s] \in SlotInfo BY <1>1 DEF Records
  <2>2. 0 \in 0..MaxAttempts /\ "BAD" \in States BY MetaAssumption DEF States
  <2> QED BY <2>1, <2>2 DEF SlotInfo
<1> DEFINE act == MovedOff(r.active, s, SelectableForActive(r.slots[Other(s)]))
           cnf == MovedOff(r.confirmed, s, SelectableForConfirmed(r.slots[Other(s)]))
           pnd == ClearedIf(r.pending, s)
<1>b. act \in SlotIds /\ cnf \in SlotIds /\ pnd \in SlotIds
  BY <1>1, <1>3 DEF Records, SlotIds, MovedOff, ClearedIf
<1>c. [r.slots EXCEPT ![s] = [@ EXCEPT !.state = "BAD", !.attempts = 0]] \in [Slots -> SlotInfo]
  BY <1>1, <1>a DEF Records
<1>5. MarkBad(m, s) \in Records
  <2> QED BY <1>4, <1>b, <1>c DEF Records
<1>6. ASSUME Agrees(r) PROVE Agrees(MarkBad(m, s))
  BY <1>1, <1>3, <1>4, <1>6 DEF Agrees, Records, SlotInfo, SlotIds, Slots, None, MovedOff, ClearedIf,
     SelectableForActive, SelectableForConfirmed
<1> QED BY <1>2, <1>5, <1>6

\* bld_meta_decrement_pending_attempts, when it is not refused.
LEMMA DecrementRecord ==
  ASSUME NEW m \in Records \cup {Unreadable}, ~DecrementRejects(m)
  PROVE  /\ Decrement(m) \in Records
         /\ Decrement(m).pending = LoadOrDefault(m).pending
         /\ Decrement(m).pending \in Slots
         /\ (Readable(m) => Agrees(m)) => Agrees(Decrement(m))
<1> DEFINE r == LoadOrDefault(m)
<1>1. r \in Records BY LoadRecord
<1>2. (Readable(m) => Agrees(m)) => Agrees(r) BY LoadRecord
<1>3. r.pending \in Slots BY <1>1 DEF DecrementRejects, Records, SlotIds
<1> HIDE DEF r
<1>4. Decrement(m) = [r EXCEPT !.slots[r.pending].attempts = OneLess(r.slots[r.pending].attempts)]
  BY DEF Decrement, r
<1>5. OneLess(r.slots[r.pending].attempts) \in 0..MaxAttempts
  BY <1>1, <1>3, MetaAssumption DEF OneLess, Records, SlotInfo
<1>6. Decrement(m) \in Records BY <1>1, <1>3, <1>4, <1>5 DEF Records, SlotInfo
<1>7. Decrement(m).pending = r.pending BY <1>1, <1>4 DEF Records
<1>8. ASSUME Agrees(r) PROVE Agrees(Decrement(m))
  BY <1>1, <1>3, <1>4, <1>8 DEF Agrees, Records, SlotInfo, SlotIds, Slots, None
<1> QED BY <1>2, <1>3, <1>6, <1>7, <1>8 DEF r

\* bld_meta_confirm_slot, when it is not refused.
LEMMA ConfirmRecord ==
  ASSUME NEW m \in Records \cup {Unreadable}, ~ConfirmRejects(m)
  PROVE  /\ m.pending \in Slots
         /\ Confirm(m) \in Records
         /\ Agrees(Confirm(m))
<1>1. m \in Records /\ m.pending \in Slots BY DEF ConfirmRejects, Readable
<1>2. \A i \in SlotInfo : Retired(i) \in SlotInfo BY DEF Retired, SlotInfo, States
<1>3. \A s \in Slots : [m.slots[s] EXCEPT !.state = "CONFIRMED", !.attempts = 0] \in SlotInfo
  <2>1. 0 \in 0..MaxAttempts /\ "CONFIRMED" \in States BY MetaAssumption DEF States
  <2>2. \A s \in Slots : m.slots[s] \in SlotInfo BY <1>1 DEF Records
  <2> QED BY <2>1, <2>2 DEF SlotInfo
<1>4. Confirm(m).slots \in [Slots -> SlotInfo]
  BY <1>1, <1>2, <1>3 DEF Confirm, Records
<1>5. Confirm(m) \in Records BY <1>1, <1>4 DEF Confirm, Records, SlotIds
<1>6. /\ Confirm(m).confirmed = m.pending /\ Confirm(m).active = m.pending
      /\ Confirm(m).pending = None
      /\ Confirm(m).slots[m.pending].state = "CONFIRMED"
  BY <1>1 DEF Confirm, Records, SlotInfo
<1> QED BY <1>1, <1>5, <1>6 DEF Agrees

\* bld_meta_set_pending on a slot that is not the confirmed one.
LEMMA SetPendingRecord ==
  ASSUME NEW m \in Records \cup {Unreadable}, NEW s \in Slots,
         NEW v \in Nat, NEW n \in Nat, NEW c \in Crcs, NEW k \in 0..MaxAttempts
  PROVE  /\ SetPending(m, s, v, n, c, k) \in Records
         /\ (Readable(m) => Agrees(m)) /\ LoadOrDefault(m).confirmed # s
              => Agrees(SetPending(m, s, v, n, c, k))
<1> DEFINE r == LoadOrDefault(m)
           i == [version |-> v, size |-> n, crc |-> c, state |-> "PENDING", attempts |-> k]
<1>1. r \in Records BY LoadRecord
<1>2. (Readable(m) => Agrees(m)) => Agrees(r) BY LoadRecord
<1>3. i \in SlotInfo BY DEF SlotInfo, States
<1>4. SetPending(m, s, v, n, c, k) = [active |-> r.active, confirmed |-> r.confirmed,
                                    pending |-> s, slots |-> [r.slots EXCEPT ![s] = i]]
  BY DEF SetPending
<1> HIDE DEF r, i
<1>5. SetPending(m, s, v, n, c, k) \in Records
  BY <1>1, <1>3, <1>4 DEF Records, SlotIds
<1>i. i.state = "PENDING" BY DEF i
<1>6. ASSUME Agrees(r), r.confirmed # s PROVE Agrees(SetPending(m, s, v, n, c, k))
  BY <1>1, <1>4, <1>6, <1>i DEF Agrees, Records, SlotIds, Slots, None
<1> QED BY <1>2, <1>5, <1>6 DEF r

\* The slot chosen for an upload is never the confirmed one of a consistent record.
LEMMA TargetNotConfirmed ==
  ASSUME NEW r \in Records
  PROVE  /\ ChooseTarget(r) \in Slots
         /\ Agrees(r) => ChooseTarget(r) # r.confirmed
  BY DEF ChooseTarget, Records, SlotIds, Slots, None, Other, Agrees

-----------------------------------------------------------------------------
(* What the operations leave of the record they start from *)

LEMMA MarkBadFields ==
  ASSUME NEW m \in Records \cup {Unreadable}, NEW s \in Slots,
         NEW r, r = LoadOrDefault(m)
  PROVE  /\ MarkBad(m, s).pending = ClearedIf(r.pending, s)
         /\ MarkBad(m, s).confirmed = MovedOff(r.confirmed, s, SelectableForConfirmed(r.slots[Other(s)]))
         /\ \A t \in Slots : MarkBad(m, s).slots[t].size = r.slots[t].size
                            /\ MarkBad(m, s).slots[t].crc = r.slots[t].crc
         /\ \A t \in Slots \ {s} : MarkBad(m, s).slots[t] = r.slots[t]
<1>1. r \in Records BY LoadRecord
<1>2. \A t \in Slots : r.slots[t] \in SlotInfo BY <1>1 DEF Records
<1>3. MarkBad(m, s).slots = [r.slots EXCEPT ![s] = [r.slots[s] EXCEPT !.state = "BAD", !.attempts = 0]]
  BY DEF MarkBad
<1>4. /\ [r.slots[s] EXCEPT !.state = "BAD", !.attempts = 0].size = r.slots[s].size
      /\ [r.slots[s] EXCEPT !.state = "BAD", !.attempts = 0].crc = r.slots[s].crc
  BY <1>2 DEF SlotInfo
<1>5. /\ MarkBad(m, s).pending = ClearedIf(r.pending, s)
      /\ MarkBad(m, s).confirmed = MovedOff(r.confirmed, s, SelectableForConfirmed(r.slots[Other(s)]))
  BY DEF MarkBad
<1> QED BY <1>1, <1>3, <1>4, <1>5 DEF Records

LEMMA DecrementFields ==
  ASSUME NEW m \in Records \cup {Unreadable}, ~DecrementRejects(m), NEW r, r = LoadOrDefault(m)
  PROVE  /\ Decrement(m).pending = r.pending /\ Decrement(m).confirmed = r.confirmed
         /\ Decrement(m).slots[r.pending].attempts = OneLess(r.slots[r.pending].attempts)
         /\ \A t \in Slots : Decrement(m).slots[t].size = r.slots[t].size
                            /\ Decrement(m).slots[t].crc = r.slots[t].crc
<1>1. r \in Records BY LoadRecord
<1>2. r.pending \in Slots BY <1>1 DEF DecrementRejects, Records, SlotIds
<1>3. Decrement(m) = [r EXCEPT !.slots[r.pending].attempts = OneLess(r.slots[r.pending].attempts)]
  BY DEF Decrement
<1>4. \A t \in Slots : r.slots[t] \in SlotInfo BY <1>1 DEF Records
<1> QED BY <1>1, <1>2, <1>3, <1>4 DEF Records, SlotInfo

-----------------------------------------------------------------------------
(* Flash operations *)

Flash == [Slots -> [1..SlotSize -> Cell]]

Only(f, s, g) == g \in Flash /\ \A t \in Slots \ {s} : g[t] = f[t]

LEMMA OnlyRow ==
  ASSUME NEW f \in Flash, NEW s \in Slots, NEW row \in [1..SlotSize -> Cell]
  PROVE  Only(f, s, [f EXCEPT ![s] = row])
  BY DEF Flash, Only

\* Erasing a slot, completely or not, changes cells of that slot only.
LEMMA EraseOps ==
  ASSUME NEW f \in Flash, NEW s \in Slots, NEW n \in Nat
  PROVE  \A g \in {ErasedUpTo(f, s, n)} \cup CutErases(f, s, n) : Only(f, s, g)
<1>0. Erased \in Cell /\ Torn \in Cell /\ f[s] \in [1..SlotSize -> Cell] BY DEF Cell, Flash
<1>1. Only(f, s, ErasedUpTo(f, s, n))
  <2> DEFINE row == [i \in 1..SlotSize |-> IF i <= AlignUp(n, PageSize) THEN Erased ELSE f[s][i]]
  <2>1. row \in [1..SlotSize -> Cell] BY <1>0
  <2> QED BY <2>1, OnlyRow DEF ErasedUpTo
<1>2. ASSUME NEW p PROVE Only(f, s, EraseCutAt(f, s, p))
  <2> DEFINE row == [i \in 1..SlotSize |-> IF i <= p THEN Erased
                                           ELSE IF i <= p + PageSize THEN Torn ELSE f[s][i]]
  <2>1. row \in [1..SlotSize -> Cell] BY <1>0
  <2> QED BY <2>1, OnlyRow DEF EraseCutAt
<1> QED BY <1>1, <1>2 DEF CutErases

\* Programming a chunk, completely or not, changes cells of its slot only.
LEMMA WriteOps ==
  ASSUME NEW f \in Flash, NEW s \in Slots, NEW off \in Nat, NEW d \in Seq(Bytes)
  PROVE  \A g \in {Written(f, s, off, d)} \cup CutWrites(f, s, off, d) : Only(f, s, g)
<1>0. Bytes \subseteq Cell /\ Torn \in Cell /\ f[s] \in [1..SlotSize -> Cell] BY DEF Cell, Flash
<1>1. Only(f, s, Written(f, s, off, d))
  <2> DEFINE row == [i \in 1..SlotSize |-> IF i > off /\ i <= off + Len(d) THEN d[i - off] ELSE f[s][i]]
  <2>1. \A i \in 1..SlotSize : i > off /\ i <= off + Len(d) => d[i - off] \in Bytes
    BY SizeAssumption
  <2>2. row \in [1..SlotSize -> Cell] BY <1>0, <2>1
  <2> QED BY <2>2, OnlyRow DEF Written
<1>2. ASSUME NEW k \in 0..Len(d), k < Len(d) PROVE Only(f, s, WriteCutAt(f, s, off, d, k))
  <2> DEFINE row == [i \in 1..SlotSize |->
                       IF i > off /\ i <= off + k THEN d[i - off]
                       ELSE IF i > off + k /\ i <= off + k + DwSize THEN Torn ELSE f[s][i]]
  <2>1. \A i \in 1..SlotSize : i > off /\ i <= off + k => d[i - off] \in Bytes
    BY <1>2, SizeAssumption
  <2>2. row \in [1..SlotSize -> Cell] BY <1>0, <2>1
  <2> QED BY <2>2, OnlyRow DEF WriteCutAt
<1> QED BY <1>1, <1>2 DEF CutWrites

-----------------------------------------------------------------------------
(* Type correctness *)

MetaPlaces == {"metaErase", "metaWrite"}

\* What a flash operation in progress may rely on: who started it and with what.
JobInv ==
  /\ state \in {"WAIT_HEADER", "RECV_DATA", "WAIT_END"} => target \in Slots
  /\ pc = "slotErase" => state = "WAIT_HEADER"
  /\ pc = "slotWrite" => state = "RECV_DATA" /\ ~TooMuch(job.data)
  /\ pc \in MetaPlaces /\ job.call = "spendAttempt" =>
       ctrl.pending \in Slots /\ job.record.pending = ctrl.pending
  /\ pc \in MetaPlaces /\ job.call = "setPending" => state = "WAIT_END"

TypeInv == TypeOK /\ JobInv

LEMMA TypeInit == Init => TypeInv
<1> SUFFICES ASSUME Init PROVE TypeInv OBVIOUS
<1>1. NoSession \in Sessions
  BY MetaAssumption, SizeAssumption DEF NoSession, Sessions
<1>2. flash \in [Slots -> [1..SlotSize -> Cell]] BY DEF Init, Cell
<1>3. sent \in Seq(Statuses) BY DEF Init
<1> QED BY <1>1, <1>2, <1>3, DefaultRecord
        DEF Init, TypeInv, TypeOK, JobInv, Places, EngineStates, SlotIds, MetaPlaces

\* The replies of a boot decision that fails.
LEMMA NothingToBootType ==
  ASSUME TypeOK, NEW r \in {<<>>, <<"BOOT_ERR">>}, NothingToBoot(r)
  PROVE  sent' \in Seq(Statuses) /\ pc' = "poll" /\ caller' = "main"
<1>1. <<"BOOT_ERR">> \in Seq(Statuses) /\ <<>> \in Seq(Statuses) BY DEF Statuses
<1>2. r \in Seq(Statuses) BY <1>1
<1>3. sent \in Seq(Statuses) BY DEF TypeOK
<1>4. \A p, q \in Seq(Statuses) : p \o q \in Seq(Statuses) OBVIOUS
<1> QED BY <1>1, <1>2, <1>3, <1>4 DEF NothingToBoot

LEMMA ReplyType ==
  ASSUME TypeOK, NEW st \in Statuses
  PROVE  Append(sent, st) \in Seq(Statuses) /\ <<st>> \in Seq(Statuses) /\ <<>> \in Seq(Statuses)
  BY DEF TypeOK

LEMMA IdleSession == NoSession \in Sessions /\ None \in SlotIds /\ InitDefault \in Records
  BY MetaAssumption, SizeAssumption, DefaultRecord DEF NoSession, Sessions, SlotIds

\* Handing a record to bld_meta_record_write.
LEMMA StartMetaWriteType ==
  ASSUME NEW r \in Records, NEW c \in Calls, StartMetaWrite(r, c)
  PROVE  pc' = "metaErase" /\ job' \in MetaJobs /\ job'.record = r /\ job'.call = c
  BY DEF StartMetaWrite, MetaJobs

LEMMA DecidePendingType == TypeInv /\ DecidePending => TypeInv'
<1> SUFFICES ASSUME TypeInv, DecidePending PROVE TypeInv' OBVIOUS
<1> USE DEF TypeInv, JobInv, Places, MetaPlaces
<1>1. ctrl' \in Records BY LoadRecord DEF DecidePending, TypeOK, history
<1>2. CASE ~Readable(meta) /\ NothingToBoot(<<>>)
  BY <1>1, <1>2, NothingToBootType DEF DecidePending, TypeOK, history
<1>3. CASE pc' = "confirmed" /\ UNCHANGED <<job, caller, sent>>
  BY <1>1, <1>3 DEF DecidePending, TypeOK, history
<1>4. ASSUME Readable(meta), ctrl'.pending # None,
             StartMetaWrite(MarkBad(meta, ctrl'.pending), "rejectPending"), UNCHANGED <<caller, sent>>
      PROVE  TypeInv'
  <2>1. meta \in Records /\ ctrl'.pending \in Slots BY <1>1, <1>4 DEF TypeOK, Records, SlotIds, Readable
  <2>2. job' \in MetaJobs /\ job'.call = "rejectPending" /\ pc' = "metaErase"
    BY <1>4, <2>1, MarkBadRecord, StartMetaWriteType DEF Calls
  <2> QED BY <1>1, <1>4, <2>2 DEF DecidePending, TypeOK, history
<1>5. ASSUME Readable(meta), ctrl'.pending # None, ~DecrementRejects(meta),
             StartMetaWrite(Decrement(meta), "spendAttempt"), UNCHANGED <<caller, sent>>
      PROVE  TypeInv'
  <2>1. meta \in Records /\ ctrl'.pending \in Slots /\ ctrl' = LoadOrDefault(meta)
    BY <1>1, <1>5 DEF TypeOK, Records, SlotIds, DecidePending, Readable
  <2>2. /\ job' \in MetaJobs /\ job'.call = "spendAttempt" /\ pc' = "metaErase"
        /\ job'.record.pending = ctrl'.pending
    BY <1>5, <2>1, DecrementRecord, StartMetaWriteType DEF Calls
  <2> QED BY <1>1, <1>5, <2>1, <2>2 DEF DecidePending, TypeOK, history
<1> QED BY <1>2, <1>3, <1>4, <1>5 DEF DecidePending

LEMMA JumpType ==
  ASSUME TypeOK, NEW s \in SlotIds, Jump(s)
  PROVE  /\ sent' \in Seq(Statuses) /\ running' \in SlotIds /\ pc' = "app"
         /\ state' = "IDLE" /\ target' = None /\ session' \in Sessions /\ ctrl' \in Records
         /\ caller' = "main"
  BY ReplyType, IdleSession DEF Jump, Reply, ClearRam, Statuses

LEMMA DecideConfirmedType == TypeInv /\ DecideConfirmed => TypeInv'
<1> SUFFICES ASSUME TypeInv, DecideConfirmed PROVE TypeInv' OBVIOUS
<1> USE DEF TypeInv, JobInv, Places, MetaPlaces
<1>1. ctrl.confirmed \in SlotIds BY DEF TypeOK, Records
<1>2. CASE NothingToBoot(<<"BOOT_ERR">>) /\ UNCHANGED <<state, target, session, ctrl, running>>
  BY <1>2, NothingToBootType DEF DecideConfirmed, TypeOK, history
<1>3. CASE Jump(ctrl.confirmed)
  BY <1>1, <1>3, JumpType, IdleSession DEF DecideConfirmed, TypeOK, history, EngineStates
<1>4. ASSUME ctrl.confirmed # None, StartMetaWrite(MarkBad(meta, ctrl.confirmed), "rejectConfirmed"),
             UNCHANGED <<ram, running, sent>>
      PROVE  TypeInv'
  <2>1. ctrl.confirmed \in Slots BY <1>1, <1>4 DEF SlotIds
  <2>2. job' \in MetaJobs /\ job'.call = "rejectConfirmed" /\ pc' = "metaErase"
    BY <1>4, <2>1, MarkBadRecord, StartMetaWriteType DEF Calls, TypeOK
  <2> QED BY <1>4, <2>2 DEF DecideConfirmed, TypeOK, ram, history
<1> QED BY <1>2, <1>3, <1>4 DEF DecideConfirmed

\* Whatever follows a metadata write, finished or failed.
LEMMA AfterMetaWriteType ==
  ASSUME TypeInv, pc \in MetaPlaces, NEW ok \in BOOLEAN, AfterMetaWrite(ok),
         meta' \in Records \cup {Unreadable}, flash' = flash, committed' \in Records
  PROVE  TypeInv'
<1> USE DEF TypeInv, JobInv, Places, MetaPlaces
<1>1. job \in MetaJobs BY DEF TypeOK
<1>2. LoadOrDefault(meta)' \in Records BY LoadRecord
<1>3. LoadOrDefault(meta') \in Records BY LoadRecord
<1>4. CASE job.call = "spendAttempt" /\ AfterSpendAttempt(ok)
  <2>1. CASE ok
    <3>1. Jump(job.record.pending) /\ trials' \in Nat BY <1>4, <2>1 DEF AfterSpendAttempt, TypeOK
    <3>2. job.record.pending \in SlotIds BY <1>1 DEF MetaJobs, Records
    <3> QED BY <3>1, <3>2, JumpType, IdleSession DEF TypeOK, EngineStates
  <2>2. CASE ~ok
    <3>1. /\ StartMetaWrite(MarkBad(meta', ctrl.pending), "rejectPending")
          /\ UNCHANGED <<ram, running, sent, trials>>
      BY <1>4, <2>2 DEF AfterSpendAttempt
    <3>2. ctrl.pending \in Slots BY <1>4
    <3>3. job' \in MetaJobs /\ job'.call = "rejectPending" /\ pc' = "metaErase"
      BY <3>1, <3>2, MarkBadRecord, StartMetaWriteType DEF Calls
    <3> QED BY <3>1, <3>3 DEF TypeOK, ram
  <2> QED BY <2>1, <2>2
<1>5. CASE AfterRejectPending
  BY <1>3, <1>5 DEF AfterRejectPending, TypeOK
<1>6. CASE AfterRejectConfirmed
  BY <1>3, <1>6, NothingToBootType DEF AfterRejectConfirmed, TypeOK
<1>7. CASE AfterSetPending(ok)
  BY <1>3, <1>7, ReplyType, IdleSession DEF AfterSetPending, Reply, TypeOK, EngineStates, Statuses
<1>8. CASE AfterConfirm
  BY <1>8 DEF AfterConfirm, TypeOK, ram
<1> QED BY <1>4, <1>5, <1>6, <1>7, <1>8 DEF AfterMetaWrite

LEMMA MetaStepType == TypeInv /\ (MetaErase \/ MetaWrite) => TypeInv'
<1> SUFFICES ASSUME TypeInv, MetaErase \/ MetaWrite PROVE TypeInv' OBVIOUS
<1>1. job \in MetaJobs /\ job.record \in Records /\ pc \in MetaPlaces
  BY DEF MetaErase, MetaWrite, TypeInv, TypeOK, MetaJobs, MetaPlaces
<1>2. CASE meta' = Unreadable /\ pc' = "metaWrite" /\ UNCHANGED <<job, ram, running, sent, trials, flash, committed>>
  BY <1>1, <1>2 DEF TypeInv, TypeOK, JobInv, Places, MetaPlaces, ram
<1>3. ASSUME NEW ok \in BOOLEAN, AfterMetaWrite(ok), meta' \in {meta, Unreadable, job.record},
             flash' = flash, committed' \in {committed, job.record}
      PROVE  TypeInv'
  <2>1. meta' \in Records \cup {Unreadable} /\ committed' \in Records
    BY <1>1, <1>3 DEF TypeInv, TypeOK
  <2> QED BY <1>1, <1>3, <2>1, AfterMetaWriteType
<1> QED BY <1>2, <1>3 DEF MetaErase, MetaWrite

LEMMA SlotStepType == TypeInv /\ (SlotErase \/ SlotWrite) => TypeInv'
<1> SUFFICES ASSUME TypeInv, SlotErase \/ SlotWrite PROVE TypeInv' OBVIOUS
<1> USE DEF TypeInv, JobInv, Places, MetaPlaces
<1>1. target \in Slots /\ session \in Sessions /\ flash \in Flash
  BY DEF SlotErase, SlotWrite, TypeOK, Flash
<1>2. CASE SlotErase
  <2>1. job \in HeaderJobs /\ job.size \in Nat BY <1>2, SizeAssumption DEF SlotErase, TypeOK, HeaderJobs
  <2>2. flash' \in Flash
    <3>1. flash' \in {flash, ErasedUpTo(flash, target, job.size)} \cup CutErases(flash, target, job.size)
      BY <1>2 DEF SlotErase
    <3> QED BY <1>1, <2>1, <3>1, EraseOps DEF Only
  <2>3. session' \in Sessions
    BY <1>1, <1>2, <2>1, SizeAssumption DEF SlotErase, HeaderJobs, Sessions
  <2>4. sent' \in Seq(Statuses) BY <1>2, ReplyType DEF SlotErase, Reply, Statuses
  <2> QED BY <1>1, <1>2, <2>2, <2>3, <2>4 DEF SlotErase, TypeOK, Flash, EngineStates, history
<1>3. CASE SlotWrite
  <2>1. job.data \in Seq(Bytes) /\ session.received \in Nat /\ Len(job.data) \in Nat
    BY <1>1, <1>3, SizeAssumption DEF SlotWrite, TypeOK, DataJobs, Sessions
  <2>2. flash' \in Flash
    <3>1. flash' \in {flash, Written(flash, target, session.received, job.data)}
                        \cup CutWrites(flash, target, session.received, job.data)
      BY <1>3 DEF SlotWrite
    <3> QED BY <1>1, <2>1, <3>1, WriteOps DEF Only
  <2>3. session.received + Len(job.data) <= session.size
    BY <1>1, <1>3, <2>1, SizeAssumption DEF SlotWrite, TooMuch, Sessions
  <2>4. session' \in Sessions
    <3> DEFINE n == session.received + Len(job.data)
    <3>1. n \in 0..SlotSize /\ session.seq + 1 \in Nat
      BY <1>1, <2>1, <2>3, SizeAssumption DEF Sessions
    <3>2. [session EXCEPT !.received = n, !.seq = session.seq + 1] \in Sessions
      <4> HIDE DEF n
      <4> QED BY <1>1, <3>1 DEF Sessions
    <3> QED BY <1>1, <1>3, <3>2 DEF SlotWrite
  <2>5. sent' \in Seq(Statuses) BY <1>3, ReplyType DEF SlotWrite, Reply, Statuses
  <2>6. state' \in {"RECV_DATA", "WAIT_END", "ERROR"} BY <1>3 DEF SlotWrite
  <2> QED BY <1>1, <1>3, <2>2, <2>4, <2>5, <2>6 DEF SlotWrite, TypeOK, Flash, EngineStates, history
<1> QED BY <1>2, <1>3

\* Frames that only produce a reply, and the ones that change the engine state.
LEMMA FrameType == TypeInv /\ Frame => TypeInv'
<1> SUFFICES ASSUME TypeInv, Frame PROVE TypeInv' OBVIOUS
<1> USE DEF TypeInv, JobInv, Places, MetaPlaces
<1>r. ASSUME NEW st \in Statuses, Refused(st), pc = "poll" PROVE TypeInv'
  BY <1>r, ReplyType DEF Refused, ReplyFirst, TypeOK, ram, history
<1>e. ASSUME NEW st \in Statuses, ReplyFirst(st), state' \in {"ERROR", "IDLE"}, pc = "poll",
             session' \in Sessions, target' \in SlotIds,
             UNCHANGED <<meta, flash, pc, job, ctrl, caller, running, history>>
      PROVE  TypeInv'
  BY <1>e, ReplyType DEF ReplyFirst, TypeOK, history, EngineStates
<1>t. session \in Sessions /\ target \in SlotIds /\ NoSession \in Sessions /\ None \in SlotIds
  BY IdleSession DEF TypeOK
<1>s. {"OK", "META", "BAD_FRAME", "BAD_CRC", "BAD_STATE", "SEQ_ERR", "TOO_LARGE", "FLASH_ERR"} \subseteq Statuses
  BY DEF Statuses
<1>1. CASE BadFrame BY <1>1, <1>r, <1>s DEF BadFrame
<1>2. CASE CmdAbort BY <1>2, <1>e, <1>s, <1>t DEF CmdAbort
<1>3. CASE CmdMeta
  BY <1>3, <1>s, ReplyType, LoadRecord DEF CmdMeta, ReplyFirst, TypeOK, history
<1>4. CASE CmdStart
  <2>1. ctrl' \in Records /\ target' \in Slots
    BY <1>4, LoadRecord, TargetNotConfirmed DEF CmdStart, TypeOK
  <2> QED BY <1>4, <1>s, <1>t, <2>1, ReplyType DEF CmdStart, ReplyFirst, TypeOK, history, EngineStates, SlotIds
<1>5. CASE CmdQuery BY <1>5, <1>r, <1>s DEF CmdQuery
<1>6. CASE CmdBoot BY <1>6, ReplyType, <1>s DEF CmdBoot, TypeOK, history
<1>7. CASE CmdEnd
  <2>1. ASSUME NEW st \in Statuses, EndFails(st) PROVE TypeInv'
    BY <1>7, <2>1, <1>e, <1>t DEF EndFails, CmdEnd
  <2>2. ASSUME StartMetaWrite(SetPending(meta, target, session.version, session.size,
                                         session.crc, MaxAttempts), "setPending"),
               sent' = <<>>, UNCHANGED <<meta, flash, ram, running, history>>
        PROVE  TypeInv'
    <3>1. /\ target \in Slots /\ session.version \in Nat /\ session.size \in Nat
          /\ session.crc \in Crcs /\ MaxAttempts \in 0..MaxAttempts
      BY <1>7, <1>t, MetaAssumption, SizeAssumption DEF CmdEnd, Sessions
    <3>2. SetPending(meta, target, session.version, session.size, session.crc, MaxAttempts) \in Records
      BY <3>1, SetPendingRecord DEF TypeOK
    <3>3. job' \in MetaJobs /\ job'.call = "setPending" /\ pc' = "metaErase"
      BY <2>2, <3>2, StartMetaWriteType DEF Calls
    <3> QED BY <1>7, <2>2, <3>3, ReplyType, <1>s DEF CmdEnd, TypeOK, ram, history
  <2> QED BY <1>7, <1>s, <2>1, <2>2 DEF CmdEnd
<1>8. CASE CmdBadState BY <1>8, <1>r, <1>s DEF CmdBadState
<1>9. ASSUME NEW h \in Headers, Header(h) PROVE TypeInv'
  <2>1. CASE Refused("BAD_STATE") BY <1>9, <2>1, <1>r, <1>s DEF Header
  <2>2. CASE /\ state' = "IDLE" /\ target' = None /\ session' = NoSession
             /\ ReplyFirst("TOO_LARGE")
             /\ UNCHANGED <<meta, flash, pc, job, ctrl, caller, running, history>>
    BY <1>9, <2>2, <1>e, <1>s, <1>t DEF Header
  <2>3. CASE /\ state = "WAIT_HEADER" /\ h.size # 0 /\ h.size <= SlotSize
             /\ pc' = "slotErase" /\ job' = h /\ sent' = <<>>
             /\ UNCHANGED <<meta, flash, ram, running, history>>
    <3>1. h \in [version : Nat, size : Nat, crc : Crcs] BY ImageAssumption
    <3>2. h \in HeaderJobs BY <2>3, <3>1, SizeAssumption DEF HeaderJobs
    <3> QED BY <1>9, <2>3, <3>2, ReplyType, <1>s DEF TypeOK, ram, history
  <2> QED BY <1>9, <2>1, <2>2, <2>3 DEF Header
<1>10. ASSUME NEW d \in Payloads, NEW seq \in {session.seq, session.seq + 1}, Data(seq, d)
       PROVE  TypeInv'
  <2>1. ASSUME NEW st \in Statuses, Refused(st) PROVE TypeInv' BY <1>10, <2>1, <1>r DEF Data
  <2>2. ASSUME NEW st \in Statuses, DataFails(st) PROVE TypeInv'
    BY <1>10, <2>2, <1>e, <1>t DEF DataFails, Data
  <2>3. CASE /\ state = "RECV_DATA" /\ ~TooMuch(d)
             /\ pc' = "slotWrite" /\ job' = [data |-> d] /\ sent' = <<>>
             /\ UNCHANGED <<meta, flash, ram, running, history>>
    <3>1. (job \in DataJobs)' /\ (job.data)' = d BY <2>3, ImageAssumption DEF DataJobs
    <3>2. ~TooMuch(job.data)' BY <2>3, <3>1 DEF TooMuch, ram
    <3> QED BY <1>10, <2>3, <3>1, <3>2, ReplyType, <1>s DEF TypeOK, ram, history
  <2> QED BY <1>10, <1>s, <2>1, <2>2, <2>3 DEF Data
<1> QED BY <1>1, <1>2, <1>3, <1>4, <1>5, <1>6, <1>7, <1>8, <1>9, <1>10 DEF Frame

LEMMA AppAndPowerType ==
  TypeInv /\ (AppConfirm \/ PowerOn \/ Reset \/ PowerCut \/ BitRot) => TypeInv'
<1> SUFFICES ASSUME TypeInv, AppConfirm \/ PowerOn \/ Reset \/ PowerCut \/ BitRot
             PROVE TypeInv'
  OBVIOUS
<1> USE DEF TypeInv, JobInv, Places, MetaPlaces
<1>e. <<>> \in Seq(Statuses) /\ LoadOrDefault(meta) \in Records BY LoadRecord DEF TypeOK
<1>1. CASE AppConfirm
  <2>1. CASE ConfirmRejects(meta) BY <1>1, <2>1 DEF AppConfirm, TypeOK, ram, history
  <2>2. CASE ~ConfirmRejects(meta)
    <3>1. StartMetaWrite(Confirm(meta), "confirm") BY <1>1, <2>2 DEF AppConfirm
    <3>2. job' \in MetaJobs /\ job'.call = "confirm" /\ pc' = "metaErase"
      BY <2>2, <3>1, ConfirmRecord, StartMetaWriteType DEF Calls, TypeOK
    <3> QED BY <1>1, <3>2 DEF AppConfirm, TypeOK, ram, history
  <2> QED BY <2>1, <2>2
<1>2. CASE PowerOn BY <1>2, <1>e, IdleSession DEF PowerOn, TypeOK, EngineStates, history
<1>s. ASSUME Stopped, meta' \in Records \cup {Unreadable}, flash' \in Flash, UNCHANGED history
      PROVE  TypeInv'
  BY <1>s, <1>e, IdleSession DEF Stopped, ClearRam, TypeOK, Flash, history, EngineStates
<1>3. CASE Reset BY <1>3, <1>s DEF Reset, TypeOK, Flash
<1>4. CASE PowerCut
  <2>1. CASE pc \in MetaPlaces BY <1>4, <2>1, <1>s DEF PowerCut, TypeOK, Flash
  <2>2. CASE pc = "slotErase"
    <3>1. target \in Slots /\ flash \in Flash /\ job.size \in Nat
      BY <2>2, SizeAssumption DEF TypeOK, Flash, HeaderJobs
    <3>2. CutErases(flash, target, job.size) \subseteq Flash BY <3>1, EraseOps DEF Only
    <3> QED BY <1>4, <1>s, <2>2, <3>1, <3>2 DEF PowerCut, TypeOK
  <2>3. CASE pc = "slotWrite"
    <3>1. target \in Slots /\ flash \in Flash /\ job.data \in Seq(Bytes) /\ session.received \in Nat
      BY <2>3, SizeAssumption DEF TypeOK, Flash, DataJobs, Sessions
    <3>2. CutWrites(flash, target, session.received, job.data) \subseteq Flash
      BY <3>1, WriteOps DEF Only
    <3> QED BY <1>4, <1>s, <2>3, <3>1, <3>2 DEF PowerCut, TypeOK
  <2> QED BY <1>4, <2>1, <2>2, <2>3 DEF PowerCut
<1>5. CASE BitRot
  <2>1. flash' \in Flash BY <1>5 DEF BitRot, TypeOK, Flash, Cell
  <2> QED BY <1>5, <2>1 DEF BitRot, TypeOK, Flash, ram, history
<1> QED BY <1>1, <1>2, <1>3, <1>4, <1>5

LEMMA TypeStutter == TypeInv /\ UNCHANGED vars => TypeInv'
  BY DEF TypeInv, TypeOK, JobInv, MetaPlaces, TooMuch, vars, ram, history

LEMMA TypeNext == TypeInv /\ [Next]_vars => TypeInv'
  BY DecidePendingType, DecideConfirmedType, MetaStepType, SlotStepType, FrameType,
     AppAndPowerType, TypeStutter
     DEF Next, DeviceStep

LEMMA TypeInvariant == Spec => []TypeInv
  BY TypeInit, TypeNext, PTL DEF Spec

\* Every variable keeps its type, and no operation leaves its slot: in particular
\* the received size never exceeds the slot, whatever frames arrive
\* (bld_engine.c:391-519).
THEOREM TypeCorrect == Spec => []TypeOK
  BY TypeInvariant, PTL DEF TypeInv

-----------------------------------------------------------------------------
(* The stored record is always consistent, and uploads spare the confirmed *)
(* slot, whatever fails.                                                   *)

Uploading == state \in {"WAIT_HEADER", "RECV_DATA", "WAIT_END"}

\* RecordAgrees is not inductive: the record in flight must be consistent too, and
\* an upload must not work on the confirmed slot when its END installs the image.
AgreeInv ==
  /\ Readable(meta) => Agrees(meta)
  /\ pc \in MetaPlaces => Agrees(job.record)
  /\ pc = "metaWrite" => meta = Unreadable
  /\ Uploading /\ Readable(meta) => meta.confirmed # target
  /\ pc \notin {"poll", "slotErase", "slotWrite"} \cup MetaPlaces => state = "IDLE"
  /\ pc \in MetaPlaces /\ job.call # "setPending" => state = "IDLE"

LEMMA AgreeInit == Init => AgreeInv
  BY DEF Init, AgreeInv, Uploading, MetaPlaces, Readable

LEMMA DecidePendingAgree == TypeInv /\ AgreeInv /\ DecidePending => AgreeInv'
<1> SUFFICES ASSUME TypeInv, AgreeInv, DecidePending PROVE AgreeInv' OBVIOUS
<1> USE DEF AgreeInv, Uploading, MetaPlaces
<1>1. /\ meta' = meta /\ state' = state /\ state = "IDLE" /\ target' = target
      /\ ctrl' = LoadOrDefault(meta) /\ meta \in Records \cup {Unreadable}
  BY DEF DecidePending, TypeInv, TypeOK
<1>2. CASE pc' \in {"poll", "confirmed"} BY <1>1, <1>2
<1>3. ASSUME Readable(meta), ctrl'.pending # None, NEW r \in Records, NEW c, Agrees(r),
             StartMetaWrite(r, c)
      PROVE  AgreeInv'
  BY <1>1, <1>3 DEF StartMetaWrite
<1>4. ASSUME Readable(meta), ctrl'.pending # None
      PROVE  /\ MarkBad(meta, ctrl'.pending) \in Records /\ Agrees(MarkBad(meta, ctrl'.pending))
             /\ ~DecrementRejects(meta) => Decrement(meta) \in Records /\ Agrees(Decrement(meta))
  <2>1. ctrl'.pending \in Slots BY <1>1, <1>4, LoadRecord DEF Records, SlotIds
  <2> QED BY <1>1, <1>4, <2>1, MarkBadRecord, DecrementRecord
<1> QED BY <1>2, <1>3, <1>4 DEF DecidePending, NothingToBoot

LEMMA DecideConfirmedAgree == TypeInv /\ AgreeInv /\ DecideConfirmed => AgreeInv'
<1> SUFFICES ASSUME TypeInv, AgreeInv, DecideConfirmed PROVE AgreeInv' OBVIOUS
<1> USE DEF AgreeInv, Uploading, MetaPlaces
<1>1. /\ meta' = meta /\ state = "IDLE" /\ meta \in Records \cup {Unreadable} /\ ctrl \in Records
  BY DEF DecideConfirmed, TypeInv, TypeOK
<1>2. CASE ctrl.confirmed = None BY <1>1, <1>2 DEF DecideConfirmed, NothingToBoot, Jump, ClearRam
<1>3. CASE ctrl.confirmed # None /\ Jump(ctrl.confirmed) BY <1>1, <1>3 DEF Jump, ClearRam
<1>4. CASE /\ ctrl.confirmed # None
           /\ StartMetaWrite(MarkBad(meta, ctrl.confirmed), "rejectConfirmed")
           /\ UNCHANGED <<ram, running, sent>>
  <2>1. ctrl.confirmed \in Slots BY <1>1, <1>4 DEF Records, SlotIds
  <2> QED BY <1>1, <1>4, <2>1, MarkBadRecord DEF StartMetaWrite, ram
<1> QED BY <1>2, <1>3, <1>4 DEF DecideConfirmed

LEMMA MetaStepAgree == TypeInv /\ AgreeInv /\ (MetaErase \/ MetaWrite) => AgreeInv'
<1> SUFFICES ASSUME TypeInv, AgreeInv, MetaErase \/ MetaWrite PROVE AgreeInv' OBVIOUS
<1> USE DEF AgreeInv, Uploading, MetaPlaces
<1>1. job.record \in Records /\ Agrees(job.record) /\ pc \in MetaPlaces
  BY DEF MetaErase, MetaWrite, TypeInv, TypeOK, MetaJobs
<1>2. CASE meta' = Unreadable /\ pc' = "metaWrite" /\ UNCHANGED <<job, ram>>
  BY <1>1, <1>2 DEF ram, Readable
<1>3. ASSUME NEW ok \in BOOLEAN, AfterMetaWrite(ok), meta' \in {meta, Unreadable, job.record}
      PROVE  AgreeInv'
  <2>1. meta' \in Records \cup {Unreadable} /\ (Readable(meta') => Agrees(meta'))
    BY <1>1, <1>3 DEF TypeInv, TypeOK, Readable
  <2>2. CASE job.call = "spendAttempt" /\ AfterSpendAttempt(ok)
    <3>1. CASE ok BY <2>1, <2>2, <3>1 DEF AfterSpendAttempt, Jump, ClearRam, Readable
    <3>2. CASE ~ok
      <4>1. ctrl.pending \in Slots BY <1>1, <2>2 DEF TypeInv, JobInv
      <4>2. Agrees(MarkBad(meta', ctrl.pending)) BY <2>1, <4>1, MarkBadRecord
      <4> QED BY <1>1, <2>1, <2>2, <3>2, <4>2 DEF AfterSpendAttempt, StartMetaWrite, ram, Readable
    <3> QED BY <3>1, <3>2
  <2>3. CASE job.call = "rejectPending" /\ AfterRejectPending
    BY <1>1, <2>1, <2>3 DEF AfterRejectPending, Readable
  <2>4. CASE job.call = "rejectConfirmed" /\ AfterRejectConfirmed
    BY <1>1, <2>1, <2>4 DEF AfterRejectConfirmed, NothingToBoot, Readable
  <2>5. CASE AfterSetPending(ok) BY <2>1, <2>5 DEF AfterSetPending, Readable
  <2>6. CASE job.call = "confirm" /\ AfterConfirm
    BY <1>1, <2>1, <2>6 DEF AfterConfirm, ram, Readable
  <2> QED BY <1>3, <2>2, <2>3, <2>4, <2>5, <2>6 DEF AfterMetaWrite
<1> QED BY <1>2, <1>3 DEF MetaErase, MetaWrite

LEMMA FrameAgree == TypeInv /\ AgreeInv /\ Frame => AgreeInv'
<1> SUFFICES ASSUME TypeInv, AgreeInv, Frame PROVE AgreeInv' OBVIOUS
<1> USE DEF AgreeInv, Uploading, MetaPlaces
<1>0. /\ pc = "poll" /\ meta' = meta /\ meta \in Records \cup {Unreadable}
  BY DEF Frame, BadFrame, CmdAbort, CmdMeta, CmdStart, CmdQuery, CmdBoot, CmdEnd, CmdBadState,
         Header, Data, Refused, EndFails, DataFails, TypeInv, TypeOK
<1>1. ASSUME pc' \in {"poll", "slotErase", "slotWrite"},
             UNCHANGED <<state, target>> \/ state' \in {"IDLE", "ERROR"}
      PROVE  AgreeInv'
  BY <1>0, <1>1
<1>2. CASE CmdStart
  <2>1. LoadOrDefault(meta) \in Records /\ Agrees(LoadOrDefault(meta)) BY <1>0, LoadRecord
  <2>2. target' # LoadOrDefault(meta).confirmed BY <1>2, <2>1, TargetNotConfirmed DEF CmdStart
  <2> QED BY <1>0, <1>2, <2>2 DEF CmdStart, LoadOrDefault
<1>3. CASE CmdBoot BY <1>0, <1>3 DEF CmdBoot
<1>4. CASE CmdEnd
  <2>1. ASSUME NEW st, EndFails(st) PROVE AgreeInv' BY <1>0, <1>1, <2>1 DEF EndFails
  <2>2. ASSUME StartMetaWrite(SetPending(meta, target, session.version, session.size,
                                         session.crc, MaxAttempts), "setPending"),
               UNCHANGED <<meta, flash, ram, running, history>>
        PROVE  AgreeInv'
    <3>1. /\ target \in Slots /\ session.version \in Nat /\ session.size \in Nat
          /\ session.crc \in Crcs /\ MaxAttempts \in 0..MaxAttempts
      BY <1>4, MetaAssumption, SizeAssumption DEF CmdEnd, Sessions, TypeInv, TypeOK, JobInv
    <3>2. LoadOrDefault(meta).confirmed # target
      BY <1>4, <3>1 DEF CmdEnd, LoadOrDefault, InitDefault, Slots, None
    <3>3. Agrees(SetPending(meta, target, session.version, session.size, session.crc, MaxAttempts))
      BY <1>0, <3>1, <3>2, SetPendingRecord
    <3> QED BY <1>0, <1>4, <2>2, <3>3 DEF StartMetaWrite, ram, CmdEnd
  <2> QED BY <1>4, <2>1, <2>2 DEF CmdEnd
<1>5. CASE BadFrame \/ CmdAbort \/ CmdMeta \/ CmdQuery \/ CmdBadState
  BY <1>0, <1>1, <1>5 DEF BadFrame, CmdAbort, CmdMeta, CmdQuery, CmdBadState, Refused, ram
<1>6. CASE \E h \in Headers : Header(h) BY <1>0, <1>1, <1>6 DEF Header, Refused, ram
<1>7. CASE \E d \in Payloads, seq \in {session.seq, session.seq + 1} : Data(seq, d)
  BY <1>0, <1>1, <1>7 DEF Data, Refused, DataFails, ram
<1> QED BY <1>2, <1>3, <1>4, <1>5, <1>6, <1>7 DEF Frame

LEMMA OtherAgree ==
  TypeInv /\ AgreeInv
    /\ (SlotErase \/ SlotWrite \/ AppConfirm \/ PowerOn \/ Reset \/ PowerCut \/ BitRot \/ UNCHANGED vars)
    => AgreeInv'
<1> SUFFICES ASSUME TypeInv, AgreeInv,
                    SlotErase \/ SlotWrite \/ AppConfirm \/ PowerOn \/ Reset \/ PowerCut \/ BitRot
                      \/ UNCHANGED vars
             PROVE  AgreeInv'
  OBVIOUS
<1> USE DEF AgreeInv, Uploading, MetaPlaces
<1>1. CASE SlotErase \/ SlotWrite BY <1>1 DEF SlotErase, SlotWrite, TypeInv, JobInv
<1>2. CASE AppConfirm
  <2>1. ~ConfirmRejects(meta) => Agrees(Confirm(meta)) BY ConfirmRecord DEF TypeInv, TypeOK
  <2> QED BY <1>2, <2>1 DEF AppConfirm, StartMetaWrite, ram
<1>3. CASE PowerOn BY <1>3 DEF PowerOn
<1>4. CASE Reset \/ PowerCut BY <1>4 DEF Reset, PowerCut, Stopped, ClearRam, Readable
<1>5. CASE BitRot \/ UNCHANGED vars BY <1>5 DEF BitRot, vars, ram
<1> QED BY <1>1, <1>2, <1>3, <1>4, <1>5

LEMMA AgreeNext == TypeInv /\ AgreeInv /\ [Next]_vars => AgreeInv'
  BY DecidePendingAgree, DecideConfirmedAgree, MetaStepAgree, FrameAgree, OtherAgree
     DEF Next, DeviceStep

LEMMA AgreeInvariant == Spec => [](TypeInv /\ AgreeInv)
<1>1. Init => TypeInv /\ AgreeInv BY TypeInit, AgreeInit
<1>2. (TypeInv /\ AgreeInv) /\ [Next]_vars => (TypeInv /\ AgreeInv)' BY TypeNext, AgreeNext
<1> QED BY <1>1, <1>2, PTL DEF Spec

\* Whatever is uploaded, confirmed, rejected, cut short or fails, a readable record is
\* consistent: the confirmed slot is the active one and holds an accepted image, and
\* a pending slot is on trial.
THEOREM RecordsAgree == Spec => []RecordAgrees
  BY AgreeInvariant, PTL DEF AgreeInv, RecordAgrees

LEMMA UploadStep ==
  TypeInv /\ AgreeInv /\ [Next]_vars =>
    (SlotErase \/ SlotWrite \/ PowerCut =>
       \A s \in Slots : Readable(meta) /\ meta.confirmed = s => flash'[s] = flash[s])
<1> SUFFICES ASSUME TypeInv, AgreeInv, SlotErase \/ SlotWrite \/ PowerCut,
                    NEW s \in Slots, Readable(meta), meta.confirmed = s
             PROVE  flash'[s] = flash[s]
  OBVIOUS
<1>1. CASE flash' = flash BY <1>1
<1>2. CASE pc \in {"slotErase", "slotWrite"}
  <2>1. target \in Slots /\ s # target /\ flash \in Flash
    BY <1>2 DEF TypeInv, TypeOK, JobInv, AgreeInv, Uploading, Flash
  <2>2. CASE pc = "slotErase"
    <3>1. job.size \in Nat BY <2>2, SizeAssumption DEF TypeInv, TypeOK, HeaderJobs
    <3>2. flash' \in {flash, ErasedUpTo(flash, target, job.size)} \cup CutErases(flash, target, job.size)
      BY <2>2 DEF SlotErase, SlotWrite, PowerCut
    <3> QED BY <2>1, <3>1, <3>2, EraseOps DEF Only
  <2>3. CASE pc = "slotWrite"
    <3>1. job.data \in Seq(Bytes) /\ session.received \in Nat
      BY <2>3, SizeAssumption DEF TypeInv, TypeOK, DataJobs, Sessions
    <3>2. flash' \in {flash, Written(flash, target, session.received, job.data)}
                        \cup CutWrites(flash, target, session.received, job.data)
      BY <2>3 DEF SlotErase, SlotWrite, PowerCut
    <3> QED BY <2>1, <3>1, <3>2, WriteOps DEF Only
  <2> QED BY <1>2, <2>2, <2>3
<1> QED BY <1>1, <1>2 DEF SlotErase, SlotWrite, PowerCut

\* No upload, complete or cut short, ever changes a cell of the slot that the stored
\* record calls confirmed (the target is the other slot, bld_engine.c:101-125).
THEOREM UploadsSpareConfirmed == Spec => UploadSparesConfirmed
<1>1. TypeInv /\ AgreeInv /\ [Next]_vars =>
        [SlotErase \/ SlotWrite \/ PowerCut =>
           \A s \in Slots : Readable(meta) /\ meta.confirmed = s => flash'[s] = flash[s]]_vars
  BY UploadStep
<1> QED BY <1>1, AgreeInvariant, PTL DEF Spec, UploadSparesConfirmed

-----------------------------------------------------------------------------
(* Trial boots are bounded.  TrialsBounded is not inductive: the attempts  *)
(* that the record still grants must fit under the bound together with the *)
(* boots already made, also in the record that is being written.           *)

Grants(r) == IF r.pending = None THEN 0 ELSE r.slots[r.pending].attempts

TrialInv ==
  /\ trials <= MaxAttempts
  /\ Readable(meta) => trials + Grants(meta) <= MaxAttempts
  /\ pc \in MetaPlaces /\ job.call = "spendAttempt" =>
       trials + Grants(job.record) + 1 <= MaxAttempts
  /\ pc \in MetaPlaces /\ job.call \in {"rejectPending", "rejectConfirmed", "confirm"} =>
       trials + Grants(job.record) <= MaxAttempts

LEMMA GrantsNat ==
  ASSUME NEW r \in Records
  PROVE  Grants(r) \in 0..MaxAttempts
  BY MetaAssumption DEF Grants, Records, SlotIds, SlotInfo

\* A record never grants more boots after a rejection.
LEMMA MarkBadGrants ==
  ASSUME TypeInv, TrialInv, NEW m \in {meta, Unreadable}, NEW s \in Slots
  PROVE  trials + Grants(MarkBad(m, s)) <= MaxAttempts
<1> DEFINE r == LoadOrDefault(m)
           b == MarkBad(m, s)
<1>1. m \in Records \cup {Unreadable} /\ r \in Records /\ b \in Records /\ trials \in Nat
  BY LoadRecord, MarkBadRecord DEF TypeInv, TypeOK
<1>2. trials + Grants(r) <= MaxAttempts
  BY <1>1, MetaAssumption DEF TrialInv, Readable, LoadOrDefault, InitDefault, Grants
<1>3. /\ b.pending = ClearedIf(r.pending, s)
      /\ \A t \in Slots \ {s} : b.slots[t] = r.slots[t]
  BY <1>1, MarkBadFields
<1>4. Grants(b) = 0 \/ Grants(b) = Grants(r)
  BY <1>1, <1>3 DEF Grants, ClearedIf, Records, SlotIds
<1> HIDE DEF r, b
<1>5. Grants(r) \in Nat /\ Grants(b) \in Nat BY <1>1, GrantsNat, MetaAssumption
<1> QED BY <1>1, <1>2, <1>4, <1>5, MetaAssumption DEF TrialInv, b

LEMMA TrialInit == Init => TrialInv
  BY MetaAssumption DEF Init, TrialInv, MetaPlaces, Readable

LEMMA DecidePendingTrials == TypeInv /\ TrialInv /\ DecidePending => TrialInv'
<1> SUFFICES ASSUME TypeInv, TrialInv, DecidePending PROVE TrialInv' OBVIOUS
<1>1. meta' = meta /\ trials' = trials BY DEF DecidePending, history
<1>2. CASE pc' \in {"poll", "confirmed"} BY <1>1, <1>2 DEF TrialInv, MetaPlaces
<1>3. ASSUME Readable(meta), ctrl'.pending # None,
             StartMetaWrite(MarkBad(meta, ctrl'.pending), "rejectPending")
      PROVE  TrialInv'
  <2>1. ctrl'.pending \in Slots
    BY <1>3, LoadRecord DEF DecidePending, TypeInv, TypeOK, Records, SlotIds
  <2>2. trials + Grants(MarkBad(meta, ctrl'.pending)) <= MaxAttempts BY <2>1, MarkBadGrants
  <2> QED BY <1>1, <1>3, <2>2 DEF StartMetaWrite, TrialInv, Readable, Grants
<1>4. ASSUME Readable(meta), meta.pending # None, meta.slots[meta.pending].attempts # 0,
             ~DecrementRejects(meta), StartMetaWrite(Decrement(meta), "spendAttempt")
      PROVE  TrialInv'
  <2>1. meta \in Records /\ LoadOrDefault(meta) = meta /\ trials \in Nat
    BY <1>4 DEF TypeInv, TypeOK, Readable, LoadOrDefault
  <2>2. Grants(Decrement(meta)) = OneLess(meta.slots[meta.pending].attempts)
    BY <1>4, <2>1, DecrementFields DEF Grants
  <2>3. Grants(meta) = meta.slots[meta.pending].attempts /\ Grants(meta) \in Nat
    BY <1>4, <2>1, GrantsNat, MetaAssumption DEF Grants
  <2>4. trials + Grants(Decrement(meta)) + 1 <= MaxAttempts
    BY <1>4, <2>1, <2>2, <2>3, MetaAssumption DEF TrialInv, OneLess
  <2> QED BY <1>1, <1>4, <2>4 DEF StartMetaWrite, TrialInv, Readable, Grants
<1> QED BY <1>2, <1>3, <1>4 DEF DecidePending, NothingToBoot, LoadOrDefault

LEMMA DecideConfirmedTrials == TypeInv /\ TrialInv /\ DecideConfirmed => TrialInv'
<1> SUFFICES ASSUME TypeInv, TrialInv, DecideConfirmed PROVE TrialInv' OBVIOUS
<1>1. meta' = meta /\ trials' = trials BY DEF DecideConfirmed, history
<1>2. CASE pc' \in {"poll", "app"} BY <1>1, <1>2 DEF TrialInv, MetaPlaces
<1>3. ASSUME ctrl.confirmed # None, StartMetaWrite(MarkBad(meta, ctrl.confirmed), "rejectConfirmed")
      PROVE  TrialInv'
  <2>1. ctrl.confirmed \in Slots BY <1>3 DEF TypeInv, TypeOK, Records, SlotIds
  <2>2. trials + Grants(MarkBad(meta, ctrl.confirmed)) <= MaxAttempts BY <2>1, MarkBadGrants
  <2> QED BY <1>1, <1>3, <2>2 DEF StartMetaWrite, TrialInv, Readable, Grants
<1> QED BY <1>2, <1>3 DEF DecideConfirmed, NothingToBoot, Jump

LEMMA MetaStepTrials == TypeInv /\ TrialInv /\ (MetaErase \/ MetaWrite) => TrialInv'
<1> SUFFICES ASSUME TypeInv, TrialInv, MetaErase \/ MetaWrite PROVE TrialInv' OBVIOUS
<1>1. job.record \in Records /\ pc \in MetaPlaces /\ trials \in Nat
  BY DEF MetaErase, MetaWrite, TypeInv, TypeOK, MetaJobs, MetaPlaces
<1>g. Grants(job.record) \in Nat /\ Grants(job.record) <= MaxAttempts
  BY <1>1, GrantsNat, MetaAssumption
<1>2. CASE meta' = Unreadable /\ pc' = "metaWrite" /\ UNCHANGED <<job, trials>>
  BY <1>1, <1>2 DEF TrialInv, Readable, MetaPlaces, Grants
<1>3. ASSUME NEW ok \in BOOLEAN, AfterMetaWrite(ok),
             ok => meta' = job.record, ~ok => meta' \in {meta, Unreadable}
      PROVE  TrialInv'
  <2>1. CASE job.call = "spendAttempt" /\ AfterSpendAttempt(ok)
    <3>1. CASE ok
      <4>1. pc' = "app" /\ trials' = trials + 1 /\ meta' = job.record
        BY <1>3, <2>1, <3>1, MetaAssumption DEF AfterSpendAttempt, Jump, TrialInv
      <4>2. trials + Grants(job.record) + 1 <= MaxAttempts BY <1>1, <2>1 DEF TrialInv
      <4> QED BY <1>1, <1>g, <4>1, <4>2, MetaAssumption DEF TrialInv, MetaPlaces, Grants
    <3>2. CASE ~ok
      <4>1. ctrl.pending \in Slots BY <1>1, <2>1 DEF TypeInv, JobInv
      <4>2. trials + Grants(MarkBad(meta', ctrl.pending)) <= MaxAttempts
        BY <1>3, <3>2, <4>1, MarkBadGrants
      <4> QED BY <1>3, <2>1, <3>2, <4>2
              DEF AfterSpendAttempt, StartMetaWrite, TrialInv, Readable, Grants
    <3> QED BY <3>1, <3>2
  <2>2. ASSUME job.call \in {"rejectPending", "rejectConfirmed", "confirm"}, trials' = trials,
               pc' \notin MetaPlaces
        PROVE  TrialInv'
    BY <1>1, <1>3, <2>2 DEF TrialInv, Readable, Grants
  <2>3. CASE AfterSetPending(ok)
    BY <1>1, <1>3, <1>g, <2>3, MetaAssumption DEF AfterSetPending, TrialInv, Readable, Grants, MetaPlaces
  <2> QED BY <1>3, <2>1, <2>2, <2>3
          DEF AfterMetaWrite, AfterRejectPending, AfterRejectConfirmed, AfterConfirm, NothingToBoot, MetaPlaces
<1> QED BY <1>2, <1>3 DEF MetaErase, MetaWrite

LEMMA OtherTrials ==
  TypeInv /\ TrialInv
    /\ (Frame \/ SlotErase \/ SlotWrite \/ AppConfirm \/ PowerOn \/ Reset \/ PowerCut \/ BitRot
          \/ UNCHANGED vars)
    => TrialInv'
<1> SUFFICES ASSUME TypeInv, TrialInv,
                    Frame \/ SlotErase \/ SlotWrite \/ AppConfirm \/ PowerOn \/ Reset \/ PowerCut
                      \/ BitRot \/ UNCHANGED vars
             PROVE  TrialInv'
  OBVIOUS
<1> USE DEF TrialInv, Readable, Grants, MetaPlaces
<1>1. CASE Frame
  <2>1. meta' = meta /\ trials' = trials
    BY <1>1 DEF Frame, BadFrame, CmdAbort, CmdMeta, CmdStart, CmdQuery, CmdBoot, CmdEnd, CmdBadState,
         Header, Data, Refused, EndFails, DataFails, history
  <2>2. pc' \notin MetaPlaces \/ job'.call = "setPending"
    BY <1>1 DEF Frame, BadFrame, CmdAbort, CmdMeta, CmdStart, CmdQuery, CmdBoot, CmdEnd, CmdBadState,
         Header, Data, Refused, EndFails, DataFails, StartMetaWrite
  <2> QED BY <2>1, <2>2
<1>2. CASE SlotErase \/ SlotWrite \/ PowerOn \/ Reset \/ PowerCut
  BY <1>2 DEF SlotErase, SlotWrite, PowerOn, Reset, PowerCut, Stopped, history
<1>3. CASE AppConfirm
  <2>1. CASE ConfirmRejects(meta) BY <1>3, <2>1 DEF AppConfirm, history
  <2>2. CASE ~ConfirmRejects(meta)
    <3>1. Grants(Confirm(meta)) = 0
      BY <2>2 DEF ConfirmRejects, Confirm, TypeInv, TypeOK, Records, Slots, None
    <3>2. trials' = trials /\ meta' = meta /\ job'.record = Confirm(meta) /\ job'.call = "confirm"
      BY <1>3, <2>2 DEF AppConfirm, StartMetaWrite, history
    <3> QED BY <3>1, <3>2 DEF TypeInv, TypeOK
  <2> QED BY <2>1, <2>2
<1>4. CASE BitRot \/ UNCHANGED vars BY <1>4 DEF BitRot, vars, history
<1> QED BY <1>1, <1>2, <1>3, <1>4

LEMMA TrialNext == TypeInv /\ TrialInv /\ [Next]_vars => TrialInv'
  BY DecidePendingTrials, DecideConfirmedTrials, MetaStepTrials, OtherTrials DEF Next, DeviceStep

\* However often power fails and whatever flash operation fails, an image is booted on
\* trial at most BLD_MAX_BOOT_ATTEMPTS times: the attempt is spent in the stored record
\* before the jump (bld_engine.c:574-581).
THEOREM TrialsAreBounded == Spec => []TrialsBounded
<1>1. Init => TypeInv /\ TrialInv BY TypeInit, TrialInit
<1>2. (TypeInv /\ TrialInv) /\ [Next]_vars => (TypeInv /\ TrialInv)' BY TypeNext, TrialNext
<1>3. TrialInv => TrialsBounded BY DEF TrialInv, TrialsBounded
<1> QED BY <1>1, <1>2, <1>3, PTL DEF Spec
=============================================================================
