------------------------------ MODULE BldMeta ------------------------------
(***************************************************************************)
(* The persistent metadata record of the dual-slot bootloader and the      *)
(* operations that compute its next value (bootloader/src/bld_meta.c).     *)
(*                                                                         *)
(* Every operation of bld_meta.c loads the record, edits the copy in RAM   *)
(* and writes the copy back.  The definitions below are the edits and the  *)
(* conditions under which an operation returns BLD_META_ERR before writing *)
(* anything; erasing and programming the flash page are steps of BldDevice.*)
(* A record that bld_meta_record_read rejects (bad magic, slot id, state   *)
(* or CRC) is the single value Unreadable.                                 *)
(***************************************************************************)
EXTENDS Naturals

CONSTANTS
  Crcs,         \* the CRC32 values that occur
  ZeroCrc,      \* the CRC32 value 0, which no operation accepts
  Unreadable,   \* content of the metadata page that is not a valid record
  MaxAttempts   \* BLD_MAX_BOOT_ATTEMPTS

ASSUME MetaAssumption ==
  /\ ZeroCrc \in Crcs
  /\ MaxAttempts \in Nat \ {0}

Slots == {"A", "B"}
None == "none"            \* BLD_SLOT_ID_NONE
SlotIds == Slots \cup {None}
Other(s) == IF s = "A" THEN "B" ELSE "A"

States == {"EMPTY", "VALID", "PENDING", "CONFIRMED", "BAD"}

SlotInfo ==
  [version : Nat, size : Nat, crc : Crcs, state : States, attempts : 0..MaxAttempts]

Records ==
  [active : SlotIds, confirmed : SlotIds, pending : SlotIds, slots : [Slots -> SlotInfo]]

ASSUME UnreadableAssumption == Unreadable \notin Records

-----------------------------------------------------------------------------
(* Loading *)

EmptyInfo ==
  [version |-> 0, size |-> 0, crc |-> ZeroCrc, state |-> "EMPTY", attempts |-> 0]

InitDefault ==
  [active |-> None, confirmed |-> None, pending |-> None,
   slots |-> [s \in Slots |-> EmptyInfo]]

Readable(m) == m # Unreadable

LoadOrDefault(m) == IF Readable(m) THEN m ELSE InitDefault

-----------------------------------------------------------------------------
(* Installing an image: bld_meta_set_pending *)

SetPendingRejects(v, n, crc, k) == v = 0 \/ n = 0 \/ crc = ZeroCrc \/ k = 0

\* Mutated form: starts from a fresh record.
SetPendingAfresh(m, s, v, n, crc, k) ==
  [InitDefault EXCEPT !.pending = s,
     !.slots[s] = [version |-> v, size |-> n, crc |-> crc, state |-> "PENDING", attempts |-> k]]

SetPending(m, s, v, n, crc, k) ==
  LET r == LoadOrDefault(m) IN
  [active |-> r.active, confirmed |-> r.confirmed, pending |-> s,
   slots |-> [r.slots EXCEPT ![s] = [version |-> v, size |-> n, crc |-> crc,
                                     state |-> "PENDING", attempts |-> k]]]

-----------------------------------------------------------------------------
(* Confirming an image: bld_meta_confirm_slot.  The slot is the one the    *)
(* record calls pending, whichever slot the caller runs from.              *)

ConfirmRejects(m) == ~Readable(m) \/ m.pending \notin Slots

Retired(i) == IF i.state = "CONFIRMED" THEN [i EXCEPT !.state = "VALID"] ELSE i

Confirm(m) ==
  LET s == m.pending IN
  [m EXCEPT
     !.active = s,
     !.confirmed = s,
     !.pending = None,
     !.slots = [t \in Slots |->
                  IF t = s THEN [m.slots[t] EXCEPT !.state = "CONFIRMED", !.attempts = 0]
                           ELSE Retired(m.slots[t])]]

-----------------------------------------------------------------------------
(* Rejecting an image: bld_meta_mark_slot_bad *)

SelectableForActive(i) == i.state \in {"CONFIRMED", "VALID", "PENDING"}
SelectableForConfirmed(i) == i.state \in {"CONFIRMED", "VALID"}

\* Where a slot field points after slot s is rejected.
KeepsPending(p, s) == p            \* mutated form: the pending field is not cleared
ClearedIf(p, s) == IF p = s THEN None ELSE p

MovedOff(p, s, ok) == IF p # s THEN p ELSE IF ok THEN Other(s) ELSE None

MarkBad(m, s) ==
  LET r == LoadOrDefault(m)
      o == r.slots[Other(s)]
  IN [active |-> MovedOff(r.active, s, SelectableForActive(o)),
      confirmed |-> MovedOff(r.confirmed, s, SelectableForConfirmed(o)),
      pending |-> ClearedIf(r.pending, s),
      slots |-> [r.slots EXCEPT ![s] = [@ EXCEPT !.state = "BAD", !.attempts = 0]]]

-----------------------------------------------------------------------------
(* Spending a trial boot: bld_meta_decrement_pending_attempts *)

DecrementRejects(m) ==
  LET r == LoadOrDefault(m) IN
  r.pending = None \/ r.slots[r.pending].state # "PENDING"

SpendsNothing(k) == k              \* mutated form: the attempt is not counted
OneLess(k) == IF k > 0 THEN k - 1 ELSE 0

Decrement(m) ==
  LET r == LoadOrDefault(m) IN
  [r EXCEPT !.slots[r.pending].attempts = OneLess(@)]

-----------------------------------------------------------------------------
(* What the engine reads from the record: the slot an upload goes to and   *)
(* whether a slot may be booted.                                           *)

\* mutated form: the active slot instead of the other one
ChooseActive(c) == IF c.active # None THEN c.active ELSE "A"
ChooseTarget(c) ==
  IF c.active # None THEN Other(c.active)
  ELSE IF c.confirmed # None THEN Other(c.confirmed)
  ELSE "A"

IsBootable(i) == i.state \in {"CONFIRMED", "VALID", "PENDING"}
-----------------------------------------------------------------------------
\* The three slot fields of a stored record agree with the slot states: the
\* confirmed slot is the active one and holds an accepted image, the pending
\* slot is on trial.  choose_target_slot (bld_engine.c:101-125) relies on it
\* when it looks at the active slot first.
Agrees(r) ==
  /\ r.confirmed # None =>
       /\ r.active = r.confirmed
       /\ r.slots[r.confirmed].state \in {"CONFIRMED", "VALID"}
  /\ r.pending # None => r.slots[r.pending].state = "PENDING"
=============================================================================
