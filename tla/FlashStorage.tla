---------------------------- MODULE FlashStorage ----------------------------
(***************************************************************************)
(* The flash backend of the bootloader's storage interface                 *)
(* (bootloader/src/bld_storage_flash.c): a call names a region, an offset  *)
(* and a length; the backend checks the range, turns it into addresses,    *)
(* splits an erase at the bank boundary and a write into doublewords, and  *)
(* gives the orders to the flash one by one between unlock and lock.  Any  *)
(* order may fail.  Addresses and sizes wrap at AddressSpace.              *)
(***************************************************************************)
EXTENDS Naturals, Sequences

CONSTANTS
  Regions, RegionSize,
  Layouts,                       \* where the regions may begin
  AddressSpace,                  \* 2^32 in the code
  FlashBase, BankSize,           \* two banks of this size
  PageSize, DwSize,
  Bytes, Erased, Torn, Foreign,  \* Foreign: what is outside every region
  NoCall,
  Offsets, Lengths, Payloads     \* what the callers ask for

ASSUME FlashAssumption ==
  /\ {PageSize, DwSize, BankSize} \subseteq Nat \ {0} /\ {AddressSpace, FlashBase} \subseteq Nat
  /\ PageSize % DwSize = 0 /\ BankSize % PageSize = 0 /\ FlashBase % PageSize = 0
  /\ PageSize <= FlashBase /\ FlashBase + 2 * BankSize < AddressSpace
  /\ \A r \in Regions : RegionSize[r] \in Nat /\ RegionSize[r] % PageSize = 0
  /\ \A base \in Layouts : \A r \in Regions :
       /\ base[r] \in Nat /\ base[r] % PageSize = 0 /\ FlashBase <= base[r]
       /\ base[r] + RegionSize[r] <= FlashBase + 2 * BankSize
  /\ \A base \in Layouts : \A r, s \in Regions :
       r # s => base[r] + RegionSize[r] <= base[s] \/ base[s] + RegionSize[s] <= base[r]
  /\ Offsets \subseteq Nat /\ Lengths \subseteq Nat /\ Payloads \subseteq Seq(Bytes)

Ops == {"erase", "write", "read"}
Banks == {1, 2}
Addresses == FlashBase..(FlashBase + 2 * BankSize - 1)

VARIABLES
  base,         \* the layout: region_base of every region
  memory,       \* content of the flash
  programmed,   \* doublewords that hold something: programming them again fails
  locked,       \* the control register of the flash
  todo,         \* orders of the call that are still to be given
  call, reply

vars == <<base, memory, programmed, locked, todo, call, reply>>

NoReply == [status |-> "none", data |-> <<>>]
Calls ==
  [op : {"erase", "read"}, region : Regions, offset : Offsets, len : Lengths, data : {<<>>}]
  \cup {[op |-> "write", region |-> r, offset |-> o, len |-> Len(d), data |-> d] :
          r \in Regions, o \in Offsets, d \in Payloads}

ASSUME NoCallAssumption == NoCall \notin Calls

InRegion(a) == \E r \in Regions : base[r] <= a /\ a < base[r] + RegionSize[r]
Doubleword(a) == a - (a % DwSize)

Init ==
  /\ base \in Layouts
  /\ memory = [a \in Addresses |-> IF InRegion(a) THEN Erased ELSE Foreign]
  /\ programmed = {Doubleword(a) : a \in {b \in Addresses : ~InRegion(b)}}
  /\ locked = TRUE /\ todo = <<>>
  /\ call = NoCall /\ reply = NoReply

-----------------------------------------------------------------------------
(* Arithmetic on addresses *)

Wrap(n) == n % AddressSpace
AlignBeyond(n, unit) == (Wrap(n + unit) \div unit) * unit    \* mutated form of AlignUp
AlignUp(n, unit) == (Wrap(n + unit - 1) \div unit) * unit

RangeSum(r, offset, len) == Wrap(offset + len) <= RegionSize[r]    \* mutated form of RangeValid
RangeValid(r, offset, len) == offset <= RegionSize[r] /\ len <= RegionSize[r] - offset

AbsAddr(c) == Wrap(base[c.region] + c.offset)

BankBase(bank) == IF bank = 1 THEN FlashBase ELSE FlashBase + BankSize
BankOfNext(a) == IF a + 1 < FlashBase + BankSize THEN 1 ELSE 2    \* mutated form of BankOf
BankOf(a) == IF a < FlashBase + BankSize THEN 1 ELSE 2
PageInBank(a) == (a - BankBase(BankOf(a))) \div PageSize

\* Erase the pages of addresses first to last of one bank.
EraseOrder(bank, first, last) ==
  [kind |-> "erase", bank |-> bank, page |-> PageInBank(first),
   count |-> PageInBank(last) - PageInBank(first) + 1]

EraseOrders(c) ==
  LET start == AbsAddr(c)
      end == Wrap(start + AlignUp(c.len, PageSize) - 1)
  IN IF BankOf(start) = BankOf(end) THEN <<EraseOrder(BankOf(start), start, end)>>
     ELSE <<EraseOrder(1, start, FlashBase + BankSize - 1),
            EraseOrder(2, FlashBase + BankSize, end)>>

\* One doubleword per DwSize bytes of data; the last one is filled with erased bytes.
Filled(d) == d \o [i \in 1..((DwSize - (Len(d) % DwSize)) % DwSize) |-> Erased]
ProgramOrders(c) ==
  [k \in 1..(Len(Filled(c.data)) \div DwSize) |->
     [kind |-> "program", address |-> Wrap(AbsAddr(c) + (k - 1) * DwSize),
      data |-> SubSeq(Filled(c.data), (k - 1) * DwSize + 1, k * DwSize)]]

Orders(c) == IF c.op = "erase" THEN EraseOrders(c) ELSE ProgramOrders(c)

-----------------------------------------------------------------------------
(* The hardware *)

PageCells(bank, first, count) ==
  {a \in Addresses : /\ BankBase(bank) + first * PageSize <= a
                     /\ a < BankBase(bank) + (first + count) * PageSize}

At(a) == IF a \in Addresses THEN memory[a] ELSE Foreign
Put(cells, x) == [a \in Addresses |-> IF a \in cells THEN x ELSE memory[a]]

ErasePages(o) ==
  LET gone == PageCells(o.bank, o.page, o.count) IN
  /\ memory' = Put(gone, Erased)
  /\ programmed' = programmed \ gone

\* The erase stops at a page, which is left half erased.
EraseStops(o) ==
  \E k \in 0..(o.count - 1) :
    LET gone == PageCells(o.bank, o.page, k)
        torn == PageCells(o.bank, o.page + k, 1)
    IN /\ memory' = [a \in Addresses |-> IF a \in torn THEN Torn ELSE Put(gone, Erased)[a]]
       /\ programmed' = (programmed \ gone) \cup {Doubleword(a) : a \in torn}

DoublewordCells(a) == a..(a + DwSize - 1)
Programmable(o) ==
  /\ o.address % DwSize = 0 /\ DoublewordCells(o.address) \subseteq Addresses
  /\ o.address \notin programmed

Program(o) ==
  /\ Programmable(o)
  /\ memory' = [a \in Addresses |-> IF a \in DoublewordCells(o.address)
                                    THEN o.data[a - o.address + 1] ELSE memory[a]]
  /\ programmed' = programmed \cup {o.address}

ProgramFails(o) ==
  \/ UNCHANGED <<memory, programmed>>
  \/ /\ Programmable(o)
     /\ memory' = Put(DoublewordCells(o.address), Torn)
     /\ programmed' = programmed \cup {o.address}

-----------------------------------------------------------------------------
(* The calls *)

Request ==
  /\ call = NoCall
  /\ call' \in Calls
  /\ reply' = NoReply
  /\ UNCHANGED <<base, memory, programmed, locked, todo>>

Return(status, data) ==
  /\ call' = NoCall
  /\ reply' = [status |-> status, data |-> data]
  /\ UNCHANGED base

Entered == call # NoCall /\ locked

\* erase, write and read check their arguments before they touch the flash.
Accepted(c) ==
  /\ c.len # 0
  /\ RangeValid(c.region, c.offset, c.len)
  /\ c.op = "erase" => AbsAddr(c) % PageSize = 0

Refuse ==
  /\ Entered /\ ~Accepted(call)
  /\ Return("error", <<>>)
  /\ UNCHANGED <<memory, programmed, locked, todo>>

Read ==
  /\ Entered /\ Accepted(call) /\ call.op = "read"
  /\ Return("ok", [k \in 1..call.len |-> At(AbsAddr(call) + k - 1)])
  /\ UNCHANGED <<memory, programmed, locked, todo>>

Unlock ==
  /\ Entered /\ Accepted(call) /\ call.op # "read"
  /\ \/ /\ locked' = FALSE /\ todo' = Orders(call)
        /\ UNCHANGED <<base, call, reply>>
     \/ /\ Return("error", <<>>)
        /\ UNCHANGED <<locked, todo>>
  /\ UNCHANGED <<memory, programmed>>

\* The next order: erase_pages, or the alignment check and program_doubleword.
Operate ==
  /\ ~locked /\ todo # <<>>
  /\ \/ todo[1].kind = "erase" /\ ErasePages(todo[1])
     \/ todo[1].kind = "program" /\ Program(todo[1])
  /\ todo' = Tail(todo)
  /\ UNCHANGED <<base, locked, call, reply>>

Abandon == UNCHANGED locked /\ todo' = <<>>    \* mutated form of Lock
Lock == locked' = TRUE /\ todo' = <<>>

OrderFails ==
  /\ ~locked /\ todo # <<>>
  /\ \/ todo[1].kind = "erase" /\ EraseStops(todo[1])
     \/ todo[1].kind = "program" /\ ProgramFails(todo[1])
  /\ Lock
  /\ Return("error", <<>>)

Finish ==
  /\ ~locked /\ todo = <<>>
  /\ Lock
  /\ Return("ok", <<>>)
  /\ UNCHANGED <<memory, programmed>>

Next == Request \/ Refuse \/ Read \/ Unlock \/ Operate \/ OrderFails \/ Finish

Spec == Init /\ [][Next]_vars

-----------------------------------------------------------------------------
(* Properties *)

\* No call leaves the flash writable, whichever of its orders fails.
LockedBetweenCalls == call = NoCall => locked

\* What lies outside the regions (the bootloader itself, unused pages) is never
\* touched: not by a range that wraps, not by rounding up, not in the other bank.
ForeignKept == \A a \in Addresses : ~InRegion(a) => memory[a] = Foreign

\* The addresses, banks and doublewords implement the regions of bld_storage.h.
Store == INSTANCE RegionStore WITH
  cells <- [r \in Regions |-> [i \in 0..(RegionSize[r] - 1) |-> memory[base[r] + i]]]
ImplementsRegionStore == Store!StoreSpec
=============================================================================
