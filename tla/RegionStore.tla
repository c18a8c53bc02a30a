----------------------------- MODULE RegionStore -----------------------------
(***************************************************************************)
(* What bld_storage.h promises its callers: regions that know nothing of   *)
(* each other, addressed from 0.  A call on a region works on the pages    *)
(* (erase) or doublewords (write) that its bytes lie in; it may fail at    *)
(* any point, and when it reports success everything was done.             *)
(***************************************************************************)
EXTENDS Naturals, Sequences

CONSTANTS
  Regions, RegionSize,    \* names; their sizes in bytes
  PageSize, DwSize,       \* units of erasing and of programming
  Bytes, Erased, Torn,    \* contents of a cell
  NoCall

VARIABLES
  cells,    \* content of every region
  call,     \* the call being served, or NoCall
  reply     \* status and data of the last call

storeVars == <<cells, call, reply>>

Ops == {"erase", "write", "read"}
NoReply == [status |-> "none", data |-> <<>>]

\* The offsets that a call names, and those that share a unit with one of them.
Asked(c) == {i \in 0..(RegionSize[c.region] - 1) : c.offset <= i /\ i < c.offset + c.len}
InUnits(c, unit) ==
  {i \in 0..(RegionSize[c.region] - 1) : \E j \in Asked(c) : i \div unit = j \div unit}

StoreInit ==
  /\ cells = [r \in Regions |-> [i \in 0..(RegionSize[r] - 1) |-> Erased]]
  /\ call = NoCall /\ reply = NoReply

Ask ==
  /\ call = NoCall /\ call' # NoCall
  /\ call'.op \in Ops /\ call'.region \in Regions
  /\ reply' = NoReply
  /\ UNCHANGED cells

\* Nothing changes but units of the call, to what the call is for or to rubbish.
Touched ==
  \A r \in Regions : \A i \in DOMAIN cells[r] :
    cells'[r][i] # cells[r][i] =>
      /\ r = call.region
      /\ \/ call.op = "erase" /\ i \in InUnits(call, PageSize) /\ cells'[r][i] \in {Erased, Torn}
         \/ call.op = "write" /\ i \in InUnits(call, DwSize) /\ cells'[r][i] = Torn
         \/ call.op = "write" /\ i \in Asked(call) /\ cells'[r][i] = call.data[i - call.offset + 1]

Work == call # NoCall /\ Touched /\ UNCHANGED <<call, reply>>

Fail ==
  /\ call # NoCall /\ Touched
  /\ call' = NoCall /\ reply' = [status |-> "error", data |-> <<>>]

\* Success: every byte of the call exists and holds what it should.
Done(c) ==
  /\ c.len > 0 /\ c.offset + c.len <= RegionSize[c.region]
  /\ c.op = "erase" => \A i \in InUnits(c, PageSize) : cells[c.region][i] = Erased
  /\ c.op = "write" => \A i \in Asked(c) : cells[c.region][i] = c.data[i - c.offset + 1]

Succeed ==
  /\ call # NoCall /\ Done(call)
  /\ call' = NoCall
  /\ reply' = [status |-> "ok",
               data |-> IF call.op = "read"
                        THEN [k \in 1..call.len |-> cells[call.region][call.offset + k - 1]]
                        ELSE <<>>]
  /\ UNCHANGED cells

StoreNext == Ask \/ Work \/ Fail \/ Succeed

StoreSpec == StoreInit /\ [][StoreNext]_storeVars
=============================================================================
