------------------------------- MODULE UartDma -------------------------------
(***************************************************************************)
(* The bootloader's receiver (bootloader/src/bld_transport_uart_dma.c):    *)
(* the DMA fills a chunk, the receive interrupt copies it into a ring, and *)
(* the main loop looks for frames in the ring.  The interrupt may come     *)
(* between any two accesses of the main loop; it owns the counter w, the   *)
(* main loop owns r, and both wrap.  The host sends one message after the  *)
(* other, without waiting for answers.  A message stands for a frame       *)
(* SOF | TYPE | LEN | PAYLOAD | CRC32 | EOF; type and CRC are not told     *)
(* apart from the payload by this code.                                    *)
(***************************************************************************)
EXTENDS Naturals, Sequences, SequencesExt

CONSTANTS
  Chunk, RingSize,       \* BLD_UART_DMA_RX_CHUNK, BLD_UART_RING_SIZE
  CounterSpace,          \* 2^32 in the code
  Sof, Eof, LenAt, Overhead, MaxLen,
  Messages,              \* what the host sends
  MaxSent,               \* bound: messages in a behaviour
  LineFaults,            \* whether bytes may be lost on the line
  StartFails             \* whether the driver may refuse to start reception

ASSUME UartAssumption ==
  /\ {Chunk, RingSize, CounterSpace, MaxLen, Overhead} \subseteq Nat \ {0}
  /\ {LenAt, Sof, Eof, MaxSent} \subseteq Nat
  /\ CounterSpace > RingSize /\ CounterSpace % RingSize = 0
  /\ LenAt < Overhead - 1 /\ Overhead <= MaxLen /\ MaxLen <= RingSize
  /\ LineFaults \in BOOLEAN /\ StartFails \in BOOLEAN
  /\ Messages \subseteq Seq(Nat)
  /\ \A m \in Messages :     \* the host sends frames that the bootloader has room for
       /\ Len(m) = m[LenAt + 1] + Overhead /\ Len(m) \in Overhead..MaxLen
       /\ m[1] = Sof /\ m[Len(m)] = Eof

VARIABLES
  sent,          \* messages the host has begun to send
  line,          \* bytes on the line
  dma, armed,    \* content of dma_rx; whether reception is started
  ring, w, r,
  pc,            \* where the parser is in an iteration of its loop
  total, out,    \* length of the frame at the front; bytes of it already read
  delivered,     \* frames returned to the engine
  lost           \* history: a byte was lost on the line or found no room, or the
                 \* driver refused to start reception

vars == <<sent, line, dma, armed, ring, w, r, pc, total, out, delivered, lost>>
wire == <<sent, line>>
receiver == <<dma, armed, ring, w>>
parser == <<r, pc, total, out, delivered>>

\* The result of rx_start is ignored: a reception that is refused is not tried again.
Started(on, gone, before) ==
  \/ on = TRUE /\ gone = before
  \/ StartFails /\ on = FALSE /\ gone = TRUE

Init ==
  /\ sent = <<>> /\ line = <<>>
  /\ dma = <<>> /\ Started(armed, lost, FALSE)       \* bld_uart_dma_start
  /\ ring = [i \in 0..(RingSize - 1) |-> 0] /\ w = 0 /\ r = 0
  /\ pc = "idle" /\ total = 0 /\ out = <<>> /\ delivered = <<>>

-----------------------------------------------------------------------------
(* Host and line *)

Send(m) ==
  /\ line = <<>> /\ Len(sent) < MaxSent
  /\ sent' = Append(sent, m) /\ line' = m
  /\ UNCHANGED <<receiver, parser, lost>>

\* A byte reaches the DMA; while the driver does not receive it is gone.
Receive ==
  /\ line # <<>> /\ (armed => Len(dma) < Chunk)
  /\ line' = Tail(line)
  /\ dma' = IF armed THEN Append(dma, line[1]) ELSE dma
  /\ UNCHANGED <<sent, armed, ring, w, parser, lost>>

-----------------------------------------------------------------------------
(* The interrupt *)

Count == (w + CounterSpace - r) % CounterSpace
Free == RingSize - Count

RoomForOne(n) == Free > 0    \* mutated form of RoomFor
RoomFor(n) == n <= Free

Pushed(s) ==
  [i \in 0..(RingSize - 1) |->
     LET ks == {k \in 1..Len(s) : (w + k - 1) % RingSize = i}
     IN IF ks = {} THEN ring[i] ELSE s[CHOOSE k \in ks : \A j \in ks : j <= k]]

RingPush(s) ==
  IF RoomFor(Len(s))
  THEN ring' = Pushed(s) /\ w' = (w + Len(s)) % CounterSpace
  ELSE UNCHANGED <<ring, w>>

\* gone: whether bytes were lost before.  LeaveOff is its mutated form.
LeaveOff(gone) == dma' = <<>> /\ armed' = FALSE /\ lost' = gone
RxStart(gone) == dma' = <<>> /\ Started(armed', lost', gone)

\* The chunk is full, or the line was idle for a moment.
OnRxEvent ==
  /\ armed /\ dma # <<>>
  /\ RingPush(dma)
  /\ RxStart(lost \/ ~RoomFor(Len(dma)))
  /\ UNCHANGED <<wire, parser>>

\* A byte is overrun or garbled: the driver stops, and what the DMA had is gone.
OnError ==
  /\ LineFaults /\ armed /\ line # <<>>
  /\ line' = Tail(line)
  /\ RxStart(TRUE)
  /\ UNCHANGED <<sent, ring, w, parser>>

-----------------------------------------------------------------------------
(* The parser: one action per access to the ring that the interrupt can     *)
(* separate from the next.                                                 *)

Peek(offset) == ring[(r + offset) % RingSize]

\* The iteration ends; the loop goes on, or time is up and the call returns.
Continue == pc' \in {"header", "idle"}
RingDrop == r' = (r + 1) % CounterSpace

Call ==
  /\ pc = "idle" /\ pc' = "header"
  /\ UNCHANGED <<wire, receiver, r, total, out, delivered, lost>>

Header ==
  /\ pc = "header"
  /\ \/ Count <= LenAt /\ Continue /\ UNCHANGED r
     \/ Count > LenAt /\ Peek(0) # Sof /\ RingDrop /\ Continue
     \/ Count > LenAt /\ Peek(0) = Sof /\ pc' = "length" /\ UNCHANGED r
  /\ UNCHANGED <<wire, receiver, total, out, delivered, lost>>

AnyLength(n) == TRUE    \* mutated form of LengthOk
LengthOk(n) == n <= MaxLen

Length ==
  /\ pc = "length"
  /\ LET n == Peek(LenAt) + Overhead IN
       \/ LengthOk(n) /\ pc' = "body" /\ total' = n /\ UNCHANGED r
       \/ ~LengthOk(n) /\ RingDrop /\ Continue /\ UNCHANGED total
  /\ UNCHANGED <<wire, receiver, out, delivered, lost>>

\* Mutated form of Body: what is not complete is thrown away.
Impatient ==
  /\ pc = "body"
  /\ \/ Count < total /\ RingDrop /\ Continue
     \/ Count >= total /\ pc' = "eof" /\ UNCHANGED r
  /\ UNCHANGED <<wire, receiver, total, out, delivered, lost>>
Body ==
  /\ pc = "body"
  /\ \/ Count < total /\ Continue
     \/ Count >= total /\ pc' = "eof"
  /\ UNCHANGED <<wire, receiver, r, total, out, delivered, lost>>

End ==
  /\ pc = "eof"
  /\ \/ Peek(total - 1) # Eof /\ RingDrop /\ Continue
     \/ Peek(total - 1) = Eof /\ pc' = "read" /\ UNCHANGED r
  /\ UNCHANGED <<wire, receiver, total, out, delivered, lost>>

\* ring_read copies byte by byte; the last one completes the frame.
Read ==
  /\ pc = "read"
  /\ RingDrop
  /\ LET frame == Append(out, Peek(0)) IN
       \/ Len(frame) < total /\ out' = frame /\ UNCHANGED <<pc, total, delivered>>
       \/ /\ Len(frame) = total /\ delivered' = Append(delivered, frame)
          /\ pc' = "idle" /\ out' = <<>> /\ total' = 0
  /\ UNCHANGED <<wire, receiver, lost>>

ParserStep == Call \/ Header \/ Length \/ Body \/ End \/ Read

Next ==
  \/ \E m \in Messages : Send(m)
  \/ Receive \/ OnRxEvent \/ OnError
  \/ ParserStep

Spec == Init /\ [][Next]_vars

\* The line delivers, a chunk that is full or followed by silence raises the
\* interrupt, and the main loop calls the parser again and again.
FairSpec == Spec /\ WF_vars(Receive) /\ WF_vars(OnRxEvent) /\ WF_vars(ParserStep)

-----------------------------------------------------------------------------
(* Properties *)

\* As long as nothing is lost the engine gets what the host sent, in that order.
InOrder == ~lost => IsPrefix(delivered, sent)

\* Whatever was lost, split or taken for a header: chunks are copied whole, a frame
\* is never torn by the interrupt, and no byte at which a frame may begin is dropped.
Queue == out \o [k \in 1..Count |-> Peek(k - 1)]
Stream == INSTANCE FrameStream WITH queue <- Queue
ImplementsFrameStream == Stream!StreamSpec

\* Every message gets through, however the time-outs of the parser fall, as long as no byte is
\* lost and the driver starts reception whenever it is asked to.
AllDelivered == []~lost => []<>(delivered = sent)

\* The parser never waits for more than the ring can hold: once a longest frame is
\* buffered, bytes are consumed, also after lost bytes and wrong lengths.
Drains == (Count >= MaxLen) ~> (Count < MaxLen)
=============================================================================
