----------------------------- MODULE FrameStream -----------------------------
(***************************************************************************)
(* What the bootloader's receiver promises: the bytes that it takes from   *)
(* the line form a queue.  A byte is thrown away only when no frame can    *)
(* begin at it, and what is handed over is a whole frame from the front.   *)
(***************************************************************************)
EXTENDS Naturals, Sequences

CONSTANTS
  Sof, Eof,        \* first and last byte of a frame
  LenAt,           \* where in a frame its payload length stands, counted from 0
  Overhead,        \* length of a frame without its payload
  MaxLen           \* longest frame the caller has room for

VARIABLES
  queue,           \* bytes taken from the line and not yet consumed
  delivered        \* frames handed over

streamVars == <<queue, delivered>>

StreamInit == queue = <<>> /\ delivered = <<>>

FrameLen(q) == q[LenAt + 1] + Overhead

\* What the header of q says; the header must be there.
Framed(q) ==
  /\ Len(q) > LenAt /\ q[1] = Sof /\ FrameLen(q) <= MaxLen
  /\ Len(q) >= FrameLen(q) /\ q[FrameLen(q)] = Eof

CannotBegin(q) ==
  \/ q[1] # Sof
  \/ Len(q) > LenAt /\ FrameLen(q) > MaxLen
  \/ Len(q) > LenAt /\ Len(q) >= FrameLen(q) /\ q[FrameLen(q)] # Eof

Arrive ==
  /\ Len(queue') > Len(queue) /\ SubSeq(queue', 1, Len(queue)) = queue
  /\ UNCHANGED delivered

Skip ==
  /\ queue # <<>> /\ CannotBegin(queue)
  /\ queue' = Tail(queue)
  /\ UNCHANGED delivered

Deliver ==
  /\ Framed(queue)
  /\ delivered' = Append(delivered, SubSeq(queue, 1, FrameLen(queue)))
  /\ queue' = SubSeq(queue, FrameLen(queue) + 1, Len(queue))

StreamNext == Arrive \/ Skip \/ Deliver

StreamSpec == StreamInit /\ [][StreamNext]_streamVars
=============================================================================
