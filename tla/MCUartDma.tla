------------------------------ MODULE MCUartDma ------------------------------
(***************************************************************************)
(* UartDma for TLC: a ring of six bytes filled in chunks of up to three,   *)
(* counters that wrap at 12, frames of three to five bytes.  One payload   *)
(* holds the byte that begins a frame and the one that ends it, and a      *)
(* length field taken from the middle of a frame may be too large.         *)
(***************************************************************************)
EXTENDS UartDma

\* Sof = 6, Eof = 5
MCMessages == {<<6, 0, 5>>, <<6, 2, 6, 5, 5>>}
=============================================================================
