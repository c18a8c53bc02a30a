----------------------------- MODULE HostUpdate -----------------------------
(***************************************************************************)
(* The host tool (tools/bld_host/bld_host.c) updating a board over a       *)
(* serial line.  The board is BldDevice; here its frames come from a line  *)
(* and its replies go into one.  The tool sends one frame and waits for    *)
(* one reply, which carries nothing that says what it answers.  A user     *)
(* starts the tool again and again, to write, to abort or to look.         *)
(*                                                                         *)
(* A frame that loses bytes on its way to the board stays in the receiver  *)
(* (UartDma) and holds up the ones behind it until they are as long as     *)
(* what is missing.  A reply that comes in two pieces ends the tool.       *)
(*                                                                         *)
(* Trouble on the line, timeouts that expire before a slow answer and      *)
(* resets in the middle of a session weigh at most MaxTroubles in all;     *)
(* between sessions the user resets the board as often as he likes.        *)
(***************************************************************************)
EXTENDS BldDevice

CONSTANTS
  Builds,       \* firmware versions, each with one image per slot
  ChunkSize,    \* cells of an image per DATA frame
  Troubles,     \* what may go wrong, see TroubleKinds
  MaxTroubles,  \* bound on the weight of the troubles
  MaxLine,      \* a session or the board starts only with fewer frames on its line; no
                \* broken frame holds up more of them
  NoBuild

\* The frames of the tool are among those that BldDevice admits.
ASSUME BuildAssumption ==
  /\ ChunkSize \in Nat \ {0}
  /\ \A b \in Builds, s \in Slots :
       LET image == b.image[s] IN
       /\ [version |-> b.version, size |-> Len(image), crc |-> Crc32(image)] \in Headers
       /\ image \in Seq(Bytes)
       /\ \A i, j \in 1..Len(image) :
            i <= j /\ j < i + ChunkSize => SubSeq(image, i, j) \in Payloads

TroubleKinds == {"lost", "garbled", "truncated", "early_timeout", "late_reply", "reset"}

VARIABLES
  down, up,     \* the line: frames to the board (also in its receiver), frames to the host
  gap,          \* how many frames it takes to fill the broken one before them; 0: none is broken
  host,         \* the tool: what it waits for, what it writes, how it ended
  troubles      \* the weight of the troubles there were

line == <<down, up>>
allVars == <<vars, line, gap, host, troubles>>

\* The tool is not running; of a write that ended well it is known what was written.
Closed == [step |-> "idle", build |-> NoBuild, target |-> None, off |-> 0, result |-> "none"]
Ended(result) == [host EXCEPT !.step = "idle", !.result = result]

HostInit ==
  /\ Init
  /\ down = <<>> /\ up = <<>> /\ gap = 0
  /\ host = Closed
  /\ troubles = 0

\* A late reply and the frame a board sends when it starts answer no request of the
\* tool: one such trouble weighs as much as two of the others.
Weight(kind) == IF kind \in {"late_reply", "reset"} THEN 2 ELSE 1
Spend(kind) ==
  /\ kind \in Troubles /\ troubles + Weight(kind) <= MaxTroubles
  /\ troubles' = troubles + Weight(kind)
NoTrouble == UNCHANGED troubles

-----------------------------------------------------------------------------
(* The board on the line *)

Cmd(c) == [type |-> "CMD", cmd |-> c]
HeaderFrame(h) == [type |-> "HEADER", header |-> h]
DataFrame(seq, d) == [type |-> "DATA", seq |-> seq, data |-> d]

\* The frames in sts go out; a META frame carries the record just read.
Packet(st) ==
  IF st = "META" THEN [type |-> "META", record |-> ctrl'] ELSE [type |-> "STATUS", status |-> st]
Emit(sts) == up' = up \o [i \in DOMAIN sts |-> Packet(sts[i])]
EmitNew == Emit(SubSeq(sent', Len(sent) + 1, Len(sent')))

\* Mutated form: an abort is taken only when there is nothing to abort.
TakenWhenIdle(c) == IF c = "END" THEN state = "WAIT_END" ELSE state = "IDLE"
Taken(c) ==
  CASE c = "ABORT" -> TRUE
    [] c = "END" -> state = "WAIT_END"
    [] OTHER -> state = "IDLE"

HandleCmd(c) ==
  \/ ~Taken(c) /\ CmdBadState
  \/ /\ Taken(c)
     /\ \/ c = "ABORT" /\ CmdAbort
        \/ c = "QUERY" /\ CmdQuery
        \/ c = "META" /\ CmdMeta
        \/ c = "START" /\ CmdStart
        \/ c = "END" /\ CmdEnd
        \/ c = "BOOT" /\ CmdBoot

Handle(f) ==
  \/ f.type = "CMD" /\ HandleCmd(f.cmd)
  \/ f.type = "HEADER" /\ Header(f.header)
  \/ f.type = "DATA" /\ Data(f.seq, f.data)

Poll ==
  /\ down # <<>> /\ gap = 0
  /\ Handle(Head(down))
  /\ Emit(sent')
  /\ down' = Tail(down)
  /\ UNCHANGED <<gap, host>> /\ NoTrouble

\* The broken frame is complete with bytes of the next ones.  Its last byte ends no frame: it is
\* dropped, and the next ones are found; or it does, and is refused with all that it took.
LetGo ==
  /\ pc = "poll" /\ gap # 0 /\ gap <= Len(down)
  /\ gap' = 0
  /\ \/ UNCHANGED <<vars, line>>
     \/ BadFrame /\ Emit(sent') /\ down' = SubSeq(down, gap + 1, Len(down))
  /\ UNCHANGED host /\ NoTrouble

Run ==
  /\ DeviceStep
  /\ EmitNew
  /\ UNCHANGED <<down, gap, host>> /\ NoTrouble

\* Nobody listens while the board is off or runs the application.
Deaf ==
  /\ pc = "off" \/ InApp
  /\ down # <<>>
  /\ down' = Tail(down)
  /\ UNCHANGED <<vars, up, gap, host>> /\ NoTrouble

SwitchOn ==
  /\ PowerOn /\ Len(up) < MaxLine /\ gap' = 0
  /\ UNCHANGED <<line, host>> /\ NoTrouble

\* What the receiver holds is gone.
ResetBoard ==
  /\ Reset \/ PowerCut
  /\ LET still == host.step = "idle" /\ (down = <<>> \/ gap # 0)
     IN (still /\ NoTrouble) \/ (~still /\ Spend("reset"))
  /\ down' = IF gap = 0 THEN down ELSE <<>>
  /\ gap' = 0
  /\ UNCHANGED <<up, host>>

-----------------------------------------------------------------------------
(* The line *)

\* The length is right, and so is the last byte.
Garbled ==
  /\ down # <<>> /\ gap = 0 /\ Spend("garbled")
  /\ BadFrame
  /\ Emit(sent')
  /\ down' = Tail(down)
  /\ UNCHANGED <<gap, host>>

\* Bytes of the first frame are missing, or its length field is too large.
Truncated ==
  /\ down # <<>> /\ gap = 0 /\ pc # "off" /\ ~InApp /\ Spend("truncated")
  /\ gap' \in 1..MaxLine
  /\ down' = Tail(down)
  /\ UNCHANGED <<vars, up, host>>

\* A reply with a wrong CRC or end byte, or of the wrong length, ends the tool.
GarbledReply ==
  /\ host.step # "idle" /\ up # <<>> /\ Spend("garbled")
  /\ host' = Closed
  /\ up' = Tail(up)
  /\ UNCHANGED <<vars, down, gap>>

\* A frame does not arrive, or so that the receiver throws it away at once.
Lost ==
  /\ Spend("lost")
  /\ \/ down # <<>> /\ down' = Tail(down) /\ UNCHANGED up
     \/ up # <<>> /\ up' = Tail(up) /\ UNCHANGED down
  /\ UNCHANGED <<vars, gap, host>>

-----------------------------------------------------------------------------
(* The tool *)

Suffixes(s) == {SubSeq(s, i, Len(s)) : i \in 1..Len(s)}

\* serial_open discards what has been received; frames on their way still come.
Open ==
  \/ up' = <<>> /\ NoTrouble
  \/ up' \in Suffixes(up) /\ Spend("late_reply")

Start(build, step, frame) ==
  /\ host.step = "idle" /\ Len(down) < MaxLine
  /\ Open
  /\ host' = [Closed EXCEPT !.step = step, !.build = build]
  /\ down' = Append(down, frame)
  /\ UNCHANGED <<vars, gap>>

StartWrite == \E b \in Builds : Start(b, "meta", Cmd("META"))
StartAbort == Start(NoBuild, "abort", Cmd("ABORT"))
StartQuery == Start(NoBuild, "query", Cmd("QUERY"))
StartMeta == Start(NoBuild, "show", Cmd("META"))

\* The tool takes the next frame from the line and answers with the frames fs.
Takes(fs) ==
  /\ up' = Tail(up) /\ down' = down \o fs
  /\ UNCHANGED <<vars, gap>> /\ NoTrouble

\* choose_target_slot_from_meta, in the tool
SameSlot(c) == IF c.active # None THEN c.active ELSE "A"   \* mutated form
HostTarget(c) ==
  IF c.active # None THEN Other(c.active)
  ELSE IF c.confirmed # None THEN Other(c.confirmed)
  ELSE "A"

AlreadyThere(i, build, image) ==
  /\ i.crc = Crc32(image) /\ i.size = Len(image) /\ i.version = build.version
  /\ i.state \in {"VALID", "CONFIRMED", "PENDING"}

\* do_write, after META
OnMeta ==
  /\ host.step = "meta" /\ up # <<>> /\ Head(up).type = "META"
  /\ LET c == Head(up).record
         t == HostTarget(c)
         here == AlreadyThere(c.slots[t], host.build, host.build.image[t])
     IN \/ here /\ host' = [Ended("already") EXCEPT !.target = t] /\ Takes(<<>>)
        \/ ~here /\ host' = [host EXCEPT !.step = "start", !.target = t] /\ Takes(<<Cmd("START")>>)

Image == host.build.image[host.target]
Chunk == SubSeq(Image, host.off + 1,
                IF Len(Image) - host.off < ChunkSize THEN Len(Image) ELSE host.off + ChunkSize)
\* mutated form: one cell too many
LongHeader ==
  [version |-> host.build.version, size |-> Len(Image) + 1, crc |-> Crc32(Image)]
ImageHeader ==
  [version |-> host.build.version, size |-> Len(Image), crc |-> Crc32(Image)]

NextIs(step, frame) == host' = [host EXCEPT !.step = step] /\ Takes(<<frame>>)

\* mutated form: any status will do
AnsweredAnyhow(st) == up # <<>> /\ Head(up).type = "STATUS" /\ st
Answered(st) == up # <<>> /\ Head(up).type = "STATUS" /\ (Head(up).status = "OK") = st

\* do_write and do_abort, after expect_ok_status succeeded.  off counts what was sent.
OnOk ==
  /\ Answered(TRUE)
  /\ \/ host.step = "start" /\ NextIs("header", HeaderFrame(ImageHeader))
     \/ /\ host.step \in {"header", "data"} /\ host.off < Len(Image)
        /\ host' = [host EXCEPT !.step = "data", !.off = @ + Len(Chunk)]
        /\ Takes(<<DataFrame(host.off \div ChunkSize, Chunk)>>)
     \/ host.step \in {"header", "data"} /\ host.off = Len(Image) /\ NextIs("end", Cmd("END"))
     \/ host.step = "end" /\ NextIs("boot", Cmd("BOOT"))
     \/ host.step = "boot" /\ host' = Ended("done") /\ Takes(<<>>)
     \/ host.step = "abort" /\ host' = Closed /\ Takes(<<>>)

\* do_query and do_meta print the frame, whatever it says.
OnShown ==
  /\ up # <<>>
  /\ \/ host.step = "query" /\ Head(up).type = "STATUS"
     \/ host.step = "show" /\ Head(up).type = "META"
  /\ host' = Closed
  /\ Takes(<<>>)

\* A status other than OK, or a frame of the wrong type, ends the tool.
Wrong ==
  \/ host.step \in {"meta", "show"} /\ Head(up).type = "STATUS"
  \/ host.step = "query" /\ Head(up).type = "META"
  \/ host.step \notin {"idle", "meta", "show", "query"} /\ (Head(up).type = "META" \/ Answered(FALSE))

OnWrong ==
  /\ up # <<>> /\ Wrong
  /\ host' = Closed
  /\ Takes(<<>>)

\* recv_status and recv_meta read the three bytes behind SOF at once: a reply of which
\* fewer are there, be it in good order, ends the tool.
ShortRead ==
  /\ host.step # "idle" /\ up # <<>>
  /\ host' = [Closed EXCEPT !.result = "short_read"]
  /\ Takes(<<>>)

\* No answer: either none will come, or the timeout expires before a slow one.
Quiet ==
  /\ up = <<>>
  /\ \/ down = <<>> /\ (pc \in {"off", "poll"} \/ InApp)
     \/ Len(down) < gap /\ pc = "poll"
Timeout ==
  /\ host.step # "idle"
  /\ \/ Quiet /\ NoTrouble
     \/ ~Quiet /\ Spend("early_timeout")
  /\ host' = Closed
  /\ UNCHANGED <<vars, line, gap>>

-----------------------------------------------------------------------------
HostStep == OnMeta \/ OnOk \/ OnShown \/ OnWrong \/ ShortRead \/ Timeout
System == Poll \/ LetGo \/ Run \/ Deaf \/ HostStep

HostNext ==
  System \/ SwitchOn \/ ResetBoard \/ Garbled \/ Truncated \/ GarbledReply \/ Lost
  \/ StartWrite \/ StartAbort \/ StartQuery \/ StartMeta

HostSpec == HostInit /\ [][HostNext]_allVars

\* The tool and the processor run, and the line carries what is sent.
HostFairSpec == HostSpec /\ WF_allVars(System)

-----------------------------------------------------------------------------
(* Properties *)

\* Whatever the tool and the line do, the board sees nothing that BldDevice does not
\* allow: what is proved of the board holds while the tool updates it.
BoardIsDevice == Spec

\* bld_host.c:7-12: when the tool says it is done, the board holds the image for the
\* slot it chose, bit for bit, has accepted exactly that image, and has started it.
SuccessIsTrue ==
  host.result = "done" =>
    LET i == committed.slots[host.target] IN
    /\ <<i.version, i.size, i.crc>> = <<host.build.version, Len(Image), Crc32(Image)>>
    /\ Content(flash, host.target, Len(Image)) = Image
    /\ trials > 0

\* The tool and the board choose the target slot on their own, the one before, the
\* other after START (bld_host.c:833, bld_engine.c:101): an image is recorded only
\* for the slot that it was linked for.
RightSlot ==
  Readable(meta) => \A s \in Slots : meta.slots[s].state # "EMPTY" =>
    \E b \in Builds : meta.slots[s].crc = Crc32(b.image[s])

\* bld_host.c:995: 'Selected slot A already contains this image'.
SkipIsTrue ==
  host.result = "already" => Content(flash, host.target, Len(Image)) = Image

\* A write to an idle board with an empty receiver and no trouble to come ends well, whatever
\* troubles there were before, unless a reply comes in pieces.
WriteBegins ==
  /\ host.step = "meta" /\ pc = "poll" /\ state = "IDLE"
  /\ up = <<>> /\ down = <<Cmd("META")>> /\ gap = 0 /\ troubles = MaxTroubles
WriteSucceeds == WriteBegins ~> host.result \in {"done", "already", "short_read"}

\* A user who aborts again and again gets the board back to idle, whatever state a broken
\* session left it in and whatever its receiver holds.
AbortHelps == []<><<StartAbort>>_allVars => (state # "IDLE" ~> state = "IDLE")
=============================================================================
