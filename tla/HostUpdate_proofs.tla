------------------------- MODULE HostUpdate_proofs -------------------------
(***************************************************************************)
(* The board at the end of the host tool's line is the board of BldDevice, *)
(* for all builds, sizes of chunks and troubles on the line, so what is    *)
(* proved of BldDevice holds in every session. On a line that only loses   *)
(* frames whole and damages them, a reported success is true and every     *)
(* image stands in the slot that it was linked for.                        *)
(***************************************************************************)
EXTENDS HostUpdate, BldRefinement_proofs, SequenceTheorems

HostFrames ==
  [type : {"CMD"}, cmd : {"ABORT", "QUERY", "META", "START", "END", "BOOT"}]
    \cup [type : {"HEADER"}, header : Headers]
    \cup [type : {"DATA"}, seq : Nat, data : Payloads]
BoardFrames == [type : {"META"}, record : Records] \cup [type : {"STATUS"}, status : Statuses]

HostSteps ==
  {"idle", "abort", "query", "show", "meta", "start", "header", "data", "end", "boot"}

\* The tool sends frames that the board may get; once it has asked for the record it
\* knows its build, once it has the record its slot.
ToolInv ==
  /\ down \in Seq(HostFrames) /\ up \in Seq(BoardFrames) /\ gap \in Nat
  /\ host \in [step : HostSteps, build : Builds \cup {NoBuild}, target : SlotIds, off : Nat,
               result : {"none", "done", "already", "short_read"}]
  /\ host.step \in {"meta", "start", "header", "data", "end", "boot"} => host.build \in Builds
  /\ host.step \in {"start", "header", "data", "end", "boot"} => host.target \in Slots

LEMMA ToolInit == HostInit => ToolInv
  BY DEF HostInit, Closed, ToolInv, HostSteps, SlotIds

-----------------------------------------------------------------------------
(* The board sees steps of BldDevice *)

LEMMA HandleIsFrame ==
  ASSUME TypeInv, NEW f \in HostFrames, Handle(f)
  PROVE  Frame
<1>1. CASE f.type = "CMD" /\ HandleCmd(f.cmd) BY <1>1 DEF HandleCmd, Frame
<1>2. CASE f.type = "HEADER" /\ Header(f.header)
  <2>1. f.header \in Headers BY <1>2 DEF HostFrames
  <2> QED BY <1>2, <2>1 DEF Frame
<1>3. CASE f.type = "DATA" /\ Data(f.seq, f.data)
  <2> DEFINE d == f.data
             n == f.seq
  <2>1. d \in Payloads /\ n \in Nat /\ session.seq \in Nat
    BY <1>3 DEF HostFrames, TypeInv, TypeOK, Sessions
  <2> HIDE DEF d, n
  <2>2. CASE n = session.seq BY <1>3, <2>1, <2>2 DEF Frame, d, n
  <2>3. CASE n # session.seq
    \* an unexpected number is an unexpected number
    <3>1. Data(n, d) BY <1>3 DEF d, n
    <3>2. session.seq + 1 # session.seq BY <2>1
    <3>3. Data(session.seq + 1, d) BY <2>3, <3>1, <3>2 DEF Data
    <3> QED BY <2>1, <3>3 DEF Frame
  <2> QED BY <2>2, <2>3
<1> QED BY <1>1, <1>2, <1>3 DEF Handle

LEMMA BoardStep ==
  ASSUME TypeInv, ToolInv, [HostNext]_allVars
  PROVE  [Next]_vars
<1>1. CASE Poll
  <2>1. Head(down) \in HostFrames BY <1>1, HeadTailProperties DEF Poll, ToolInv
  <2> QED BY <1>1, <2>1, HandleIsFrame DEF Poll, Next
<1>2. CASE Run BY <1>2 DEF Run, Next
<1>3. CASE SwitchOn BY <1>3 DEF SwitchOn, Next
<1>4. CASE ResetBoard BY <1>4 DEF ResetBoard, Next
<1>5. CASE Garbled \/ (LetGo /\ BadFrame) BY <1>5 DEF Garbled, Next, Frame
<1>6. CASE UNCHANGED vars BY <1>6
<1> QED BY <1>1, <1>2, <1>3, <1>4, <1>5, <1>6
        DEF HostNext, System, HostStep, LetGo, Deaf, GarbledReply, Truncated, Lost, StartWrite,
            StartAbort, StartQuery, StartMeta, Start, OnMeta, OnOk, OnShown, OnWrong, ShortRead,
            Timeout, NextIs, Takes, allVars

-----------------------------------------------------------------------------
(* What is on the line *)

LEMMA EmitType ==
  ASSUME up \in Seq(BoardFrames), NEW sts \in Seq(Statuses), ctrl' \in Records, Emit(sts)
  PROVE  up' \in Seq(BoardFrames)
<1> DEFINE fs == [i \in DOMAIN sts |-> Packet(sts[i])]
<1>1. \A st \in Statuses : Packet(st) \in BoardFrames BY DEF Packet, BoardFrames
<1>2. fs \in Seq(BoardFrames)
  <2>1. DOMAIN sts = 1..Len(sts) /\ Len(sts) \in Nat /\ \A i \in 1..Len(sts) : sts[i] \in Statuses
    OBVIOUS
  <2>2. fs \in [1..Len(sts) -> BoardFrames] BY <1>1, <2>1
  <2> QED BY <2>1, <2>2
<1>3. up' = up \o fs BY DEF Emit
<1> HIDE DEF fs
<1> QED BY <1>2, <1>3, ConcatProperties

LEMMA EmitNewType ==
  ASSUME up \in Seq(BoardFrames), sent \in Seq(Statuses), sent' \in Seq(Statuses), ctrl' \in Records,
         EmitNew
  PROVE  up' \in Seq(BoardFrames)
<1> DEFINE m == Len(sent) + 1
           n == Len(sent')
           sts == SubSeq(sent', m, n)
<1>1. m \in Nat /\ n \in Nat /\ \A i \in m..n : sent'[i] \in Statuses OBVIOUS
<1> HIDE DEF m, n
<1>2. sts \in Seq(Statuses) BY <1>1, SubSeqProperties
<1>3. Emit(sts) BY DEF EmitNew, m, n
<1> HIDE DEF sts
<1> QED BY <1>2, <1>3, EmitType

LEMMA Rest ==
  ASSUME NEW S, NEW s \in Seq(S), s # <<>>
  PROVE  Tail(s) \in Seq(S) /\ Head(s) \in S
  BY HeadTailProperties

\* Chunks and headers of a build.
LEMMA FramesOfBuild ==
  ASSUME ToolInv, host.build \in Builds, host.target \in Slots
  PROVE  /\ ImageHeader \in Headers /\ Len(Image) \in Nat
         /\ host.off < Len(Image) => Chunk \in Payloads /\ Len(Chunk) \in Nat
         /\ host.off \div ChunkSize \in Nat
<1> DEFINE image == host.build.image[host.target]
           off == host.off
           l == Len(image)
           j == IF l - off < ChunkSize THEN l ELSE off + ChunkSize
<1>1. /\ [version |-> host.build.version, size |-> Len(image), crc |-> Crc32(image)] \in Headers
      /\ image \in Seq(Bytes) /\ ChunkSize \in Nat \ {0}
      /\ \A a, b \in 1..Len(image) : a <= b /\ b < a + ChunkSize => SubSeq(image, a, b) \in Payloads
  BY BuildAssumption
<1>2. off \in Nat BY DEF ToolInv
<1>3. Image = image BY DEF Image
<1>4. ImageHeader \in Headers BY <1>1, <1>3 DEF ImageHeader
<1>5. l \in Nat BY <1>1
<1>6. Chunk = SubSeq(image, off + 1, j) BY <1>3 DEF Chunk
<1> HIDE DEF image, off, l
<1>7. ASSUME off < l PROVE off + 1 \in 1..l /\ j \in 1..l /\ off + 1 <= j /\ j < (off + 1) + ChunkSize
  BY <1>1, <1>2, <1>5, <1>7
<1> HIDE DEF j
<1>8. ASSUME off < l PROVE Chunk \in Payloads /\ Len(Chunk) \in Nat
  <2>1. SubSeq(image, off + 1, j) \in Payloads BY <1>1, <1>7, <1>8 DEF l
  <2>2. Chunk \in Seq(Bytes) BY <1>6, <2>1, ImageAssumption
  <2> QED BY <1>6, <2>1, <2>2
<1>9. off \div ChunkSize \in Nat BY <1>1, <1>2
<1> QED BY <1>3, <1>4, <1>5, <1>8, <1>9 DEF l, off

LEMMA Sends ==
  ASSUME ToolInv, NEW f \in HostFrames
  PROVE  down \o <<f>> \in Seq(HostFrames) /\ Append(down, f) \in Seq(HostFrames)
                                           /\ down \o <<>> \in Seq(HostFrames)
<1>1. down \in Seq(HostFrames) /\ <<f>> \in Seq(HostFrames) /\ <<>> \in Seq(HostFrames) BY DEF ToolInv
<1> QED BY <1>1, ConcatProperties, AppendProperties

\* A record of the board leads to a slot.
LEMMA HostTargetType ==
  ASSUME NEW c \in Records
  PROVE  HostTarget(c) \in Slots
<1>1. c.active \in SlotIds /\ c.confirmed \in SlotIds BY DEF Records
<1>2. \A s \in Slots : Other(s) \in Slots BY DEF Other, Slots
<1> QED BY <1>1, <1>2 DEF HostTarget, SlotIds, Slots, None

\* The tool keeps its knowledge, and sends the board's frames.
LEMMA ToolStep ==
  ASSUME ToolInv, HostStep
  PROVE  ToolInv'
<1> DEFINE HostType == [step : HostSteps, build : Builds \cup {NoBuild}, target : SlotIds, off : Nat,
                        result : {"none", "done", "already", "short_read"}]
           Writing == {"start", "header", "data", "end", "boot"}
<1>1. /\ down \in Seq(HostFrames) /\ up \in Seq(BoardFrames) /\ gap \in Nat /\ host \in HostType
      /\ host.step \in Writing \cup {"meta"} => host.build \in Builds
      /\ host.step \in Writing => host.target \in Slots
  BY DEF ToolInv
<1>2. ASSUME up # <<>> PROVE Tail(up) \in Seq(BoardFrames) /\ Head(up) \in BoardFrames
  BY <1>1, <1>2, Rest
<1>3. ASSUME NEW res \in {"none", "short_read"}, host' = [Closed EXCEPT !.result = res],
             down' \in Seq(HostFrames), up' \in Seq(BoardFrames), gap' = gap
      PROVE  ToolInv'
  BY <1>1, <1>3 DEF ToolInv, Closed, HostSteps, SlotIds
<1>4. ASSUME NEW f \in HostFrames, Takes(<<f>>) \/ Takes(<<>>), up # <<>>
      PROVE  down' \in Seq(HostFrames) /\ up' \in Seq(BoardFrames) /\ gap' \in Nat /\ gap' = gap
  BY <1>1, <1>2, <1>4, Sends DEF Takes
<1>n. Closed = [Closed EXCEPT !.result = "none"] BY DEF Closed
<1>c. \A c \in {"START", "END", "BOOT"} : Cmd(c) \in HostFrames BY DEF Cmd, HostFrames
<1>5. CASE OnMeta
  <2> DEFINE c == Head(up).record
             t == HostTarget(c)
  <2>1. up # <<>> /\ host.step = "meta" /\ Head(up).type = "META" BY <1>5 DEF OnMeta
  <2>2. c \in Records BY <1>2, <2>1 DEF BoardFrames
  <2>3. t \in Slots BY <2>2, HostTargetType
  <2> HIDE DEF t, c
  <2>4. CASE host' = [Ended("already") EXCEPT !.target = t] /\ Takes(<<>>)
    <3>1. host' = [host EXCEPT !.step = "idle", !.result = "already", !.target = t]
      BY <1>1, <2>4 DEF Ended
    <3>2. host' \in HostType /\ host'.step = "idle" BY <1>1, <2>3, <3>1 DEF HostSteps, SlotIds
    <3> QED BY <1>4, <1>c, <2>1, <2>4, <3>2 DEF ToolInv
  <2>5. CASE host' = [host EXCEPT !.step = "start", !.target = t] /\ Takes(<<Cmd("START")>>)
    <3>1. /\ host' \in HostType /\ host'.step = "start" /\ host'.build = host.build /\ host'.target = t
      BY <1>1, <2>3, <2>5 DEF HostSteps, SlotIds
    <3> QED BY <1>1, <1>4, <1>c, <2>1, <2>3, <2>5, <3>1 DEF ToolInv
  <2> QED BY <1>5, <2>4, <2>5 DEF OnMeta, c, t
<1>6. CASE OnOk
  <2>1. up # <<>> BY <1>6 DEF OnOk, Answered
  <2>2. ASSUME NEW step \in Writing, NEW f \in HostFrames, host.step \in Writing, NextIs(step, f)
        PROVE  ToolInv'
    <3>1. host' \in HostType /\ host'.step = step /\ host'.build = host.build /\ host'.target = host.target
      BY <1>1, <2>2 DEF NextIs, HostSteps
    <3> QED BY <1>1, <1>4, <2>1, <2>2, <3>1 DEF NextIs, ToolInv
  <2>3. ASSUME host.step \in Writing
        PROVE  /\ ImageHeader \in Headers /\ host.off \div ChunkSize \in Nat
               /\ host.off < Len(Image) => Chunk \in Payloads /\ Len(Chunk) \in Nat
    BY <1>1, <2>3, FramesOfBuild
  <2>4. CASE host.step = "start" /\ NextIs("header", HeaderFrame(ImageHeader))
    <3>1. HeaderFrame(ImageHeader) \in HostFrames BY <2>3, <2>4 DEF HeaderFrame, HostFrames
    <3> QED BY <2>2, <2>4, <3>1
  <2>5. CASE /\ host.step \in {"header", "data"} /\ host.off < Len(Image)
             /\ host' = [host EXCEPT !.step = "data", !.off = @ + Len(Chunk)]
             /\ Takes(<<DataFrame(host.off \div ChunkSize, Chunk)>>)
    <3> DEFINE n == host.off \div ChunkSize
               l == Len(Chunk)
    <3>1. n \in Nat /\ Chunk \in Payloads /\ l \in Nat BY <2>3, <2>5
    <3>2. host' = [host EXCEPT !.step = "data", !.off = host.off + l] BY <1>1, <2>5
    <3> HIDE DEF n, l
    <3>3. DataFrame(n, Chunk) \in HostFrames BY <3>1 DEF DataFrame, HostFrames
    <3>4. host' \in HostType /\ host'.step = "data" /\ host'.build = host.build /\ host'.target = host.target
      <4> DEFINE off == host.off + l
      <4>1. off \in Nat /\ "data" \in HostSteps BY <1>1, <3>1 DEF HostSteps
      <4> HIDE DEF off
      <4>2. host' = [host EXCEPT !.step = "data", !.off = off] BY <3>2 DEF off
      <4> QED BY <1>1, <4>1, <4>2
    <3> QED BY <1>1, <1>4, <2>1, <2>5, <3>3, <3>4 DEF ToolInv, n
  <2>6. CASE host.step \in {"header", "data"} /\ NextIs("end", Cmd("END")) BY <1>c, <2>2, <2>6
  <2>7. CASE host.step = "end" /\ NextIs("boot", Cmd("BOOT")) BY <1>c, <2>2, <2>7
  <2>8. CASE host.step = "boot" /\ host' = Ended("done") /\ Takes(<<>>)
    <3>1. host' \in HostType /\ host'.step = "idle" BY <1>1, <2>8 DEF Ended, HostSteps
    <3> QED BY <1>4, <1>c, <2>1, <2>8, <3>1 DEF ToolInv
  <2>9. CASE host.step = "abort" /\ host' = Closed /\ Takes(<<>>)
    BY <1>3, <1>4, <1>c, <1>n, <2>1, <2>9
  <2> QED BY <1>6, <2>4, <2>5, <2>6, <2>7, <2>8, <2>9 DEF OnOk
<1>7. CASE OnShown BY <1>3, <1>4, <1>7, <1>c, <1>n DEF OnShown
<1>8. CASE OnWrong BY <1>3, <1>4, <1>8, <1>c, <1>n DEF OnWrong
<1>9. CASE ShortRead BY <1>3, <1>4, <1>9, <1>c DEF ShortRead
<1>10. CASE Timeout BY <1>1, <1>3, <1>10, <1>n DEF Timeout, line
<1> QED BY <1>5, <1>6, <1>7, <1>8, <1>9, <1>10 DEF HostStep

\* A user starts the tool.
LEMMA StartStep ==
  ASSUME ToolInv, StartWrite \/ StartAbort \/ StartQuery \/ StartMeta
  PROVE  ToolInv'
<1>1. PICK build \in Builds \cup {NoBuild}, step \in {"meta", "abort", "query", "show"},
           c \in {"META", "ABORT", "QUERY"} :
        Start(build, step, Cmd(c)) /\ (step = "meta" => build \in Builds)
  BY DEF StartWrite, StartAbort, StartQuery, StartMeta
<1>2. Cmd(c) \in HostFrames BY DEF Cmd, HostFrames
<1>3. down' \in Seq(HostFrames) BY <1>1, <1>2, Sends DEF Start
<1>4. up' \in Seq(BoardFrames)
  <2>1. CASE up' = <<>> BY <2>1
  <2>2. CASE up' \in Suffixes(up)
    <3> DEFINE l == Len(up)
    <3>1. up \in Seq(BoardFrames) /\ l \in Nat BY DEF ToolInv
    <3>2. PICK i \in 1..l : up' = SubSeq(up, i, l) BY <2>2 DEF Suffixes
    <3>3. \A j \in i..l : up[j] \in BoardFrames BY <3>1
    <3> HIDE DEF l
    <3>4. SubSeq(up, i, l) \in Seq(BoardFrames) BY <3>1, <3>2, <3>3, SubSeqProperties
    <3> QED BY <3>2, <3>4
  <2> QED BY <1>1, <2>1, <2>2 DEF Start, Open
<1>5. host' = [step |-> step, build |-> build, target |-> None, off |-> 0, result |-> "none"]
  BY <1>1 DEF Start, Closed
<1>6. gap' = gap /\ gap \in Nat BY <1>1 DEF Start, ToolInv
<1> QED BY <1>1, <1>3, <1>4, <1>5, <1>6 DEF ToolInv, HostSteps, SlotIds

LEMMA ToolNext ==
  ASSUME TypeInv, TypeInv', ToolInv, [HostNext]_allVars
  PROVE  ToolInv'
<1>1. /\ down \in Seq(HostFrames) /\ up \in Seq(BoardFrames) /\ gap \in Nat
      /\ sent \in Seq(Statuses) /\ sent' \in Seq(Statuses) /\ ctrl' \in Records
  BY DEF ToolInv, TypeInv, TypeOK
<1>2. down # <<>> => Tail(down) \in Seq(HostFrames) BY <1>1, Rest
<1>3. up # <<>> => Tail(up) \in Seq(BoardFrames) BY <1>1, Rest
<1>4. ASSUME host' = host, down' \in Seq(HostFrames), up' \in Seq(BoardFrames), gap' \in Nat
      PROVE  ToolInv'
  BY <1>4 DEF ToolInv
<1>5. CASE Poll \/ Garbled BY <1>1, <1>2, <1>4, <1>5, EmitType DEF Poll, Garbled
<1>6. CASE Run BY <1>1, <1>4, <1>6, EmitNewType DEF Run
<1>7. CASE Deaf \/ SwitchOn \/ Lost \/ UNCHANGED allVars
  <2>1. /\ host' = host /\ gap' \in {gap, 0}
        /\ down' = down \/ (down # <<>> /\ down' = Tail(down))
        /\ up' = up \/ (up # <<>> /\ up' = Tail(up))
    BY <1>7 DEF Deaf, SwitchOn, Lost, allVars, line
  <2>2. gap' \in Nat BY <1>1, <2>1
  <2>3. down' \in Seq(HostFrames) BY <1>1, <1>2, <2>1, Zenon
  <2>4. up' \in Seq(BoardFrames) BY <1>1, <1>3, <2>1, Zenon
  <2> QED BY <1>4, <2>1, <2>2, <2>3, <2>4
<1>13. CASE ResetBoard
  <2>1. <<>> \in Seq(HostFrames) OBVIOUS
  <2>2. host' = host /\ up' = up /\ down' \in {down, <<>>} /\ gap' = 0 BY <1>13 DEF ResetBoard
  <2> QED BY <1>1, <1>4, <2>1, <2>2
<1>8. CASE GarbledReply
  BY <1>1, <1>3, <1>8 DEF GarbledReply, ToolInv, Closed, HostSteps, SlotIds
<1>9. CASE HostStep BY <1>9, ToolStep
<1>10. CASE StartWrite \/ StartAbort \/ StartQuery \/ StartMeta BY <1>10, StartStep
<1>11. CASE LetGo
  <2>1. host' = host /\ gap' = 0 /\ gap \in Nat BY <1>1, <1>11 DEF LetGo
  <2>2. CASE UNCHANGED line BY <1>1, <1>4, <2>1, <2>2 DEF line
  <2>3. CASE Emit(sent') /\ down' = SubSeq(down, gap + 1, Len(down))
    <3> DEFINE m == gap + 1
               n == Len(down)
    <3>1. m \in Nat /\ n \in Nat /\ \A i \in m..n : down[i] \in HostFrames BY <1>1
    <3> HIDE DEF m, n
    <3>2. SubSeq(down, m, n) \in Seq(HostFrames) BY ONLY <3>1, SubSeqProperties
    <3>3. up' \in Seq(BoardFrames) BY <1>1, <2>3, EmitType
    <3> QED BY <1>4, <2>1, <2>3, <3>2, <3>3 DEF m, n
  <2> QED BY <1>11, <2>2, <2>3 DEF LetGo
<1>12. CASE Truncated
  <2>1. host' = host /\ gap' \in 1..MaxLine /\ down' = Tail(down) /\ down # <<>> /\ up' = up
    BY <1>12 DEF Truncated
  <2> QED BY <1>1, <1>2, <1>4, <2>1
<1> QED BY <1>5, <1>6, <1>7, <1>8, <1>9, <1>10, <1>11, <1>12, <1>13 DEF HostNext, System

-----------------------------------------------------------------------------

\* Whatever tool, user and line do, the board makes the steps of BldDevice (bld_host.c:935-1059,
\* bld_engine.c:615-687).
THEOREM HostDrivesDevice == HostSpec => BoardIsDevice
<1>1. HostInit => Init /\ TypeInv /\ ToolInv BY ToolInit, TypeInit DEF HostInit
<1>2. TypeInv /\ ToolInv /\ [HostNext]_allVars => [Next]_vars BY BoardStep
<1>3. TypeInv /\ ToolInv /\ [HostNext]_allVars => TypeInv' /\ ToolInv'
  <2>1. TypeInv /\ [Next]_vars => TypeInv' BY TypeNext
  <2> QED BY <1>2, <2>1, ToolNext
<1> QED BY <1>1, <1>2, <1>3, PTL DEF HostSpec, BoardIsDevice, Spec

\* So in every session, under every trouble of line and power and with any failing operation:
\* the record stays consistent, no upload touches the confirmed slot, a trial is bounded, a
\* cell is never programmed twice and the image that runs is the recorded one.
THEOREM SessionsAreSafe ==
  HostSpec => /\ []RecordAgrees /\ []TrialsBounded /\ []RoomErased /\ []RunsRecordedImage
              /\ UploadSparesConfirmed
  BY HostDrivesDevice, RecordsAgree, TrialsAreBounded, RoomIsErased, RunsOnlyRecorded,
     UploadsSpareConfirmed, PTL DEF BoardIsDevice

\* As long as erases report no error and no cell decays, sessions of the tool make an A/B update:
\* one accepted image that stays intact, one on trial with a budget of starts.
THEOREM SessionsKeepPromise ==
  ASSUME SoundFlash
  PROVE  HostSpec => []ConfirmedIntact /\ []ConfirmedProved /\ ImplementsABUpdate
<1>1. Spec => []ConfirmedIntact BY ConfirmedStaysIntact
<1>2. Spec => []ConfirmedProved BY ConfirmedIsProved
<1>3. Spec => ImplementsABUpdate BY DeviceKeepsPromise
<1> QED BY <1>1, <1>2, <1>3, HostDrivesDevice, PTL DEF BoardIsDevice

-----------------------------------------------------------------------------
(* The session *)

\* Frames may get lost whole or damaged, in any number; none is cut short, no timeout of the tool
\* expires early, no late reply comes and the board is not reset while the tool runs or a frame
\* is under way.
Steady == Troubles \subseteq {"lost", "garbled"}
\* Erases and program operations succeed; power may fail.
FlashWorks == "erase_fail" \notin Faults /\ "program_fail" \notin Faults

InMetaOp == pc \in MetaPlaces
Booting ==
  \/ pc \in {"decide", "confirmed"}
  \/ InMetaOp /\ job.call \in {"spendAttempt", "rejectPending", "rejectConfirmed"}
Started == InApp \/ (InMetaOp /\ job.call = "confirm")

Outstanding == Len(up) + Len(down)
IsOk(f) == f.type = "STATUS" /\ f.status = "OK"
\* Frames that write nothing: all that the tool sends before the header.
Simple == {Cmd("META"), Cmd("START"), Cmd("ABORT"), Cmd("QUERY")}
FirstSteps == {"meta", "show", "query", "abort"}

\* The first n cells of the image are in the slot; the session knows of n cells of it.
Holds(n) == n <= SlotSize /\ \A i \in 1..n : flash[host.target][i] = Image[i]
Received(n) ==
  /\ target = host.target /\ session.received = n /\ n <= Len(Image)
  /\ session.version = host.build.version /\ session.size = Len(Image)
  /\ session.crc = Crc32(Image)
  /\ Holds(n)
\* d is the chunk that was sent last.
Coming(d) ==
  /\ Len(d) <= host.off /\ Received(host.off - Len(d))
  /\ \A i \in 1..Len(d) : d[i] = Image[(host.off - Len(d)) + i]

\* A record names the image; the record and the slot say that it is installed, and on trial.
Names(r) ==
  /\ r.slots[host.target].version = host.build.version
  /\ r.slots[host.target].size = Len(Image) /\ r.slots[host.target].crc = Crc32(Image)
Installed ==
  /\ host.build \in Builds /\ host.target \in Slots
  /\ Len(Image) # 0 /\ Holds(Len(Image)) /\ Crc32(Image) # ZeroCrc
  /\ Names(committed)
  /\ Readable(meta) => Names(meta)
  /\ InMetaOp => Names(job.record)
TrialReady(m) ==
  /\ Readable(m) /\ m.pending = host.target
  /\ m.slots[host.target].state = "PENDING" /\ m.slots[host.target].attempts # 0

\* Between sessions: what is left on the line writes nothing, and a write that was reported
\* done has been done.
IdleInv ==
  host.step = "idle" =>
    /\ pc = "off" \/ Booting => Len(down) = 0
    /\ Booting => caller = "main"
    /\ Len(down) <= 1 /\ \A i \in 1..Len(down) : down[i] \in Simple
    /\ pc \in {"off", "poll"} \/ Booting \/ Started
    /\ host.result = "done" => Len(down) = 0 /\ Installed /\ trials > 0

\* The first request may follow one of the session before; the record it gets is the stored one.
FirstInv ==
  host.step \in FirstSteps =>
    /\ pc = "off" \/ Booting => Len(up) = 0 /\ Len(down) <= 1
    /\ Booting => caller = "main"
    /\ pc \in {"off", "poll"} \/ Booting \/ Started
    /\ Outstanding <= 2 /\ \A i \in 1..Len(down) : down[i] \in Simple
MetaInv ==
  host.step = "meta" =>
    /\ host.off = 0
    /\ Len(down) # 0 => down[Len(down)] = Cmd("META")
    /\ Len(up) = 2 => ~IsOk(up[2])
    /\ \A i \in 1..Len(up) :
         up[i].type = "META" => pc = "poll" /\ up[i].record = LoadOrDefault(meta)

\* An OK is the answer to this START: the board has chosen the slot of the tool.
StartInv ==
  host.step = "start" =>
    /\ pc = "poll" /\ HostTarget(LoadOrDefault(meta)) = host.target /\ host.off = 0
    /\ Len(down) = 1 => down[1] = Cmd("START")
    /\ Len(down) = 2 => down[1] = Cmd("META") /\ down[2] = Cmd("START")
    /\ Outstanding <= 2
    /\ Len(down) # 0 => \A i \in 1..Len(up) : ~IsOk(up[i])
    /\ Len(up) = 2 => ~IsOk(up[1])
    /\ (\E i \in 1..Len(up) : IsOk(up[i])) => state = "WAIT_HEADER" /\ target = host.target

\* From here on there is one request or one reply, and every OK is the answer to it.
HeaderInv ==
  host.step = "header" =>
    /\ Outstanding <= 1 /\ host.off = 0 /\ pc \in {"poll", "slotErase"}
    /\ Len(down) # 0 => /\ down[1] = HeaderFrame(ImageHeader) /\ pc = "poll"
                        /\ state = "WAIT_HEADER" /\ target = host.target
    /\ pc = "slotErase" => Outstanding = 0 /\ job = ImageHeader /\ target = host.target
    /\ Len(up) # 0 /\ IsOk(up[1]) => Received(0)
DataInv ==
  host.step = "data" =>
    /\ Outstanding <= 1 /\ host.off <= Len(Image) /\ pc \in {"poll", "slotWrite"}
    /\ Len(down) # 0 => down[1].type = "DATA" /\ pc = "poll" /\ Coming(down[1].data)
    /\ pc = "slotWrite" => Outstanding = 0 /\ Coming(job.data)
    /\ Len(up) # 0 /\ IsOk(up[1]) => Received(host.off)
EndInv ==
  host.step = "end" =>
    /\ Outstanding <= 1 /\ (pc = "poll" \/ InMetaOp)
    /\ Len(down) # 0 => down[1] = Cmd("END") /\ pc = "poll" /\ Received(Len(Image))
    /\ InMetaOp => /\ Outstanding = 0 /\ job.call = "setPending"
                   /\ Received(Len(Image)) /\ Len(Image) # 0 /\ Crc32(Image) # ZeroCrc
                   /\ Names(job.record) /\ TrialReady(job.record)
    /\ Len(up) # 0 /\ IsOk(up[1]) => Installed /\ TrialReady(meta) /\ pc = "poll"
BootStepInv ==
  host.step = "boot" =>
    /\ Outstanding <= 1
    /\ pc \in {"poll", "decide"} \/ (InMetaOp /\ job.call = "spendAttempt") \/ Started
    /\ Len(down) # 0 => down[1] = Cmd("BOOT") /\ pc = "poll" /\ Installed /\ TrialReady(meta)
    /\ pc = "decide" => Outstanding = 0 /\ Installed /\ TrialReady(meta)
    /\ InMetaOp /\ job.call = "spendAttempt" => Outstanding = 0 /\ Installed
    /\ Started => Len(down) = 0 /\ Installed /\ trials > 0
    /\ Len(up) # 0 /\ IsOk(up[1]) => Started

\* Every recorded slot names an image that was linked for it.
Linked(r) ==
  \A s \in Slots : r.slots[s].state # "EMPTY" => \E b \in Builds : r.slots[s].crc = Crc32(b.image[s])
RecordInv ==
  /\ Linked(LoadOrDefault(meta))
  /\ InMetaOp => Linked(job.record)
  /\ pc = "confirmed" => Readable(meta) /\ ctrl = meta

StepInv ==
  /\ IdleInv /\ FirstInv /\ MetaInv /\ StartInv /\ HeaderInv /\ DataInv /\ EndInv /\ BootStepInv
  /\ host.step # "idle" => host.result # "done"
SessionInv == StepInv /\ RecordInv /\ gap = 0

-----------------------------------------------------------------------------
(* What a step does to the line *)

Pops(s, t) ==
  /\ Len(s) \in Nat /\ Len(s) # 0 /\ Len(t) = Len(s) - 1
  /\ \A i \in 1..Len(t) : t[i] = s[i + 1]
Pushes(s, t, x) ==
  /\ Len(s) \in Nat /\ Len(t) = Len(s) + 1
  /\ (\A i \in 1..Len(s) : t[i] = s[i]) /\ t[Len(s) + 1] = x

LEMMA TailPops ==
  ASSUME NEW S, NEW s \in Seq(S), s # <<>>
  PROVE  Pops(s, Tail(s)) /\ Head(s) = s[1]
<1>1. Len(s) \in Nat /\ Len(s) # 0 /\ Len(Tail(s)) = Len(s) - 1 BY HeadTailProperties, EmptySeq
<1>2. \A i \in 1..Len(Tail(s)) : Tail(s)[i] = s[i + 1] BY HeadTailProperties, EmptySeq
<1> QED BY <1>1, <1>2, HeadTailProperties DEF Pops

LEMMA AppendPushes ==
  ASSUME NEW S, NEW s \in Seq(S), NEW x \in S
  PROVE  Pushes(s, Append(s, x), x)
<1>1. Len(s) \in Nat /\ Len(Append(s, x)) = Len(s) + 1 BY AppendProperties
<1>2. \A i \in 1..Len(s) : Append(s, x)[i] = s[i] BY AppendProperties
<1>3. Append(s, x)[Len(s) + 1] = x BY AppendProperties
<1> QED BY <1>1, <1>2, <1>3 DEF Pushes

LEMMA ConcatPushes ==
  ASSUME NEW S, NEW s \in Seq(S), NEW x \in S
  PROVE  Pushes(s, s \o <<x>>, x) /\ s \o <<>> = s
<1>1. <<x>> \in Seq(S) /\ Len(<<x>>) = 1 /\ <<x>>[1] = x OBVIOUS
<1>2. s \o <<x>> = Append(s, x) BY AppendIsConcat
<1>3. s \o <<>> = s BY ConcatEmptySeq
<1> QED BY <1>2, <1>3, AppendPushes

\* The board sends nothing, or one frame.
LEMMA EmitNothing ==
  ASSUME up \in Seq(BoardFrames), Emit(<<>>)
  PROVE  up' = up
<1> DEFINE e == <<>>
           fs == [i \in DOMAIN e |-> Packet(e[i])]
<1>1. up' = up \o fs BY DEF Emit
<1>2. fs = <<>>
  <2>1. DOMAIN e = {} OBVIOUS
  <2>2. fs \in Seq(BoardFrames) /\ Len(fs) = 0
     OBVIOUS
  <2> QED BY <2>2, EmptySeq
<1> HIDE DEF fs
<1> QED BY <1>1, <1>2, ConcatEmptySeq
Reported(st) == [type |-> "STATUS", status |-> st]

LEMMA EmitOne ==
  ASSUME up \in Seq(BoardFrames), NEW st \in Statuses, Packet(st) \in BoardFrames, Emit(<<st>>)
  PROVE  Pushes(up, up', Packet(st))
<1> DEFINE p == Packet(st)
           fs == [i \in DOMAIN <<st>> |-> Packet(<<st>>[i])]
<1>1. up' = up \o fs BY DEF Emit
<1>2. fs = <<p>>
  <2>1. DOMAIN <<st>> = 1..1 /\ <<st>>[1] = st OBVIOUS
  <2>2. \A i \in 1..1 : i = 1 OBVIOUS
  <2>3. fs = [i \in 1..1 |-> p] BY <2>1, <2>2
  <2> HIDE DEF p
  <2>4. [i \in 1..1 |-> p] = <<p>> OBVIOUS
  <2> QED BY <2>3, <2>4
<1> HIDE DEF fs, p
<1> QED BY <1>1, <1>2, ConcatPushes DEF p

LEMMA PacketType ==
  ASSUME ctrl' \in Records, NEW st \in Statuses
  PROVE  Packet(st) \in BoardFrames /\ (st # "META" => Packet(st) = Reported(st))
  BY DEF Packet, BoardFrames, Reported

\* After a frame, the board has answered with at most one frame.
LEMMA Answer ==
  ASSUME up \in Seq(BoardFrames), ctrl' \in Records, Emit(sent')
  PROVE  /\ sent' = <<>> => up' = up
         /\ \A st \in Statuses : sent' = <<st>> => Pushes(up, up', Packet(st))
  BY EmitNothing, EmitOne, PacketType

\* In a step of its own too.
LEMMA NewAnswer ==
  ASSUME up \in Seq(BoardFrames), ctrl' \in Records, sent \in Seq(Statuses), EmitNew
  PROVE  /\ sent' = sent => up' = up
         /\ \A st \in Statuses \ {"META"} : sent' = Append(sent, st) => Pushes(up, up', Reported(st))
<1> DEFINE n == Len(sent)
<1>1. n \in Nat OBVIOUS
<1>2. ASSUME sent' = sent PROVE up' = up
  <2>1. SubSeq(sent', n + 1, Len(sent')) = <<>> BY <1>1, <1>2, SubSeqEmpty
  <2> QED BY <2>1, EmitNothing DEF EmitNew
<1>3. ASSUME NEW st \in Statuses \ {"META"}, sent' = Append(sent, st)
      PROVE  Pushes(up, up', Reported(st))
  <2>1. sent' \in Seq(Statuses) /\ Len(sent') = n + 1 /\ sent'[n + 1] = st BY <1>3, AppendProperties
  <2> HIDE DEF n
  <2>2. SubSeq(sent', n + 1, n + 1) = <<st>>
    <3>1. n + 1 \in 1..Len(sent') BY <1>1, <2>1
    <3> DEFINE m == n + 1
    <3> HIDE DEF m
    <3>2. m \in 1..Len(sent') /\ sent'[m] = st BY <2>1, <3>1 DEF m
    <3> DEFINE t == SubSeq(sent', m, m)
    <3>3. m \in Int /\ \A i \in m..m : sent'[i] \in Statuses BY <2>1, <3>2
    <3>4. t \in Seq(Statuses) /\ Len(t) = 1 /\ t[1] = sent'[m]
      <4>1. m <= m /\ m - m + 1 = 1 /\ m + 1 - 1 = m BY <3>3
      <4>2. /\ t \in Seq(Statuses)
            /\ Len(t) = IF m <= m THEN m - m + 1 ELSE 0
            /\ \A i \in 1..(m - m + 1) : t[i] = sent'[m + i - 1]
        BY ONLY <3>3, SubSeqProperties
      <4> QED BY <4>1, <4>2
    <3> HIDE DEF t
    <3>5. t = <<t[1]>> BY <3>4
    <3> QED BY <3>2, <3>4, <3>5 DEF m, t
  <2>3. Emit(<<st>>) BY <2>1, <2>2 DEF EmitNew, n
  <2> QED BY <2>3, EmitOne, PacketType
<1> QED BY <1>2, <1>3

-----------------------------------------------------------------------------
(* What the steps of the board do to the line *)

BoardSame == UNCHANGED <<meta, flash, pc, job, state, target, session, ctrl, caller, running,
                         trials, committed>>

LEMMA PollFrame ==
  ASSUME TypeInv, TypeInv', ToolInv, Poll
  PROVE  /\ pc = "poll" /\ host' = host /\ Pops(down, down')
         /\ down[1] \in HostFrames /\ Handle(down[1]) /\ Frame
         /\ UNCHANGED <<meta, flash, trials, committed>>
         /\ sent' = <<>> => up' = up
         /\ \A st \in Statuses : sent' = <<st>> => Pushes(up, up', Packet(st))
<1>1. /\ down \in Seq(HostFrames) /\ up \in Seq(BoardFrames) /\ ctrl' \in Records
      /\ down # <<>> /\ down' = Tail(down) /\ Handle(Head(down)) /\ Emit(sent') /\ host' = host
  BY DEF ToolInv, TypeInv, TypeOK, Poll
<1>2. Pops(down, down') /\ Head(down) = down[1] BY ONLY <1>1, TailPops
<1>3. Head(down) \in HostFrames BY ONLY <1>1, Rest
<1>4. Frame BY <1>1, <1>3, HandleIsFrame
<1> QED BY <1>1, <1>2, <1>3, <1>4, Answer, FrameEffect

LEMMA PollCmd ==
  ASSUME NEW f, NEW c, f = Cmd(c), Handle(f)
  PROVE  /\ ~Taken(c) => CmdBadState
         /\ Taken(c) => /\ c = "ABORT" => CmdAbort
                        /\ c = "QUERY" => CmdQuery
                        /\ c = "META" => CmdMeta
                        /\ c = "START" => CmdStart
                        /\ c = "END" => CmdEnd
                        /\ c = "BOOT" => CmdBoot
<1>1. f.type = "CMD" /\ f.cmd = c BY DEF Cmd
<1>2. HandleCmd(c) BY <1>1 DEF Handle
<1> QED BY <1>2 DEF HandleCmd

\* META, START, ABORT and QUERY are answered at once and change neither flash nor place.
LEMMA PollSimple ==
  ASSUME TypeInv, TypeInv', ToolInv, Poll, down[1] \in Simple
  PROVE  /\ pc' = pc /\ job' = job
         /\ \E x : /\ Pushes(up, up', x)
                   /\ x.type = "META" => x.record = LoadOrDefault(meta)
                   /\ down[1] = Cmd("META") => ~IsOk(x)
                   /\ down[1] = Cmd("START") /\ IsOk(x) =>
                        state' = "WAIT_HEADER" /\ target' = ChooseTarget(LoadOrDefault(meta))
<1>1. /\ Handle(down[1])
      /\ \A st \in Statuses : sent' = <<st>> => Pushes(up, up', Packet(st))
  BY PollFrame
<1>2. ctrl' \in Records BY DEF TypeInv, TypeOK
<1>3. \A st \in {"OK", "BAD_STATE", "META"} : st \in Statuses BY DEF Statuses
<1>4. Packet("OK") = Reported("OK") /\ Packet("BAD_STATE") = Reported("BAD_STATE")
  BY DEF Packet, Reported
<1>5. ASSUME CmdBadState
      PROVE  pc' = pc /\ job' = job /\ Pushes(up, up', Reported("BAD_STATE"))
  BY <1>1, <1>3, <1>4, <1>5 DEF CmdBadState, Refused, ReplyFirst
<1>6. /\ Reported("BAD_STATE").type = "STATUS" /\ ~IsOk(Reported("BAD_STATE"))
      /\ Reported("OK").type = "STATUS"
  BY DEF Reported, IsOk
<1>7. Cmd("META") # Cmd("START") /\ \A c \in {"ABORT", "QUERY"} : Cmd(c) # Cmd("META") /\ Cmd(c) # Cmd("START")
  <2>1. \A c : Cmd(c).cmd = c BY DEF Cmd
  <2> QED BY <2>1
<1>8. CASE down[1] = Cmd("META")
  <2>1. CASE CmdBadState BY <1>5, <1>6, <1>7, <1>8, <2>1
  <2>2. CASE CmdMeta
    <3>1. sent' = <<"META">> /\ ctrl' = LoadOrDefault(meta) /\ pc' = pc /\ job' = job
      BY <2>2 DEF CmdMeta, ReplyFirst
    <3>2. Packet("META").record = LoadOrDefault(meta) /\ Packet("META").type = "META"
      BY <3>1 DEF Packet
    <3>3. ~IsOk(Packet("META")) BY <3>2 DEF IsOk
    <3> QED BY <1>1, <1>3, <1>7, <1>8, <3>1, <3>2, <3>3
  <2> QED BY <1>1, <1>8, <2>1, <2>2, PollCmd
<1>9. CASE down[1] = Cmd("START")
  <2>1. CASE CmdBadState BY <1>5, <1>6, <1>7, <1>9, <2>1
  <2>2. CASE CmdStart
    <3>1. /\ sent' = <<"OK">> /\ pc' = pc /\ job' = job
          /\ state' = "WAIT_HEADER" /\ target' = ChooseTarget(LoadOrDefault(meta))
      BY <2>2 DEF CmdStart, ReplyFirst
    <3> QED BY <1>1, <1>3, <1>4, <1>6, <1>7, <1>9, <3>1
  <2> QED BY <1>1, <1>9, <2>1, <2>2, PollCmd
<1>10. ASSUME down[1] = Cmd("ABORT") \/ down[1] = Cmd("QUERY")
       PROVE  /\ pc' = pc /\ job' = job
              /\ Pushes(up, up', Reported("BAD_STATE")) \/ Pushes(up, up', Reported("OK"))
  <2>1. CmdBadState \/ CmdAbort \/ CmdQuery BY <1>1, <1>10, PollCmd
  <2>2. CASE CmdBadState BY <1>5, <2>2
  <2>3. CASE CmdAbort \/ CmdQuery
    <3>1. sent' = <<"OK">> /\ pc' = pc /\ job' = job
      BY <2>3 DEF CmdAbort, CmdQuery, Refused, ReplyFirst
    <3> QED BY <1>1, <1>3, <1>4, <3>1
  <2> QED BY <2>1, <2>2, <2>3
<1> QED BY <1>6, <1>7, <1>8, <1>9, <1>10 DEF Simple

\* A damaged frame is answered with an error and changes nothing.
LEMMA GarbledAnswer ==
  ASSUME TypeInv, TypeInv', ToolInv, Garbled
  PROVE  /\ pc = "poll" /\ host' = host /\ Pops(down, down') /\ BoardSame
         /\ \E x : Pushes(up, up', x) /\ x.type = "STATUS" /\ ~IsOk(x)
<1>1. /\ down \in Seq(HostFrames) /\ up \in Seq(BoardFrames) /\ ctrl' \in Records
      /\ down # <<>> /\ down' = Tail(down) /\ Emit(sent') /\ host' = host /\ BadFrame
  BY DEF ToolInv, TypeInv, TypeOK, Garbled
<1>2. Pops(down, down') BY ONLY <1>1, TailPops
<1>3. PICK st \in {"BAD_FRAME", "BAD_CRC"} : Refused(st) BY <1>1 DEF BadFrame
<1>4. sent' = <<st>> /\ BoardSame BY <1>3 DEF Refused, ReplyFirst, BoardSame, ram, history
<1>5. st \in Statuses /\ st # "META" BY DEF Statuses
<1>6. Pushes(up, up', Reported(st)) BY <1>1, <1>4, <1>5, Answer, PacketType
<1>7. Reported(st).type = "STATUS" /\ ~IsOk(Reported(st)) BY <1>5 DEF Reported, IsOk
<1> QED BY <1>1, <1>2, <1>4, <1>6, <1>7 DEF BadFrame

LEMMA LostEffect ==
  ASSUME ToolInv, Lost
  PROVE  /\ BoardSame /\ host' = host
         /\ (Pops(down, down') /\ up' = up) \/ (Pops(up, up') /\ down' = down)
<1>1. down \in Seq(HostFrames) /\ up \in Seq(BoardFrames) BY DEF ToolInv
<1>2. CASE down # <<>> /\ down' = Tail(down) /\ up' = up
  <2>1. Pops(down, down') BY ONLY <1>1, <1>2, TailPops
  <2> QED BY <1>2, <2>1 DEF Lost, BoardSame, vars, ram, history
<1>3. CASE up # <<>> /\ up' = Tail(up) /\ down' = down
  <2>1. Pops(up, up') BY ONLY <1>1, <1>3, TailPops
  <2> QED BY <1>3, <2>1 DEF Lost, BoardSame, vars, ram, history
<1> QED BY <1>2, <1>3 DEF Lost

LEMMA DeafEffect ==
  ASSUME ToolInv, Deaf
  PROVE  /\ BoardSame /\ host' = host /\ up' = up /\ Pops(down, down')
         /\ pc = "off" \/ InApp
<1>1. down \in Seq(HostFrames) BY DEF ToolInv
<1>2. down # <<>> /\ down' = Tail(down) BY DEF Deaf
<1>3. Pops(down, down') BY ONLY <1>1, <1>2, TailPops
<1> QED BY <1>3 DEF Deaf, BoardSame, vars, ram, history

-----------------------------------------------------------------------------
(* What the steps of the board do to the record *)

\* r has the images of m.
KeepsImages(r, m) ==
  \A s \in Slots :
    /\ r.slots[s].version = m.slots[s].version /\ r.slots[s].size = m.slots[s].size
    /\ r.slots[s].crc = m.slots[s].crc
    /\ r.slots[s].state # "EMPTY" => m.slots[s].state # "EMPTY"

LEMMA EditsKeepImages ==
  ASSUME NEW m \in Records, Agrees(m)
  PROVE  /\ \A s \in {m.pending, m.confirmed} \ {None} : KeepsImages(MarkBad(m, s), m)
         /\ ~DecrementRejects(m) => KeepsImages(Decrement(m), m)
         /\ m.pending # None => KeepsImages(Confirm(m), m)
<1>1. LoadOrDefault(m) = m BY UnreadableAssumption DEF LoadOrDefault, Readable
<1>2. /\ m.slots \in [Slots -> SlotInfo] /\ \A t \in Slots : m.slots[t] \in SlotInfo
      /\ m.pending \in SlotIds /\ m.confirmed \in SlotIds
  BY DEF Records
<1>3. ASSUME NEW s \in {m.pending, m.confirmed} \ {None} PROVE KeepsImages(MarkBad(m, s), m)
  <2>1. s \in Slots /\ m.slots[s].state # "EMPTY" BY <1>2, <1>3 DEF Agrees, SlotIds
  <2>2. MarkBad(m, s).slots = [m.slots EXCEPT ![s] = [m.slots[s] EXCEPT !.state = "BAD", !.attempts = 0]]
    BY <1>1 DEF MarkBad
  <2> QED BY <1>2, <2>1, <2>2 DEF KeepsImages, SlotInfo
<1>4. ASSUME ~DecrementRejects(m) PROVE KeepsImages(Decrement(m), m)
  <2>1. m.pending \in Slots BY <1>1, <1>2, <1>4 DEF DecrementRejects, SlotIds
  <2> DEFINE k == OneLess(m.slots[m.pending].attempts)
  <2>2. Decrement(m) = [m EXCEPT !.slots[m.pending].attempts = k] BY <1>1 DEF Decrement
  <2> HIDE DEF k
  <2>3. Decrement(m).slots = [m.slots EXCEPT ![m.pending] = [m.slots[m.pending] EXCEPT !.attempts = k]]
    BY <2>1, <2>2 DEF Records
  <2> QED BY <1>2, <2>1, <2>3 DEF KeepsImages, SlotInfo
<1>5. ASSUME m.pending # None PROVE KeepsImages(Confirm(m), m)
  <2>1. m.pending \in Slots /\ m.slots[m.pending].state = "PENDING"
    BY <1>2, <1>5 DEF Agrees, SlotIds
  <2>2. Confirm(m).slots = [t \in Slots |->
                  IF t = m.pending THEN [m.slots[t] EXCEPT !.state = "CONFIRMED", !.attempts = 0]
                                   ELSE Retired(m.slots[t])]
    BY DEF Confirm, Records
  <2>3. ASSUME NEW i \in SlotInfo
        PROVE  /\ Retired(i).version = i.version /\ Retired(i).size = i.size /\ Retired(i).crc = i.crc
               /\ Retired(i).state # "EMPTY" => i.state # "EMPTY"
    BY DEF Retired, SlotInfo
  <2> DEFINE i == m.slots[m.pending]
             j == [i EXCEPT !.state = "CONFIRMED", !.attempts = 0]
  <2>4. /\ j.version = i.version /\ j.size = i.size /\ j.crc = i.crc
        /\ i.state # "EMPTY"
    BY <1>2, <2>1 DEF SlotInfo
  <2>5. Confirm(m).slots[m.pending] = j BY <2>1, <2>2
  <2>6. \A t \in Slots \ {m.pending} : Confirm(m).slots[t] = Retired(m.slots[t]) BY <2>2
  <2> HIDE DEF i, j
  <2>7. \A t \in Slots \ {m.pending} :
          /\ Retired(m.slots[t]).version = m.slots[t].version
          /\ Retired(m.slots[t]).size = m.slots[t].size /\ Retired(m.slots[t]).crc = m.slots[t].crc
          /\ Retired(m.slots[t]).state # "EMPTY" => m.slots[t].state # "EMPTY"
    BY <1>2, <2>3
  <2> QED BY <2>4, <2>5, <2>6, <2>7 DEF KeepsImages, i
<1> QED BY <1>3, <1>4, <1>5

\* Where the board is after a metadata write that succeeded, and what it sends.
LEMMA RunMeta ==
  ASSUME TypeInv, FlashWorks, MetaErase \/ MetaWrite
  PROVE  /\ InMetaOp /\ flash' = flash
         /\ \/ /\ pc' = "metaWrite" /\ meta' = Unreadable /\ job' = job /\ sent' = sent
               /\ UNCHANGED <<caller, trials, committed, target, session>>
            \/ /\ meta' = job.record /\ committed' = job.record
               /\ job.call = "spendAttempt" =>
                    pc' = "app" /\ caller' = "main" /\ trials' # 0 /\ sent' = Append(sent, "OK")
               /\ job.call = "rejectPending" =>
                    /\ pc' = "confirmed" /\ ctrl' = LoadOrDefault(meta') /\ sent' = sent
                    /\ UNCHANGED <<caller, trials>>
               /\ job.call = "rejectConfirmed" =>
                    /\ pc' = "poll" /\ trials' = trials
                    /\ caller = "main" => sent' = Append(sent, "BOOT_ERR")
               /\ job.call = "setPending" => pc' = "poll" /\ sent' = Append(sent, "OK")
               /\ job.call = "confirm" => pc' = "appMain" /\ sent' = sent /\ UNCHANGED <<caller, trials>>
<1>1. sent \in Seq(Statuses) /\ trials \in Nat /\ sent \o <<>> = sent
      /\ sent \o <<"BOOT_ERR">> = Append(sent, "BOOT_ERR")
  <2>1. sent \in Seq(Statuses) /\ trials \in Nat BY DEF TypeInv, TypeOK
  <2>2. "BOOT_ERR" \in Statuses BY DEF Statuses
  <2>3. sent \o <<"BOOT_ERR">> = Append(sent, "BOOT_ERR") BY ONLY <2>1, <2>2, AppendIsConcat
  <2>4. sent \o <<>> = sent BY ONLY <2>1, ConcatEmptySeq
  <2> QED BY <2>1, <2>3, <2>4
<1>2. InMetaOp /\ flash' = flash BY DEF MetaErase, MetaWrite, InMetaOp, MetaPlaces
<1>3. CASE MetaErase
  BY <1>2, <1>3 DEF MetaErase, FlashWorks, ram
<1>4. CASE MetaWrite
  <2>1. meta' = job.record /\ committed' = job.record /\ AfterMetaWrite(TRUE)
    BY <1>4 DEF MetaWrite, FlashWorks
  <2>2. ASSUME AfterSpendAttempt(TRUE)
        PROVE  pc' = "app" /\ caller' = "main" /\ trials' # 0 /\ sent' = Append(sent, "OK")
    <3>1. Jump(job.record.pending) /\ trials' = IF trials <= MaxAttempts THEN trials + 1 ELSE trials
      BY <2>2 DEF AfterSpendAttempt
    <3>2. trials' # 0 BY <1>1, <3>1, MetaAssumption
    <3> QED BY <3>1, <3>2 DEF Jump, Reply, ClearRam
  <2>3. ASSUME AfterRejectConfirmed
        PROVE  /\ pc' = "poll" /\ trials' = trials
               /\ caller = "main" => sent' = Append(sent, "BOOT_ERR")
    <3>1. /\ pc' = "poll" /\ trials' = trials
          /\ sent' = sent \o <<"BOOT_ERR">> \o (IF caller = "cmd" THEN <<"BOOT_ERR">> ELSE <<>>)
      BY <2>3 DEF AfterRejectConfirmed, NothingToBoot
    <3>2. ASSUME caller = "main" PROVE sent' = Append(sent, "BOOT_ERR")
      <4>1. Append(sent, "BOOT_ERR") \in Seq(Statuses)
        BY ReplyType DEF TypeInv, Statuses
      <4>2. Append(sent, "BOOT_ERR") \o <<>> = Append(sent, "BOOT_ERR") BY <4>1, ConcatEmptySeq
      <4> QED BY <1>1, <3>1, <3>2, <4>2
    <3> QED BY <3>1, <3>2
  <2>4. ASSUME AfterRejectPending
        PROVE  /\ pc' = "confirmed" /\ ctrl' = LoadOrDefault(meta') /\ sent' = sent
               /\ UNCHANGED <<caller, trials>>
    BY <2>4 DEF AfterRejectPending
  <2>5. ASSUME AfterSetPending(TRUE) PROVE pc' = "poll" /\ sent' = Append(sent, "OK")
    BY <2>5 DEF AfterSetPending, Reply
  <2>6. ASSUME AfterConfirm PROVE pc' = "appMain" /\ sent' = sent /\ UNCHANGED <<caller, trials>>
    BY <2>6 DEF AfterConfirm, ram
  <2> QED BY <1>2, <2>1, <2>2, <2>3, <2>4, <2>5, <2>6 DEF AfterMetaWrite
<1> QED BY <1>3, <1>4

LEMMA RunDecide ==
  ASSUME TypeInv, AgreeInv, DecidePending
  PROVE  /\ pc = "decide" /\ UNCHANGED <<meta, flash, trials, committed>> /\ ctrl' = LoadOrDefault(meta)
         /\ \/ pc' = "poll" /\ (caller = "main" => sent' = sent)
            \/ pc' = "confirmed" /\ Readable(meta) /\ UNCHANGED <<sent, caller>>
            \/ /\ pc' = "metaErase" /\ Readable(meta) /\ UNCHANGED <<sent, caller>>
               /\ job'.call \in {"spendAttempt", "rejectPending"} /\ KeepsImages(job'.record, meta)
<1>1. pc = "decide" /\ UNCHANGED <<meta, flash, trials, committed>> /\ ctrl' = LoadOrDefault(meta)
  BY DEF DecidePending, history
<1>2. CASE ~Readable(meta) /\ NothingToBoot(<<>>)
  <2>1. sent \in Seq(Statuses) BY DEF TypeInv, TypeOK
  <2>2. sent \o <<>> = sent BY ONLY <2>1, ConcatEmptySeq
  <2> QED BY <1>1, <1>2, <2>2 DEF NothingToBoot
<1>3. CASE Readable(meta) /\ pc' = "confirmed" /\ UNCHANGED <<job, caller, sent>>
  BY <1>1, <1>3
<1>4. ASSUME Readable(meta), ctrl'.pending # None
      PROVE  /\ KeepsImages(MarkBad(meta, ctrl'.pending), meta)
             /\ ~DecrementRejects(meta) => KeepsImages(Decrement(meta), meta)
  <2>1. meta \in Records /\ Agrees(meta) /\ ctrl' = meta
    BY <1>1, <1>4 DEF TypeInv, TypeOK, AgreeInv, Readable, LoadOrDefault
  <2> QED BY <1>4, <2>1, EditsKeepImages
<1>5. ASSUME Readable(meta), NEW r, NEW c \in {"spendAttempt", "rejectPending"}, KeepsImages(r, meta),
             StartMetaWrite(r, c), UNCHANGED <<caller, sent>>
      PROVE  /\ pc' = "metaErase" /\ Readable(meta) /\ UNCHANGED <<sent, caller>>
             /\ job'.call \in {"spendAttempt", "rejectPending"} /\ KeepsImages(job'.record, meta)
  BY <1>5 DEF StartMetaWrite
<1> QED BY <1>1, <1>2, <1>3, <1>4, <1>5 DEF DecidePending

LEMMA RunFallback ==
  ASSUME TypeInv, AgreeInv, RecordInv, DecideConfirmed
  PROVE  /\ pc = "confirmed" /\ Readable(meta) /\ UNCHANGED <<meta, flash, trials, committed>>
         /\ \/ pc' = "poll" /\ (caller = "main" => sent' = Append(sent, "BOOT_ERR"))
            \/ pc' = "app" /\ sent' = Append(sent, "OK")
            \/ /\ pc' = "metaErase" /\ UNCHANGED <<sent, caller>>
               /\ job'.call = "rejectConfirmed" /\ KeepsImages(job'.record, meta)
<1>1. pc = "confirmed" /\ UNCHANGED <<meta, flash, trials, committed>> BY DEF DecideConfirmed, history
<1>2. meta \in Records /\ Agrees(meta) /\ ctrl = meta /\ Readable(meta)
  BY <1>1 DEF RecordInv, TypeInv, TypeOK, AgreeInv, Readable
<1>3. CASE NothingToBoot(<<"BOOT_ERR">>)
  <2>1. sent \in Seq(Statuses) /\ "BOOT_ERR" \in Statuses BY DEF TypeInv, TypeOK, Statuses
  <2>2. sent \o <<"BOOT_ERR">> = Append(sent, "BOOT_ERR") BY ONLY <2>1, AppendIsConcat
  <2>3. Append(sent, "BOOT_ERR") \in Seq(Statuses) BY <2>1
  <2>4. Append(sent, "BOOT_ERR") \o <<>> = Append(sent, "BOOT_ERR") BY ONLY <2>3, ConcatEmptySeq
  <2> QED BY <1>1, <1>2, <1>3, <2>2, <2>4 DEF NothingToBoot
<1>4. CASE Jump(ctrl.confirmed) BY <1>1, <1>2, <1>4 DEF Jump, Reply
<1>5. CASE /\ ctrl.confirmed # None /\ StartMetaWrite(MarkBad(meta, ctrl.confirmed), "rejectConfirmed")
           /\ UNCHANGED <<ram, running, sent>>
  <2>1. KeepsImages(MarkBad(meta, meta.confirmed), meta) BY <1>2, <1>5, EditsKeepImages
  <2> QED BY <1>1, <1>2, <1>5, <2>1 DEF StartMetaWrite, ram
<1> QED BY <1>3, <1>4, <1>5 DEF DecideConfirmed

LEMMA RunConfirm ==
  ASSUME TypeInv, AgreeInv, AppConfirm
  PROVE  /\ pc = "app" /\ UNCHANGED <<meta, flash, trials, committed, sent, caller>>
         /\ \/ pc' = "appMain"
            \/ /\ pc' = "metaErase" /\ Readable(meta)
               /\ job'.call = "confirm" /\ KeepsImages(job'.record, meta)
<1>1. pc = "app" /\ UNCHANGED <<meta, flash, trials, committed, sent, caller>>
  BY DEF AppConfirm, history, ram
<1>2. CASE pc' = "appMain" BY <1>1, <1>2
<1>3. CASE ~ConfirmRejects(meta) /\ StartMetaWrite(Confirm(meta), "confirm")
  <2>1. meta \in Records /\ Agrees(meta) /\ Readable(meta) /\ meta.pending # None
    BY <1>3 DEF ConfirmRejects, TypeInv, TypeOK, AgreeInv, Readable, Slots, None
  <2>2. KeepsImages(Confirm(meta), meta) BY <2>1, EditsKeepImages
  <2> QED BY <1>1, <1>3, <2>1, <2>2 DEF StartMetaWrite
<1> QED BY <1>2, <1>3 DEF AppConfirm

\* A step of the board keeps each recorded image with the slot it was linked for.
LEMMA LinkedKept ==
  ASSUME NEW m, NEW r, Linked(m), KeepsImages(r, m)
  PROVE  Linked(r)
  BY DEF Linked, KeepsImages

LEMMA DefaultLinked == Linked(InitDefault)
  BY DEF Linked, InitDefault, EmptyInfo

LEMMA RunRecord ==
  ASSUME TypeInv, AgreeInv, RecordInv, FlashWorks, DeviceStep
  PROVE  RecordInv'
<1>1. Linked(LoadOrDefault(meta)) /\ (InMetaOp => Linked(job.record)) BY DEF RecordInv
<1>2. Readable(meta) => Linked(meta) BY <1>1 DEF LoadOrDefault
<1> HIDE DEF Linked
<1>3. CASE DecidePending \/ DecideConfirmed \/ AppConfirm
  <2>1. /\ meta' = meta
        /\ pc' = "confirmed" => Readable(meta) /\ ctrl' = LoadOrDefault(meta)
        /\ pc' \notin {"poll", "confirmed", "app", "appMain"} =>
             Readable(meta) /\ KeepsImages(job'.record, meta)
    BY <1>3, RunDecide, RunFallback, RunConfirm
  <2>2. InMetaOp' => Linked(job.record)'
    <3>1. InMetaOp' => pc' \notin {"poll", "confirmed", "app", "appMain"} BY DEF InMetaOp, MetaPlaces
    <3>2. Linked(job.record)' <=> Linked(job'.record) BY DEF Linked
    <3> QED BY <1>2, <2>1, <3>1, <3>2, LinkedKept
  <2>3. Linked(LoadOrDefault(meta))' BY <1>1, <2>1 DEF Linked, LoadOrDefault, Readable
  <2> QED BY <2>1, <2>2, <2>3 DEF RecordInv, LoadOrDefault, Readable
<1>4. CASE MetaErase \/ MetaWrite
  <2>1. InMetaOp /\ Linked(job.record) BY <1>1, <1>4, RunMeta
  <2>2. CASE pc' = "metaWrite" /\ meta' = Unreadable /\ job' = job
    <3>1. Linked(LoadOrDefault(meta)') BY <2>2, DefaultLinked DEF LoadOrDefault, Readable
    <3> QED BY <2>1, <2>2, <3>1 DEF RecordInv, Linked
  <2>3. CASE /\ meta' = job.record
             /\ pc' \in {"app", "appMain", "poll"} \/ (pc' = "confirmed" /\ ctrl' = LoadOrDefault(meta'))
    <3>1. job.record \in Records
      BY <2>1 DEF InMetaOp, TypeInv, TypeOK, MetaJobs, MetaPlaces
    <3>2. Readable(meta') /\ LoadOrDefault(meta') = job.record /\ LoadOrDefault(meta)' = LoadOrDefault(meta')
      BY <2>3, <3>1, UnreadableAssumption DEF Readable, LoadOrDefault
    <3>3. Linked(LoadOrDefault(meta))' BY <2>1, <3>2 DEF Linked
    <3>4. ~InMetaOp' BY <2>3 DEF InMetaOp, MetaPlaces
    <3> QED BY <2>3, <3>2, <3>3, <3>4 DEF RecordInv, Readable
  <2>4. job.call \in Calls BY <2>1 DEF InMetaOp, TypeInv, TypeOK, MetaJobs, MetaPlaces
  <2> QED BY <1>4, <2>2, <2>3, <2>4, RunMeta DEF Calls
<1>5. CASE SlotErase \/ SlotWrite
  <2>1. meta' = meta /\ pc' = "poll" BY <1>5 DEF SlotErase, SlotWrite
  <2> QED BY <1>1, <2>1 DEF RecordInv, InMetaOp, MetaPlaces, Linked, LoadOrDefault, Readable
<1> QED BY <1>3, <1>4, <1>5 DEF DeviceStep

-----------------------------------------------------------------------------
(* What the steps of the board leave of an installed image *)

\* The image of the tool is named by a record with the images of one that names it.
LEMMA NamesKept ==
  ASSUME NEW m, NEW r, host.target \in Slots, Names(m), KeepsImages(r, m)
  PROVE  Names(r)
  BY DEF Names, KeepsImages

\* It stays installed as long as only the record is written.
LEMMA InstalledDepends ==
  ASSUME Installed, host' = host, flash' = flash,
         committed' = committed \/ (InMetaOp /\ committed' = job.record),
         meta' \in {meta, Unreadable} \/ (InMetaOp /\ meta' = job.record),
         InMetaOp' => (InMetaOp /\ job' = job) \/ (Readable(meta) /\ KeepsImages(job'.record, meta))
  PROVE  Installed'
<1>1. /\ host.target \in Slots /\ Names(committed) /\ (InMetaOp => Names(job.record))
      /\ Readable(meta) => Names(meta)
  BY DEF Installed
<1>2. Image' = Image BY DEF Image
<1>3. Names(committed)' BY <1>1, <1>2 DEF Names
<1>4. Readable(meta)' => Names(meta)' BY <1>1, <1>2 DEF Names, Readable
<1>5. InMetaOp' => Names(job.record)'
  <2>1. ASSUME Readable(meta), KeepsImages(job'.record, meta) PROVE Names(job'.record)
    BY <1>1, <2>1, NamesKept
  <2> QED BY <1>1, <1>2, <2>1 DEF Names
<1>6. Holds(Len(Image))' BY <1>2 DEF Installed, Holds
<1> QED BY <1>2, <1>3, <1>4, <1>5, <1>6 DEF Installed

LEMMA RunInstalled ==
  ASSUME TypeInv, AgreeInv, RecordInv, FlashWorks, DeviceStep, Booting \/ Started, host' = host
  PROVE  /\ Installed => Installed'
         /\ trials > 0 => trials' > 0
<1>1. trials \in Nat BY DEF TypeInv, TypeOK
<1>2. pc \notin {"slotErase", "slotWrite"} /\ (InMetaOp => job.call # "setPending")
  BY DEF Booting, Started, InMetaOp, InApp, MetaPlaces
<1>3. CASE DecidePending \/ DecideConfirmed \/ AppConfirm
  <2>1. /\ UNCHANGED <<meta, flash, trials, committed>>
        /\ InMetaOp' => Readable(meta) /\ KeepsImages(job'.record, meta)
    BY <1>3, RunDecide, RunFallback, RunConfirm DEF InMetaOp, MetaPlaces
  <2> QED BY <2>1, InstalledDepends
<1>4. CASE MetaErase \/ MetaWrite
  <2>1. job.call \in Calls \ {"setPending"} /\ InMetaOp
    BY <1>2, <1>4, RunMeta DEF TypeInv, TypeOK, MetaJobs, InMetaOp, MetaPlaces
  <2>2. trials' # 0 \/ trials' = trials BY <1>4, <2>1, RunMeta DEF Calls
  <2>3. trials' \in Nat BY <1>1, <1>4, <2>1
    DEF MetaErase, MetaWrite, AfterMetaWrite, AfterSpendAttempt, AfterSetPending, AfterConfirm,
        AfterRejectPending, AfterRejectConfirmed, FlashWorks
  <2>4. /\ flash' = flash
        /\ committed' \in {committed, job.record}
        /\ meta' \in {Unreadable, job.record}
        /\ InMetaOp' => job' = job
    BY <1>4, <2>1, RunMeta DEF Calls, InMetaOp, MetaPlaces
  <2> QED BY <1>1, <2>1, <2>2, <2>3, <2>4, InstalledDepends
<1> QED BY <1>2, <1>3, <1>4 DEF DeviceStep, SlotErase, SlotWrite

LEMMA RunLine ==
  ASSUME TypeInv, TypeInv', ToolInv, Run
  PROVE  /\ DeviceStep /\ down' = down /\ host' = host
         /\ sent' = sent => up' = up
         /\ \A st \in {"OK", "BOOT_ERR", "FLASH_ERR"} :
              sent' = Append(sent, st) => Pushes(up, up', Reported(st))
<1>1. /\ up \in Seq(BoardFrames) /\ ctrl' \in Records /\ sent \in Seq(Statuses)
      /\ EmitNew /\ DeviceStep /\ down' = down /\ host' = host
  BY DEF ToolInv, TypeInv, TypeOK, Run
<1>2. \A st \in {"OK", "BOOT_ERR", "FLASH_ERR"} : st \in Statuses \ {"META"} BY DEF Statuses
<1> QED BY <1>1, <1>2, NewAnswer

\* The boot decision after a reset sends at most one frame, the last thing it does.
LEMMA RunBooting ==
  ASSUME TypeInv, TypeInv', ToolInv, AgreeInv, RecordInv, FlashWorks, Booting, caller = "main", Run
  PROVE  \/ Booting' /\ caller' = "main" /\ up' = up
         \/ pc' = "poll" /\ up' = up
         \/ pc' = "poll" /\ Pushes(up, up', Reported("BOOT_ERR"))
         \/ pc' = "app" /\ Pushes(up, up', Reported("OK"))
<1>1. DeviceStep BY DEF Run
<1>2. pc \notin {"slotErase", "slotWrite", "app"}
      /\ (InMetaOp => job.call \in {"spendAttempt", "rejectPending", "rejectConfirmed"})
  BY DEF Booting, InMetaOp, MetaPlaces
<1>3. CASE DecidePending \/ DecideConfirmed
  BY <1>3, RunDecide, RunFallback, RunLine DEF Booting, InMetaOp, MetaPlaces
<1>4. CASE MetaErase \/ MetaWrite
  BY <1>2, <1>4, RunMeta, RunLine DEF Booting, InMetaOp, MetaPlaces
<1> QED BY <1>1, <1>2, <1>3, <1>4 DEF DeviceStep, SlotErase, SlotWrite, AppConfirm

\* The application sends nothing.
LEMMA RunStarted ==
  ASSUME TypeInv, TypeInv', ToolInv, AgreeInv, FlashWorks, Started, Run
  PROVE  Started' /\ up' = up
<1>1. DeviceStep BY DEF Run
<1>2. pc \notin {"slotErase", "slotWrite", "decide", "confirmed"} /\ (InMetaOp => job.call = "confirm")
  BY DEF Started, InApp, InMetaOp, MetaPlaces
<1>3. CASE AppConfirm BY <1>3, RunConfirm, RunLine DEF Started, InApp, InMetaOp, MetaPlaces
<1>4. CASE MetaErase \/ MetaWrite
  BY <1>2, <1>4, RunMeta, RunLine DEF Started, InApp, InMetaOp, MetaPlaces
<1> QED BY <1>1, <1>2, <1>3, <1>4 DEF DeviceStep, SlotErase, SlotWrite, DecidePending, DecideConfirmed
\* The slot holds the image bit for bit.
LEMMA ContentIsImage ==
  ASSUME host.build \in Builds, host.target \in Slots, Holds(Len(Image))
  PROVE  Content(flash, host.target, Len(Image)) = Image
<1> DEFINE image == host.build.image[host.target]
           n == Len(image)
<1>1. image \in Seq(Bytes) BY BuildAssumption
<1>2. Image = image BY DEF Image
<1> HIDE DEF image
<1>3. n \in Nat /\ image \in [1..n -> Bytes] BY <1>1
<1>4. \A i \in 1..n : flash[host.target][i] = image[i] BY <1>2 DEF Holds
<1>5. Content(flash, host.target, n) = [i \in 1..n |-> flash[host.target][i]] BY DEF Content
<1>6. image = [i \in 1..n |-> image[i]] BY <1>3
<1> HIDE DEF n
<1>7. [i \in 1..n |-> flash[host.target][i]] = [i \in 1..n |-> image[i]] BY <1>4
<1> QED BY <1>2, <1>5, <1>6, <1>7 DEF n

\* The image that has just been accepted is verified and gets an attempt.
LEMMA RunTrial ==
  ASSUME TypeInv, Installed, TrialReady(meta), DecidePending
  PROVE  pc' = "metaErase" /\ job'.call = "spendAttempt" /\ sent' = sent
<1>1. /\ Readable(meta) /\ meta.pending = host.target /\ host.target \in Slots
      /\ meta.slots[host.target].state = "PENDING" /\ meta.slots[host.target].attempts # 0
      /\ meta.slots[host.target].size = Len(Image) /\ meta.slots[host.target].crc = Crc32(Image)
      /\ Len(Image) # 0 /\ Crc32(Image) # ZeroCrc /\ Len(Image) <= SlotSize
  BY DEF TrialReady, Installed, Names, Holds
<1>2. Content(flash, host.target, Len(Image)) = Image BY ContentIsImage DEF Installed
<1>3. SlotOk(flash, meta, host.target) BY <1>1, <1>2 DEF SlotOk, ImageOk
<1>4. IsBootable(meta.slots[host.target]) BY <1>1 DEF IsBootable
<1>5. ctrl' = meta /\ ctrl'.pending # None /\ ctrl'.pending = host.target
  BY <1>1 DEF DecidePending, LoadOrDefault, Slots, None
<1>6. ~DecrementRejects(meta) BY <1>1, <1>5 DEF DecrementRejects, LoadOrDefault
<1> QED BY <1>1, <1>3, <1>4, <1>5, <1>6 DEF DecidePending, StartMetaWrite

-----------------------------------------------------------------------------
(* The steps of board and line keep SessionInv, one lemma for each thing the tool waits for *)

BoardMove == Poll \/ Run \/ Deaf \/ SwitchOn \/ ResetBoard \/ Garbled \/ Lost

LEMMA Vacuous ==
  /\ host'.step # "idle" => IdleInv'
  /\ host'.step \notin FirstSteps => FirstInv' /\ MetaInv'
  /\ host'.step # "meta" => MetaInv'
  /\ host'.step # "start" => StartInv'
  /\ host'.step # "header" => HeaderInv'
  /\ host'.step # "data" => DataInv'
  /\ host'.step # "end" => EndInv'
  /\ host'.step # "boot" => BootStepInv'
  BY DEF IdleInv, FirstInv, MetaInv, FirstSteps, StartInv, HeaderInv, DataInv, EndInv, BootStepInv

LEMMA SameBoard ==
  ASSUME BoardSame, host' = host
  PROVE  /\ Booting' = Booting /\ Started' = Started /\ InMetaOp' = InMetaOp
         /\ Installed' = Installed /\ RecordInv' = RecordInv
         /\ TrialReady(meta)' = TrialReady(meta)
         /\ LoadOrDefault(meta)' = LoadOrDefault(meta)
<1>1. InMetaOp' = InMetaOp /\ Image' = Image BY DEF BoardSame, InMetaOp, Image
<1> QED BY <1>1 DEF BoardSame, Booting, Started, InApp, Installed, Holds, Names, Readable,
                    RecordInv, Linked, LoadOrDefault, TrialReady

LEMMA SwitchOnEffect ==
  ASSUME SwitchOn
  PROVE  /\ pc = "off" /\ pc' \in {"decide", "poll"} /\ caller' = "main"
         /\ UNCHANGED <<meta, flash, job, trials, committed, down, up, host>>
  BY DEF SwitchOn, PowerOn, history, line

\* A reset comes between sessions, when nothing is on its way to the board.
LEMMA ResetEffect ==
  ASSUME ToolInv, Steady, ResetBoard
  PROVE  /\ host.step = "idle" /\ host' = host /\ up' = up
         /\ gap = 0 => Len(down) = 0 /\ down' = down
         /\ pc' = "off" /\ meta' \in {meta, Unreadable} /\ UNCHANGED <<trials, committed>>
         /\ pc \notin {"slotErase", "slotWrite"} => flash' = flash
<1>1. "reset" \notin Troubles BY DEF Steady
<1>2. host.step = "idle" /\ (down = <<>> \/ gap # 0) BY <1>1 DEF ResetBoard, Spend
<1> QED BY <1>2 DEF ResetBoard, Reset, PowerCut, Stopped, history, line

LEMMA IdleBoard ==
  ASSUME TypeInv, TypeInv', ToolInv, AgreeInv, SessionInv, Steady, FlashWorks,
         host.step = "idle", BoardMove
  PROVE  StepInv'
<1>0. Len(down) \in Nat /\ trials \in Nat BY DEF ToolInv, TypeInv, TypeOK
<1>1. /\ pc = "off" \/ Booting => Len(down) = 0
      /\ Booting => caller = "main"
      /\ Len(down) <= 1 /\ \A i \in 1..Len(down) : down[i] \in Simple
      /\ pc \in {"off", "poll"} \/ Booting \/ Started
      /\ host.result = "done" => Len(down) = 0 /\ Installed /\ trials > 0
  BY DEF SessionInv, StepInv, IdleInv
<1>2. RecordInv /\ gap = 0 BY DEF SessionInv
<1>3. SUFFICES host' = host /\ IdleInv' BY Vacuous DEF StepInv, FirstSteps
<1>4. /\ ~(Booting /\ pc \in {"off", "poll"}) /\ ~(Started /\ pc \in {"off", "poll"})
      /\ ~(Booting' /\ pc' \in {"off", "poll"}) /\ ~(Started' /\ pc' \in {"off", "poll"})
      /\ ~(Booting' /\ Started') /\ pc \notin {"slotErase", "slotWrite"}
  BY <1>1 DEF Booting, Started, InApp, InMetaOp, MetaPlaces
<1>5. ASSUME Len(down) = 1, Len(down') = 0, pc' = pc, host' = host,
             pc = "poll" \/ BoardSame
      PROVE  IdleInv'
  BY <1>0, <1>1, <1>4, <1>5, SameBoard DEF IdleInv, BoardSame
<1>6. CASE Poll
  <2>1. pc = "poll" /\ host' = host /\ Pops(down, down') BY PollFrame, <1>6
  <2>2. Len(down) = 1 /\ Len(down') = 0 BY <1>0, <1>1, <2>1 DEF Pops
  <2>3. pc' = pc BY <1>1, <1>6, <2>2, PollSimple
  <2> QED BY <1>5, <2>1, <2>2, <2>3
<1>7. CASE Garbled \/ Deaf
  <2>1. pc' = pc /\ host' = host /\ Pops(down, down') /\ BoardSame
    BY GarbledAnswer, DeafEffect, <1>7 DEF BoardSame
  <2>2. Len(down) = 1 /\ Len(down') = 0 BY <1>0, <1>1, <2>1 DEF Pops
  <2> QED BY <1>5, <2>1, <2>2
<1>8. CASE Lost
  <2>1. BoardSame /\ host' = host /\ (Pops(down, down') \/ down' = down) BY LostEffect, <1>8
  <2>2. CASE Pops(down, down')
    <3>1. Len(down) = 1 /\ Len(down') = 0 BY <1>0, <1>1, <2>2 DEF Pops
    <3> QED BY <1>5, <2>1, <3>1 DEF BoardSame
  <2>3. CASE down' = down BY <1>1, <2>1, <2>3, SameBoard DEF IdleInv, BoardSame
  <2> QED BY <2>1, <2>2, <2>3
<1>9. CASE SwitchOn
  <2>1. host.result = "done" => Installed'
    <3>1. ~InMetaOp' BY <1>9, SwitchOnEffect DEF InMetaOp, MetaPlaces
    <3> QED BY <1>1, <1>9, <3>1, SwitchOnEffect, InstalledDepends
  <2> QED BY <1>1, <1>4, <1>9, <2>1, SwitchOnEffect DEF IdleInv, Booting, InMetaOp, MetaPlaces
<1>10. CASE ResetBoard
  <2>1. host.result = "done" => Installed'
    <3>1. ~InMetaOp' BY <1>10, ResetEffect DEF InMetaOp, MetaPlaces
    <3> QED BY <1>1, <1>2, <1>4, <1>10, <3>1, ResetEffect, InstalledDepends
  <2> QED BY <1>1, <1>2, <1>4, <1>10, <2>1, ResetEffect DEF IdleInv
<1>11. CASE Run
  <2>1. DeviceStep /\ down' = down /\ host' = host BY <1>11, RunLine
  <2>2. Booting \/ Started
    BY <1>1, <2>1 DEF DeviceStep, DecidePending, DecideConfirmed, MetaErase, MetaWrite,
                      SlotErase, SlotWrite, AppConfirm
  <2>3. host.result = "done" => Installed' /\ trials' > 0
    BY <1>1, <1>2, <2>1, <2>2, RunInstalled
  <2>4. CASE Booting
    <3>1. (Booting' /\ caller' = "main") \/ pc' = "poll" \/ pc' = "app"
      BY <1>1, <1>2, <1>11, <2>4, RunBooting
    <3> QED BY <1>1, <1>4, <2>1, <2>3, <2>4, <3>1 DEF IdleInv, Started, InApp
  <2>5. CASE Started
    <3>1. Started' BY <1>11, <2>5, RunStarted
    <3> QED BY <1>1, <1>4, <2>1, <2>3, <3>1 DEF IdleInv
  <2> QED BY <2>1, <2>2, <2>4, <2>5
<1> QED BY <1>6, <1>7, <1>8, <1>9, <1>10, <1>11, PollFrame, GarbledAnswer, DeafEffect, LostEffect,
           SwitchOnEffect, ResetEffect, RunLine DEF BoardMove

LEMMA FirstBoard ==
  ASSUME TypeInv, TypeInv', ToolInv, AgreeInv, SessionInv, Steady, FlashWorks,
         host.step \in FirstSteps, BoardMove
  PROVE  StepInv'
<1>0. Len(down) \in Nat /\ Len(up) \in Nat BY DEF ToolInv
<1>1. /\ pc = "off" \/ Booting => Len(up) = 0 /\ Len(down) <= 1
      /\ Booting => caller = "main"
      /\ pc \in {"off", "poll"} \/ Booting \/ Started
      /\ Len(up) + Len(down) <= 2 /\ \A i \in 1..Len(down) : down[i] \in Simple
  BY DEF SessionInv, StepInv, FirstInv, Outstanding
<1>2. host.step = "meta" =>
        /\ host.off = 0
        /\ Len(down) # 0 => down[Len(down)] = Cmd("META")
        /\ Len(up) = 2 => ~IsOk(up[2])
        /\ \A i \in 1..Len(up) :
             up[i].type = "META" => pc = "poll" /\ up[i].record = LoadOrDefault(meta)
  BY DEF SessionInv, StepInv, MetaInv
<1>3. SUFFICES host' = host /\ FirstInv' /\ MetaInv'
  BY Vacuous DEF StepInv, SessionInv, FirstSteps
<1>4. /\ ~(Booting /\ pc \in {"off", "poll"}) /\ ~(Started /\ pc \in {"off", "poll"})
      /\ ~(Booting' /\ pc' \in {"off", "poll"}) /\ ~(Started' /\ pc' \in {"off", "poll"})
      /\ ~(Booting' /\ Started') /\ pc \notin {"slotErase", "slotWrite"}
  BY <1>1 DEF Booting, Started, InApp, InMetaOp, MetaPlaces
\* A frame that is answered
<1>5. ASSUME host' = host, pc = "poll", pc' = pc, LoadOrDefault(meta)' = LoadOrDefault(meta),
             Pops(down, down'), NEW x, Pushes(up, up', x),
             x.type = "META" => x.record = LoadOrDefault(meta), down[1] = Cmd("META") => ~IsOk(x)
      PROVE  FirstInv' /\ MetaInv'
  <2>1. /\ Len(down) # 0 /\ Len(down') = Len(down) - 1 /\ \A i \in 1..Len(down') : down'[i] = down[i + 1]
        /\ Len(up') = Len(up) + 1 /\ up'[Len(up) + 1] = x /\ \A i \in 1..Len(up) : up'[i] = up[i]
    BY <1>5 DEF Pops, Pushes
  <2>2. \A i \in 1..Len(down') : i + 1 \in 1..Len(down) BY <1>0, <2>1
  <2>3. \A i \in 1..Len(down') : down'[i] \in Simple BY <1>1, <2>1, <2>2
  <2>4. Len(up') + Len(down') <= 2 BY <1>0, <1>1, <2>1
  <2>5. FirstInv' BY <1>4, <1>5, <2>3, <2>4 DEF FirstInv, Outstanding
  <2>6. ASSUME host.step = "meta"
        PROVE  /\ Len(down') # 0 => down'[Len(down')] = Cmd("META")
               /\ Len(up') = 2 => ~IsOk(up'[2])
               /\ \A i \in 1..Len(up') :
                     up'[i].type = "META" => up'[i].record = LoadOrDefault(meta)
    <3>1. Len(down') # 0 => down'[Len(down')] = Cmd("META") BY <1>0, <1>2, <2>1, <2>6
    <3>2. ASSUME Len(up') = 2 PROVE ~IsOk(up'[2])
      <4> DEFINE m == Len(up)
                 n == Len(down)
      <4>0. m \in Nat /\ n \in Nat /\ m + n <= 2 /\ n # 0 /\ m + 1 = 2 BY <1>0, <1>1, <2>1, <3>2
      <4> HIDE DEF m, n
      <4>1. m = 1 /\ n = 1 BY <4>0
      <4> USE DEF m, n
      <4> QED BY <1>2, <1>5, <2>1, <2>6, <4>1
    <3>3. \A i \in 1..Len(up') : i \in 1..Len(up) \/ i = Len(up) + 1 BY <1>0, <2>1
    <3> QED BY <1>2, <1>5, <2>1, <2>6, <3>1, <3>2, <3>3
  <2> QED BY <1>2, <1>5, <2>5, <2>6 DEF MetaInv
<1>6. CASE Poll
  <2>1. pc = "poll" /\ host' = host /\ Pops(down, down') /\ meta' = meta BY PollFrame, <1>6
  <2>2. down[1] \in Simple BY <1>0, <1>1, <2>1 DEF Pops
  <2>3. LoadOrDefault(meta)' = LoadOrDefault(meta) BY <2>1 DEF LoadOrDefault, Readable
  <2> QED BY <1>5, <1>6, <2>1, <2>2, <2>3, PollSimple
<1>7. CASE Garbled
  <2>1. /\ pc = "poll" /\ host' = host /\ Pops(down, down') /\ BoardSame
        /\ \E x : Pushes(up, up', x) /\ x.type = "STATUS" /\ ~IsOk(x)
    BY <1>7, GarbledAnswer
  <2> QED BY <1>5, <2>1, SameBoard DEF BoardSame
<1>8. CASE Lost \/ Deaf
  <2>1. /\ BoardSame /\ host' = host
        /\ (Pops(down, down') /\ up' = up) \/ (Pops(up, up') /\ down' = down)
    BY <1>8, LostEffect, DeafEffect
  <2>2. pc' = pc /\ caller' = caller /\ Booting' = Booting /\ Started' = Started
        /\ LoadOrDefault(meta)' = LoadOrDefault(meta)
    BY <2>1, SameBoard DEF BoardSame
  <2>3. CASE Pops(down, down') /\ up' = up
    <3>1. Len(down) # 0 /\ Len(down') = Len(down) - 1 /\ \A i \in 1..Len(down') : down'[i] = down[i + 1]
      BY <2>3 DEF Pops
    <3>2. \A i \in 1..Len(down') : i + 1 \in 1..Len(down) BY <1>0, <3>1
    <3>3. \A i \in 1..Len(down') : down'[i] \in Simple BY <1>1, <3>1, <3>2
    <3>4. Len(up') + Len(down') <= 2 /\ Len(down') <= Len(down) BY <1>0, <1>1, <2>3, <3>1
    <3>5. FirstInv' BY <1>0, <1>1, <2>1, <2>2, <2>3, <3>1, <3>3, <3>4 DEF FirstInv, Outstanding
    <3>6. host.step = "meta" /\ Len(down') # 0 => down'[Len(down')] = Cmd("META")
      BY <1>0, <1>2, <3>1
    <3> QED BY <1>2, <2>1, <2>2, <2>3, <3>5, <3>6 DEF MetaInv
  <2>4. CASE Pops(up, up') /\ down' = down
    <3>1. Len(up) # 0 /\ Len(up') = Len(up) - 1 /\ \A i \in 1..Len(up') : up'[i] = up[i + 1]
      BY <2>4 DEF Pops
    <3>2. \A i \in 1..Len(up') : i + 1 \in 1..Len(up) BY <1>0, <3>1
    <3>3. Len(up') + Len(down') <= 2 /\ Len(up') # 2 /\ ~(pc = "off" \/ Booting) BY <1>0, <1>1, <2>4, <3>1
    <3>4. FirstInv' BY <1>1, <2>1, <2>2, <2>4, <3>3 DEF FirstInv, Outstanding
    <3>5. ASSUME host.step = "meta", NEW i \in 1..Len(up'), up'[i].type = "META"
          PROVE  pc = "poll" /\ up'[i].record = LoadOrDefault(meta)
      BY <1>2, <3>1, <3>2, <3>5
    <3> QED BY <1>2, <2>1, <2>2, <2>4, <3>3, <3>4, <3>5 DEF MetaInv
  <2> QED BY <2>1, <2>3, <2>4
<1>9. CASE SwitchOn
  <2>1. /\ pc = "off" /\ pc' \in {"decide", "poll"} /\ caller' = "main"
        /\ UNCHANGED <<meta, job, down, up, host>>
    BY <1>9, SwitchOnEffect
  <2>2. Len(up) = 0 /\ Len(down) <= 1 BY <1>1, <2>1
  <2>3. pc' = "decide" => Booting' BY DEF Booting
  <2>4. FirstInv' BY <1>1, <2>1, <2>2, <2>3 DEF FirstInv, Outstanding
  <2>5. MetaInv' BY <1>2, <2>1, <2>2 DEF MetaInv
  <2> QED BY <2>1, <2>4, <2>5
<1>10. ~ResetBoard BY ResetEffect DEF FirstSteps
<1>11. CASE Run
  <2>1. DeviceStep /\ down' = down /\ host' = host BY <1>11, RunLine
  <2>2. pc \notin {"off", "poll"}
    BY <2>1 DEF DeviceStep, DecidePending, DecideConfirmed, MetaErase, MetaWrite,
                SlotErase, SlotWrite, AppConfirm
  <2>3. CASE Booting
    <3>1. Len(up) = 0 /\ Len(down) <= 1 BY <1>1, <2>3
    <3>2. \/ Booting' /\ caller' = "main" /\ up' = up
          \/ pc' \in {"poll", "app"}
    BY <1>1, <1>11, <2>3, RunBooting DEF SessionInv
    <3>3. up' = up \/ Pushes(up, up', Reported("BOOT_ERR")) \/ Pushes(up, up', Reported("OK"))
      BY <1>1, <1>11, <2>3, RunBooting DEF SessionInv
    <3>4. Len(up') <= 1 /\ \A i \in 1..Len(up') : up'[i].type = "STATUS"
      <4>1. CASE up' = up BY <3>1, <4>1
      <4>2. ASSUME NEW st, Pushes(up, up', Reported(st)) PROVE Len(up') = 1 /\ up'[1].type = "STATUS"
        BY <3>1, <4>2 DEF Pushes, Reported
      <4>3. ASSUME Len(up') = 1 PROVE \A i \in 1..Len(up') : i = 1 BY <4>3
      <4> QED BY <3>3, <4>1, <4>2, <4>3
    <3>5. Len(up') \in Nat BY <1>0, <3>3 DEF Pushes
    <3>6. pc' = "app" => Started' BY DEF Started, InApp
    <3>7. FirstInv' BY <1>0, <1>1, <1>4, <2>1, <3>1, <3>2, <3>4, <3>5, <3>6 DEF FirstInv, Outstanding
    <3>8. MetaInv' BY <1>2, <2>1, <3>4, <3>5 DEF MetaInv
    <3> QED BY <2>1, <3>7, <3>8
  <2>4. CASE Started
    <3>1. Started' /\ up' = up BY <1>11, <2>4, RunStarted
    <3>2. FirstInv' BY <1>1, <1>4, <2>1, <3>1 DEF FirstInv, Outstanding
    <3>3. MetaInv' BY <1>2, <2>1, <2>2, <3>1 DEF MetaInv
    <3> QED BY <2>1, <3>2, <3>3
  <2> QED BY <1>1, <2>2, <2>3, <2>4
<1> QED BY <1>6, <1>7, <1>8, <1>9, <1>10, <1>11 DEF BoardMove

\* While the tool waits for START the board polls.
LEMMA Polling ==
  ASSUME ToolInv, Steady, pc = "poll", host.step # "idle", BoardMove
  PROVE  Poll \/ Garbled \/ Lost
<1>1. ~SwitchOn /\ ~ResetBoard BY SwitchOnEffect, ResetEffect
<1>2. ~Deaf BY DeafEffect DEF InApp
<1>3. ~Run
  BY DEF Run, DeviceStep, DecidePending, DecideConfirmed, MetaErase, MetaWrite, SlotErase, SlotWrite,
         AppConfirm
<1> QED BY <1>1, <1>2, <1>3 DEF BoardMove

LEMMA SameTarget == \A c : ChooseTarget(c) = HostTarget(c)
  BY DEF ChooseTarget, HostTarget

LEMMA StartBoard ==
  ASSUME TypeInv, TypeInv', ToolInv, SessionInv, Steady, host.step = "start", BoardMove
  PROVE  StepInv'
<1> DEFINE m == Len(up)
           n == Len(down)
<1>0. m \in Nat /\ n \in Nat BY DEF ToolInv
<1>1. /\ pc = "poll" /\ HostTarget(LoadOrDefault(meta)) = host.target /\ host.off = 0
      /\ n = 1 => down[1] = Cmd("START")
      /\ n = 2 => down[1] = Cmd("META") /\ down[2] = Cmd("START")
      /\ m + n <= 2
      /\ n # 0 => \A i \in 1..m : ~IsOk(up[i])
      /\ m = 2 => ~IsOk(up[1])
      /\ (\E i \in 1..m : IsOk(up[i])) => state = "WAIT_HEADER" /\ target = host.target
  BY DEF SessionInv, StepInv, StartInv, Outstanding
<1>2. SUFFICES host' = host /\ StartInv'
  BY Vacuous DEF StepInv, SessionInv, FirstSteps
<1>3. Cmd("META") # Cmd("START")
  <2>1. \A c : Cmd(c).cmd = c BY DEF Cmd
  <2> QED BY <2>1
<1>4. Poll \/ Garbled \/ Lost BY <1>1, Polling
<1>5. ASSUME Pops(down, down')
      PROVE  /\ n \in {1, 2} /\ Len(down') = n - 1 /\ \A i \in 1..Len(down') : down'[i] = down[i + 1]
             /\ m + Len(down') <= 1
             /\ Len(down') \in {0, 1} /\ (Len(down') = 1 => down'[1] = Cmd("START"))
  <2>1. n # 0 /\ Len(down') = n - 1 /\ \A i \in 1..Len(down') : down'[i] = down[i + 1]
    BY <1>5 DEF Pops
  <2> HIDE DEF m, n
  <2>2. n \in {1, 2} /\ m + Len(down') <= 1 /\ Len(down') \in {0, 1} BY <1>0, <1>1, <2>1
  <2>3. ASSUME Len(down') = 1 PROVE down'[1] = Cmd("START")
    <3>1. n = 2 /\ 1 \in 1..Len(down') /\ 1 + 1 = 2 BY <1>0, <2>1, <2>2, <2>3
    <3> QED BY <1>1, <2>1, <3>1
  <2> QED BY <2>1, <2>2, <2>3
\* A frame that is answered
<1>6. ASSUME host' = host, pc' = pc, LoadOrDefault(meta)' = LoadOrDefault(meta),
             Pops(down, down'), NEW x, Pushes(up, up', x),
             IsOk(x) => n = 1 /\ state' = "WAIT_HEADER" /\ target' = host.target
      PROVE  StartInv'
  <2>1. Len(up') = m + 1 /\ up'[m + 1] = x /\ \A i \in 1..m : up'[i] = up[i] BY <1>6 DEF Pushes
  <2>2. \A i \in 1..m : ~IsOk(up'[i]) BY <1>1, <1>5, <1>6, <2>1
  <2> HIDE DEF m, n
  <2>3. \A i \in 1..Len(up') : i \in 1..m \/ i = m + 1 BY <1>0, <2>1
  <2>4. \A i \in 1..Len(up') : IsOk(up'[i]) => IsOk(x) BY <2>1, <2>2, <2>3
  <2>5. Len(up') + Len(down') <= 2 BY <1>0, <1>5, <1>6, <2>1
  <2>6. ASSUME Len(up') = 2 PROVE ~IsOk(up'[1])
    <3>1. 1 \in 1..m BY <1>0, <2>1, <2>6
    <3> QED BY <2>2, <3>1
  <2>7. Len(down') # 0 => n = 2 BY <1>5, <1>6
  <2> QED BY <1>1, <1>5, <1>6, <2>4, <2>5, <2>6, <2>7 DEF StartInv, Outstanding
<1>7. CASE Poll
  <2>1. host' = host /\ Pops(down, down') /\ meta' = meta BY PollFrame, <1>7
  <2>2. down[1] = IF n = 1 THEN Cmd("START") ELSE Cmd("META") BY <1>1, <1>5, <2>1
  <2>3. down[1] \in Simple BY <2>2 DEF Simple
  <2>4. LoadOrDefault(meta)' = LoadOrDefault(meta) BY <2>1 DEF LoadOrDefault, Readable
  <2>5. PICK x : /\ Pushes(up, up', x) /\ pc' = pc
                 /\ down[1] = Cmd("META") => ~IsOk(x)
                 /\ down[1] = Cmd("START") /\ IsOk(x) =>
                      state' = "WAIT_HEADER" /\ target' = ChooseTarget(LoadOrDefault(meta))
    BY <1>7, <2>3, PollSimple
  <2>6. IsOk(x) => n = 1 /\ state' = "WAIT_HEADER" /\ target' = host.target
    BY <1>1, <2>2, <2>5, SameTarget
  <2> QED BY <1>6, <2>1, <2>4, <2>5, <2>6
<1>8. CASE Garbled
  <2>1. /\ host' = host /\ Pops(down, down') /\ BoardSame
        /\ \E x : Pushes(up, up', x) /\ x.type = "STATUS" /\ ~IsOk(x)
    BY <1>8, GarbledAnswer
  <2> QED BY <1>6, <2>1, SameBoard DEF BoardSame
<1>9. CASE Lost
  <2>1. /\ BoardSame /\ host' = host
        /\ (Pops(down, down') /\ up' = up) \/ (Pops(up, up') /\ down' = down)
    BY <1>9, LostEffect
  <2>2. pc' = pc /\ state' = state /\ target' = target /\ LoadOrDefault(meta)' = LoadOrDefault(meta)
    BY <2>1, SameBoard DEF BoardSame
  <2>3. CASE Pops(down, down') /\ up' = up
    <3>1. \A i \in 1..m : ~IsOk(up[i]) BY <1>1, <1>5, <2>3
    <3> QED BY <1>0, <1>1, <1>5, <2>1, <2>2, <2>3, <3>1 DEF StartInv, Outstanding
  <2>4. CASE Pops(up, up') /\ down' = down
    <3>1. m # 0 /\ Len(up') = m - 1 /\ \A i \in 1..Len(up') : up'[i] = up[i + 1]
      BY <2>4 DEF Pops
    <3> HIDE DEF m
    <3>2. \A i \in 1..Len(up') : i + 1 \in 1..m BY <1>0, <3>1
    <3>3. \A i \in 1..Len(up') : IsOk(up'[i]) => IsOk(up[i + 1]) /\ i + 1 \in 1..m BY <3>1, <3>2
    <3> HIDE DEF n
    <3>4. Len(up') + n <= 2 /\ Len(up') # 2 BY <1>0, <1>1, <3>1
    <3>5. (\E i \in 1..Len(up') : IsOk(up'[i])) => \E i \in 1..m : IsOk(up[i]) BY <3>3
    <3>6. Len(down') = n BY <2>4 DEF n
    <3> QED BY <1>1, <2>1, <2>2, <2>4, <3>3, <3>4, <3>5, <3>6 DEF StartInv, Outstanding
  <2> QED BY <2>1, <2>3, <2>4
<1> QED BY <1>4, <1>7, <1>8, <1>9, PollFrame, GarbledAnswer, LostEffect

\* With one frame on the line, taking it empties the line and answering it leaves the answer.
LEMMA OneFrame ==
  ASSUME ToolInv, Outstanding <= 1
  PROVE  /\ Len(up) \in {0, 1} /\ Len(down) \in {0, 1} /\ (Len(up) # 0 => Len(down) = 0)
         /\ Pops(down, down') => Len(down) = 1 /\ Len(up) = 0 /\ Len(down') = 0
         /\ Pops(up, up') => Len(down) = 0 /\ Len(up) = 1 /\ Len(up') = 0
<1> DEFINE m == Len(up)
           n == Len(down)
<1>1. m \in Nat /\ n \in Nat BY DEF ToolInv
<1>2. m + n <= 1 BY DEF Outstanding
<1>3. Pops(down, down') => n # 0 /\ Len(down') = n - 1 BY DEF Pops
<1>4. Pops(up, up') => m # 0 /\ Len(up') = m - 1 BY DEF Pops
<1> HIDE DEF m, n
<1>5. m \in {0, 1} /\ n \in {0, 1} /\ (m # 0 => n = 0) BY <1>1, <1>2
<1>6. Pops(down, down') => n = 1 /\ m = 0 /\ Len(down') = 0 BY <1>3, <1>5
<1>7. Pops(up, up') => n = 0 /\ m = 1 /\ Len(up') = 0 BY <1>4, <1>5
<1> QED BY <1>5, <1>6, <1>7 DEF m, n

LEMMA OneReply ==
  ASSUME NEW x, Pushes(up, up', x), Len(up) = 0
  PROVE  Len(up') = 1 /\ up'[1] = x
  BY DEF Pushes

\* The board refuses a frame, whichever it is.
Refusals == Statuses \ {"OK", "META"}
Refuses == pc' = pc /\ \E st \in Refusals : Pushes(up, up', Reported(st))

LEMMA RefusalIsNotOk == \A st \in Refusals : ~IsOk(Reported(st))
  BY DEF Refusals, IsOk, Reported

LEMMA RefusedFrame ==
  ASSUME TypeInv, TypeInv', ToolInv, Poll, NEW st \in Refusals, ReplyFirst(st), pc' = pc
  PROVE  Refuses
<1>1. st \in Statuses /\ st # "META" BY DEF Refusals
<1>2. sent' = <<st>> BY DEF ReplyFirst
<1>3. Packet(st) = Reported(st) BY <1>1 DEF Packet, Reported
<1> QED BY <1>1, <1>2, <1>3, PollFrame DEF Refuses

LEMMA RefusalKinds ==
  {"BAD_FRAME", "BAD_CRC", "BAD_STATE", "SEQ_ERR", "TOO_LARGE", "FLASH_ERR"} \subseteq Refusals
  BY DEF Refusals, Statuses

LEMMA PollHeader ==
  ASSUME TypeInv, TypeInv', ToolInv, Poll, NEW h, down[1] = HeaderFrame(h)
  PROVE  \/ Refuses
         \/ pc' = "slotErase" /\ job' = h /\ target' = target /\ up' = up
<1>1. Header(h) /\ pc = "poll"
  <2>1. down[1].type = "HEADER" /\ down[1].header = h BY DEF HeaderFrame
  <2> QED BY <2>1, PollFrame DEF Handle
<1>2. CASE \E st \in {"BAD_STATE", "TOO_LARGE"} : ReplyFirst(st) /\ pc' = pc
  BY <1>2, RefusedFrame, RefusalKinds
<1>3. CASE pc' = "slotErase" /\ job' = h /\ sent' = <<>> /\ UNCHANGED ram
  BY <1>3, PollFrame DEF ram
<1> QED BY <1>1, <1>2, <1>3 DEF Header, Refused

LEMMA PollData ==
  ASSUME TypeInv, TypeInv', ToolInv, Poll, down[1].type = "DATA"
  PROVE  \/ Refuses
         \/ /\ pc' = "slotWrite" /\ job'.data = down[1].data /\ up' = up
            /\ UNCHANGED <<flash, target, session>>
<1> DEFINE d == down[1].data
<1>1. PICK seq : Data(seq, d) BY PollFrame DEF Handle
<1> HIDE DEF d
<1>2. CASE \E st \in {"BAD_STATE", "SEQ_ERR", "BAD_FRAME", "FLASH_ERR"} : ReplyFirst(st) /\ pc' = pc
  BY <1>2, RefusedFrame, RefusalKinds
<1>3. CASE pc' = "slotWrite" /\ job' = [data |-> d] /\ sent' = <<>> /\ UNCHANGED <<flash, ram>>
  BY <1>3, PollFrame DEF ram, d
<1> QED BY <1>1, <1>2, <1>3 DEF Data, Refused, DataFails

LEMMA PollEnd ==
  ASSUME TypeInv, TypeInv', ToolInv, Poll, down[1] = Cmd("END")
  PROVE  \/ Refuses
         \/ /\ pc' = "metaErase" /\ job'.call = "setPending" /\ up' = up
            /\ job'.record = SetPending(meta, target, session.version, session.size, session.crc,
                                        MaxAttempts)
            /\ session.size # 0 /\ session.crc # ZeroCrc /\ target \in Slots
            /\ UNCHANGED <<meta, flash, target, session>>
<1>1. CmdEnd \/ CmdBadState BY PollCmd, PollFrame
<1>2. CASE \E st \in {"BAD_STATE", "BAD_CRC", "BAD_FRAME", "FLASH_ERR"} : ReplyFirst(st) /\ pc' = pc
  BY <1>2, RefusedFrame, RefusalKinds
<1>3. CASE /\ CmdEnd /\ ~SetPendingRejects(session.version, session.size, session.crc, MaxAttempts)
           /\ StartMetaWrite(SetPending(meta, target, session.version, session.size, session.crc,
                                        MaxAttempts), "setPending")
           /\ sent' = <<>> /\ UNCHANGED <<meta, flash, ram, running, history>>
  <2>1. target \in Slots BY <1>3 DEF CmdEnd, TypeInv, JobInv
  <2> QED BY <1>3, <2>1, PollFrame DEF ram, StartMetaWrite, SetPendingRejects
<1> QED BY <1>1, <1>2, <1>3 DEF CmdEnd, CmdBadState, EndFails, Refused

LEMMA PollBoot ==
  ASSUME TypeInv, TypeInv', ToolInv, Poll, down[1] = Cmd("BOOT")
  PROVE  \/ Refuses /\ UNCHANGED <<meta, flash, job>>
         \/ pc' = "decide" /\ up' = up /\ UNCHANGED <<meta, flash, job>>
<1>1. CmdBoot \/ CmdBadState BY PollCmd, PollFrame
<1>2. CASE CmdBadState
  <2>1. ReplyFirst("BAD_STATE") /\ pc' = pc /\ UNCHANGED <<meta, flash, job>>
    BY <1>2 DEF CmdBadState, Refused
  <2> QED BY <2>1, RefusedFrame, RefusalKinds
<1>3. CASE CmdBoot BY <1>3, PollFrame DEF CmdBoot
<1> QED BY <1>1, <1>2, <1>3

\* A line with one frame that is not an OK, and a polling board, promise nothing.
LEMMA NothingPromised ==
  ASSUME host' = host, pc' = "poll", Len(down') = 0,
         Len(up') = 0 \/ (Len(up') = 1 /\ ~IsOk(up'[1]))
  PROVE  /\ host.step = "header" /\ host.off = 0 => HeaderInv'
         /\ host.step = "data" /\ host.off <= Len(Image) => DataInv'
         /\ host.step = "end" => EndInv'
         /\ host.step = "boot" => BootStepInv'
<1>1. Outstanding' <= 1 BY DEF Outstanding
<1>2. Len(Image)' = Len(Image) /\ ~InMetaOp' /\ ~Started' BY DEF Image, InMetaOp, MetaPlaces, Started, InApp
<1> QED BY <1>1, <1>2 DEF HeaderInv, DataInv, EndInv, BootStepInv

LEMMA RefusedPromise ==
  ASSUME ToolInv, Outstanding <= 1, pc = "poll", host' = host, Pops(down, down'), Refuses
  PROVE  Len(down') = 0 /\ pc' = "poll" /\ Len(up') = 1 /\ ~IsOk(up'[1])
<1>1. PICK st \in Refusals : Pushes(up, up', Reported(st)) BY DEF Refuses
<1>2. Len(up') = 1 /\ up'[1] = Reported(st) BY <1>1, OneFrame, OneReply
<1> QED BY <1>2, OneFrame, RefusalIsNotOk DEF Refuses

\* What the board knows of the image depends on the slot and the session only.
LEMMA ReceivedDepends ==
  ASSUME host' = host, UNCHANGED <<flash, target, session>>
  PROVE  /\ \A n : Received(n)' = Received(n)
         /\ \A d : Coming(d)' = Coming(d)
         /\ Image' = Image
<1>1. Image' = Image BY DEF Image
<1> QED BY <1>1 DEF Received, Holds, Coming

LEMMA HeaderBoard ==
  ASSUME TypeInv, TypeInv', ToolInv, SessionInv, Steady, FlashWorks, host.step = "header", BoardMove
  PROVE  StepInv'
<1>1. /\ Outstanding <= 1 /\ host.off = 0 /\ pc \in {"poll", "slotErase"}
      /\ Len(down) # 0 => /\ down[1] = HeaderFrame(ImageHeader) /\ pc = "poll"
                          /\ state = "WAIT_HEADER" /\ target = host.target
      /\ pc = "slotErase" => Outstanding = 0 /\ job = ImageHeader /\ target = host.target
      /\ Len(up) # 0 /\ IsOk(up[1]) => Received(0)
  BY DEF SessionInv, StepInv, HeaderInv
<1>2. SUFFICES host' = host /\ HeaderInv'
  BY Vacuous DEF StepInv, SessionInv, FirstSteps
<1>3. CASE Poll
  <2>1. host' = host /\ Pops(down, down') /\ pc = "poll" BY PollFrame, <1>3
  <2>2. Len(down) = 1 /\ Len(up) = 0 /\ Len(down') = 0 BY <1>1, <2>1, OneFrame
  <2>3. CASE Refuses BY <1>1, <2>1, <2>3, RefusedPromise, NothingPromised
  <2>4. CASE pc' = "slotErase" /\ job' = ImageHeader /\ target' = target /\ up' = up
    <3>1. ImageHeader' = ImageHeader BY <2>1 DEF ImageHeader, Image
    <3> QED BY <1>1, <2>1, <2>2, <2>4, <3>1 DEF HeaderInv, Outstanding
  <2> QED BY <1>1, <1>3, <2>2, <2>3, <2>4, PollHeader
<1>4. CASE Garbled
  <2>1. /\ pc = "poll" /\ host' = host /\ Pops(down, down') /\ BoardSame
        /\ \E x : Pushes(up, up', x) /\ x.type = "STATUS" /\ ~IsOk(x)
    BY <1>4, GarbledAnswer
  <2>2. Len(down') = 0 /\ Len(up') = 1 /\ ~IsOk(up'[1]) BY <1>1, <2>1, OneFrame, OneReply
  <2> QED BY <1>1, <2>1, <2>2, NothingPromised DEF BoardSame
<1>5. CASE Lost
  <2>1. /\ BoardSame /\ host' = host
        /\ (Pops(down, down') /\ up' = up) \/ (Pops(up, up') /\ down' = down)
    BY <1>5, LostEffect
  <2>2. Len(up') = 0 /\ Len(down') = 0 /\ Outstanding # 0
    BY <1>1, <2>1, OneFrame DEF Outstanding
  <2> QED BY <1>1, <2>1, <2>2, NothingPromised DEF BoardSame
<1>6. CASE Run
  <2>1. DeviceStep /\ down' = down /\ host' = host BY <1>6, RunLine
  <2>2. SlotErase /\ pc = "slotErase"
    BY <1>1, <2>1 DEF DeviceStep, DecidePending, DecideConfirmed, MetaErase, MetaWrite, SlotErase,
                      SlotWrite, AppConfirm
  <2>3. Len(up) = 0 /\ Len(down) = 0 /\ job = ImageHeader /\ target = host.target
    BY <1>1, <2>2, OneFrame DEF Outstanding
  <2>4. /\ pc' = "poll" /\ target' = target /\ sent' = Append(sent, "OK")
        /\ session' = [seq |-> 0, received |-> 0, size |-> job.size, crc |-> job.crc,
                       version |-> job.version]
    BY <2>2 DEF SlotErase, FlashWorks, Reply
  <2>5. Len(up') = 1 BY <1>6, <2>3, <2>4, RunLine, OneReply
  <2>6. Image' = Image /\ Len(Image) \in Nat
    <3>1. Len(Image) \in Nat BY FramesOfBuild DEF ToolInv
    <3> QED BY <2>1, <3>1 DEF Image
  <2>7. Received(0)'
    <3>1. Holds(0)' BY SizeAssumption DEF Holds
    <3> QED BY <2>1, <2>3, <2>4, <2>6, <3>1 DEF Received, ImageHeader
  <2> QED BY <1>1, <2>1, <2>3, <2>4, <2>5, <2>7 DEF HeaderInv, Outstanding
<1>7. ~Deaf /\ ~SwitchOn /\ ~ResetBoard BY <1>1, DeafEffect, SwitchOnEffect, ResetEffect DEF InApp
<1> QED BY <1>3, <1>4, <1>5, <1>6, <1>7 DEF BoardMove

LEMMA DataBoard ==
  ASSUME TypeInv, TypeInv', ToolInv, SessionInv, Steady, FlashWorks, host.step = "data", BoardMove
  PROVE  StepInv'
<1>1. /\ Outstanding <= 1 /\ host.off <= Len(Image) /\ pc \in {"poll", "slotWrite"}
      /\ Len(down) # 0 => down[1].type = "DATA" /\ pc = "poll" /\ Coming(down[1].data)
      /\ pc = "slotWrite" => Outstanding = 0 /\ Coming(job.data)
      /\ Len(up) # 0 /\ IsOk(up[1]) => Received(host.off)
  BY DEF SessionInv, StepInv, DataInv
<1>2. SUFFICES host' = host /\ DataInv'
  BY Vacuous DEF StepInv, SessionInv, FirstSteps
<1>3. CASE Poll
  <2>1. host' = host /\ Pops(down, down') /\ pc = "poll" BY PollFrame, <1>3
  <2>2. Len(down) = 1 /\ Len(up) = 0 /\ Len(down') = 0 BY <1>1, <2>1, OneFrame
  <2>3. CASE Refuses BY <1>1, <2>1, <2>3, RefusedPromise, NothingPromised
  <2>4. CASE /\ pc' = "slotWrite" /\ job'.data = down[1].data /\ up' = up
             /\ UNCHANGED <<flash, target, session>>
    <3>1. Coming(job.data)'
      <4>1. Coming(down[1].data) BY <1>1, <2>2
      <4>2. Image' = Image BY <2>1 DEF Image
      <4> QED BY <2>1, <2>4, <4>1, <4>2 DEF Coming, Received, Holds
    <3>2. Len(Image)' = Len(Image) BY <2>1 DEF Image
    <3> QED BY <1>1, <2>1, <2>2, <2>4, <3>1, <3>2 DEF DataInv, Outstanding
  <2> QED BY <1>1, <1>3, <2>2, <2>3, <2>4, PollData
<1>4. CASE Garbled
  <2>1. /\ pc = "poll" /\ host' = host /\ Pops(down, down') /\ BoardSame
        /\ \E x : Pushes(up, up', x) /\ x.type = "STATUS" /\ ~IsOk(x)
    BY <1>4, GarbledAnswer
  <2>2. Len(down') = 0 /\ Len(up') = 1 /\ ~IsOk(up'[1]) BY <1>1, <2>1, OneFrame, OneReply
  <2> QED BY <1>1, <2>1, <2>2, NothingPromised DEF BoardSame
<1>5. CASE Lost
  <2>1. /\ BoardSame /\ host' = host
        /\ (Pops(down, down') /\ up' = up) \/ (Pops(up, up') /\ down' = down)
    BY <1>5, LostEffect
  <2>2. Len(up') = 0 /\ Len(down') = 0 /\ Outstanding # 0
    BY <1>1, <2>1, OneFrame DEF Outstanding
  <2> QED BY <1>1, <2>1, <2>2, NothingPromised DEF BoardSame
<1>6. CASE Run
  <2>1. DeviceStep /\ down' = down /\ host' = host BY <1>6, RunLine
  <2>2. SlotWrite /\ pc = "slotWrite"
    BY <1>1, <2>1 DEF DeviceStep, DecidePending, DecideConfirmed, MetaErase, MetaWrite, SlotErase,
                      SlotWrite, AppConfirm
  <2>3. Len(up) = 0 /\ Len(down) = 0 /\ Coming(job.data)
    BY <1>1, <2>2, OneFrame DEF Outstanding
  <2> DEFINE d == job.data
             off == session.received
  <2>4. pc' = "poll" /\ target' = target BY <2>2 DEF SlotWrite
  <2>5. CASE sent' = Append(sent, "FLASH_ERR")
    <3>1. Len(up') = 1 /\ up'[1] = Reported("FLASH_ERR") BY <1>6, <2>3, <2>5, RunLine, OneReply
    <3> QED BY <1>1, <2>1, <2>3, <2>4, <3>1, NothingPromised, RefusalIsNotOk, RefusalKinds
  <2>6. CASE /\ sent' = Append(sent, "OK") /\ flash' = Written(flash, target, off, d)
             /\ session' = [session EXCEPT !.received = @ + Len(d), !.seq = @ + 1]
    <3>1. Len(up') = 1 BY <1>6, <2>3, <2>6, RunLine, OneReply
    <3>2. Received(host.off)'
      <4> DEFINE l == Len(d)
                 h == host.off
      <4>1. l \in Nat /\ off \in Nat /\ h \in Nat /\ off + l <= session.size /\ session.size <= SlotSize
        BY <2>2 DEF TypeInv, TypeOK, JobInv, DataJobs, Sessions, TooMuch, ToolInv
      <4>2. /\ l <= h /\ off = h - l /\ Received(off) /\ \A i \in 1..l : d[i] = Image[(h - l) + i]
        BY <2>3 DEF Coming, Received
      <4>3. /\ target = host.target /\ session.version = host.build.version
            /\ session.size = Len(Image) /\ session.crc = Crc32(Image)
            /\ \A i \in 1..off : flash[host.target][i] = Image[i]
        BY <4>2 DEF Received, Holds
      <4>4. Image' = Image /\ host.target \in Slots BY <2>1 DEF Image, ToolInv
      <4>5. /\ session'.received = off + l /\ session'.version = session.version
            /\ session'.size = session.size /\ session'.crc = session.crc
        BY <2>6 DEF TypeInv, TypeOK, Sessions
      <4> HIDE DEF l, h, d, off
      <4>6. off + l = h /\ h <= SlotSize
        <5>1. off = h - l /\ off + l <= session.size /\ session.size <= SlotSize BY <4>1, <4>2
        <5>2. session.size \in Nat BY SizeAssumption DEF TypeInv, TypeOK, Sessions
        <5>3. off + l = h BY ONLY <4>1, <5>1
        <5> QED BY ONLY <4>1, <5>1, <5>2, <5>3, SizeAssumption
      <4>7. ASSUME NEW i \in 1..h PROVE flash'[host.target][i] = Image[i]
        <5>1. i \in 1..SlotSize /\ SlotSize \in Nat BY <4>1, <4>6, <4>7, SizeAssumption
        <5>2. flash'[host.target][i] = IF i > off /\ i <= off + l THEN d[i - off] ELSE flash[host.target][i]
          <6>1. flash \in [Slots -> [1..SlotSize -> Cell]] BY DEF TypeInv, TypeOK
          <6> QED BY <2>6, <4>3, <4>4, <5>1, <6>1 DEF Written, l, d, off
        <5>3. CASE i <= off BY <4>1, <4>3, <4>7, <5>2, <5>3
        <5>4. CASE i > off
          <6>1. i - off \in 1..l /\ (h - l) + (i - off) = i BY <4>1, <4>2, <4>6, <4>7, <5>4
          <6> QED BY <4>2, <4>6, <5>2, <5>4, <6>1, <4>7
        <5> QED BY <4>1, <5>3, <5>4
      <4>8. Holds(h)' BY <2>1, <4>4, <4>6, <4>7 DEF Holds, h
      <4> QED BY <1>1, <2>1, <2>4, <4>3, <4>4, <4>5, <4>6, <4>8 DEF Received, h
    <3>3. Len(Image)' = Len(Image) BY <2>1 DEF Image
    <3> QED BY <1>1, <2>1, <2>3, <2>4, <3>1, <3>2, <3>3 DEF DataInv, Outstanding
  <2> QED BY <2>2, <2>5, <2>6 DEF SlotWrite, Reply
<1>7. ~Deaf /\ ~SwitchOn /\ ~ResetBoard BY <1>1, DeafEffect, SwitchOnEffect, ResetEffect DEF InApp
<1> QED BY <1>3, <1>4, <1>5, <1>6, <1>7 DEF BoardMove

LEMMA EndBoard ==
  ASSUME TypeInv, TypeInv', ToolInv, SessionInv, Steady, FlashWorks, host.step = "end", BoardMove
  PROVE  StepInv'
<1>1. /\ Outstanding <= 1 /\ (pc = "poll" \/ InMetaOp)
      /\ Len(down) # 0 => down[1] = Cmd("END") /\ pc = "poll" /\ Received(Len(Image))
      /\ InMetaOp => /\ Outstanding = 0 /\ job.call = "setPending"
                     /\ Received(Len(Image)) /\ Len(Image) # 0 /\ Crc32(Image) # ZeroCrc
                     /\ Names(job.record) /\ TrialReady(job.record)
  BY DEF SessionInv, StepInv, EndInv
<1>2. SUFFICES host' = host /\ EndInv'
  BY Vacuous DEF StepInv, SessionInv, FirstSteps
<1>3. host.build \in Builds /\ host.target \in Slots BY DEF ToolInv
<1>4. CASE Poll
  <2>1. host' = host /\ Pops(down, down') /\ pc = "poll" BY PollFrame, <1>4
  <2>2. Len(down) = 1 /\ Len(up) = 0 /\ Len(down') = 0 BY <1>1, <2>1, OneFrame
  <2>3. CASE Refuses BY <1>1, <2>1, <2>3, RefusedPromise, NothingPromised
  <2>4. CASE /\ pc' = "metaErase" /\ job'.call = "setPending" /\ up' = up
             /\ job'.record = SetPending(meta, target, session.version, session.size, session.crc,
                                         MaxAttempts)
             /\ session.size # 0 /\ session.crc # ZeroCrc
             /\ UNCHANGED <<flash, target, session>>
    <3> DEFINE r == job'.record
    <3>1. Received(Len(Image)) /\ Image' = Image BY <1>1, <2>1, <2>2 DEF Image
    <3>2. /\ target = host.target /\ session.version = host.build.version
          /\ session.size = Len(Image) /\ session.crc = Crc32(Image)
      BY <3>1 DEF Received
    <3>3. Received(Len(Image))' BY <2>1, <2>4, <3>1 DEF Received, Holds
    <3>4. /\ r.pending = host.target
          /\ r.slots[host.target] = [version |-> host.build.version, size |-> Len(Image),
                                     crc |-> Crc32(Image), state |-> "PENDING",
                                     attempts |-> MaxAttempts]
      <4>1. LoadOrDefault(meta).slots \in [Slots -> SlotInfo]
        BY LoadRecord DEF TypeInv, TypeOK, Records
      <4> QED BY <1>3, <2>4, <3>2, <4>1 DEF SetPending
    <3>5. Readable(r)
      BY <2>4, UnreadableAssumption DEF TypeInv, TypeOK, MetaJobs, Readable
    <3> HIDE DEF r
    <3>6. Names(r) /\ TrialReady(r) BY <3>4, <3>5, MetaAssumption DEF Names, TrialReady
    <3>7. Names(job.record)' /\ TrialReady(job.record)'
      BY <2>1, <3>1, <3>6 DEF Names, TrialReady, Readable, r
    <3>8. InMetaOp' BY <2>4 DEF InMetaOp, MetaPlaces
    <3> QED BY <2>1, <2>2, <2>4, <3>1, <3>2, <3>3, <3>7, <3>8 DEF EndInv, Outstanding
  <2> QED BY <1>1, <1>4, <2>2, <2>3, <2>4, PollEnd
<1>5. CASE Garbled
  <2>1. /\ pc = "poll" /\ host' = host /\ Pops(down, down') /\ BoardSame
        /\ \E x : Pushes(up, up', x) /\ x.type = "STATUS" /\ ~IsOk(x)
    BY <1>5, GarbledAnswer
  <2>2. Len(down') = 0 /\ Len(up') = 1 /\ ~IsOk(up'[1]) BY <1>1, <2>1, OneFrame, OneReply
  <2> QED BY <1>1, <2>1, <2>2, NothingPromised DEF BoardSame
<1>6. CASE Lost
  <2>1. /\ BoardSame /\ host' = host
        /\ (Pops(down, down') /\ up' = up) \/ (Pops(up, up') /\ down' = down)
    BY <1>6, LostEffect
  <2>2. Len(up') = 0 /\ Len(down') = 0 /\ Outstanding # 0
    BY <1>1, <2>1, OneFrame DEF Outstanding
  <2> QED BY <1>1, <2>1, <2>2, NothingPromised DEF BoardSame
<1>7. CASE Run
  <2>1. DeviceStep /\ down' = down /\ host' = host BY <1>7, RunLine
  <2>2. InMetaOp /\ (MetaErase \/ MetaWrite)
    BY <1>1, <2>1 DEF DeviceStep, DecidePending, DecideConfirmed, MetaErase, MetaWrite, SlotErase,
                      SlotWrite, AppConfirm, InMetaOp, MetaPlaces
  <2>3. Len(up) = 0 /\ Len(down) = 0 /\ job.call = "setPending"
    BY <1>1, <2>2, OneFrame DEF Outstanding
  <2>4. Image' = Image /\ flash' = flash BY <2>1, <2>2, RunMeta DEF Image
  <2>5. CASE /\ pc' = "metaWrite" /\ job' = job /\ sent' = sent
             /\ UNCHANGED <<target, session>>
    <3>1. up' = up BY <1>7, <2>5, RunLine
    <3>2. Received(Len(Image))' BY <1>1, <2>1, <2>2, <2>4, <2>5, ReceivedDepends
    <3>3. Names(job.record)' /\ TrialReady(job.record)'
      BY <1>1, <2>1, <2>2, <2>4, <2>5 DEF Names, TrialReady, Readable
    <3>4. InMetaOp' BY <2>5 DEF InMetaOp, MetaPlaces
    <3> QED BY <1>1, <2>1, <2>2, <2>3, <2>4, <2>5, <3>1, <3>2, <3>3, <3>4 DEF EndInv, Outstanding
  <2>6. CASE /\ meta' = job.record /\ committed' = job.record
             /\ pc' = "poll" /\ sent' = Append(sent, "OK")
    <3>1. Len(up') = 1 BY <1>7, <2>3, <2>6, RunLine, OneReply
    <3>2. TrialReady(meta)' BY <1>1, <2>1, <2>2, <2>6 DEF TrialReady, Readable
    <3>3. Names(meta)' /\ Names(committed)' BY <1>1, <2>1, <2>2, <2>4, <2>6 DEF Names
    <3>4. Holds(Len(Image))' BY <1>1, <2>1, <2>2, <2>4 DEF Holds, Received
    <3>5. ~InMetaOp' BY <2>6 DEF InMetaOp, MetaPlaces
    <3>6. Installed' BY <1>1, <1>3, <2>1, <2>2, <2>4, <3>3, <3>4, <3>5 DEF Installed
    <3> QED BY <2>1, <2>3, <2>6, <3>1, <3>2, <3>5, <3>6 DEF EndInv, Outstanding
  <2> QED BY <2>2, <2>3, <2>5, <2>6, RunMeta
<1>8. ~Deaf /\ ~SwitchOn /\ ~ResetBoard
  BY <1>1, DeafEffect, SwitchOnEffect, ResetEffect DEF InApp, InMetaOp, MetaPlaces
<1> QED BY <1>4, <1>5, <1>6, <1>7, <1>8 DEF BoardMove

LEMMA BootBoard ==
  ASSUME TypeInv, TypeInv', ToolInv, AgreeInv, SessionInv, Steady, FlashWorks, host.step = "boot",
         BoardMove
  PROVE  StepInv'
<1>1. /\ Outstanding <= 1
      /\ pc \in {"poll", "decide"} \/ (InMetaOp /\ job.call = "spendAttempt") \/ Started
      /\ Len(down) # 0 => down[1] = Cmd("BOOT") /\ pc = "poll" /\ Installed /\ TrialReady(meta)
      /\ pc = "decide" => Outstanding = 0 /\ Installed /\ TrialReady(meta)
      /\ InMetaOp /\ job.call = "spendAttempt" => Outstanding = 0 /\ Installed
      /\ Started => Len(down) = 0 /\ Installed /\ trials > 0
      /\ Len(up) # 0 /\ IsOk(up[1]) => Started
  BY DEF SessionInv, StepInv, BootStepInv
<1>2. SUFFICES host' = host /\ BootStepInv'
  BY Vacuous DEF StepInv, SessionInv, FirstSteps
<1>3. CASE Poll
  <2>1. host' = host /\ Pops(down, down') /\ pc = "poll" /\ committed' = committed BY PollFrame, <1>3
  <2>2. Len(down) = 1 /\ Len(up) = 0 /\ Len(down') = 0 BY <1>1, <2>1, OneFrame
  <2>3. CASE Refuses BY <1>1, <2>1, <2>3, RefusedPromise, NothingPromised
  <2>4. CASE pc' = "decide" /\ up' = up /\ UNCHANGED <<meta, flash, job>>
    <3>1. ~InMetaOp' /\ ~Started' BY <2>4 DEF InMetaOp, MetaPlaces, Started, InApp
    <3>2. Installed' BY <1>1, <2>1, <2>2, <2>4, <3>1, InstalledDepends
    <3>3. TrialReady(meta)' BY <1>1, <2>1, <2>2, <2>4 DEF TrialReady, Readable
    <3> QED BY <2>1, <2>2, <2>4, <3>1, <3>2, <3>3 DEF BootStepInv, Outstanding
  <2> QED BY <1>1, <1>3, <2>2, <2>3, <2>4, PollBoot
<1>4. CASE Garbled
  <2>1. /\ pc = "poll" /\ host' = host /\ Pops(down, down') /\ BoardSame
        /\ \E x : Pushes(up, up', x) /\ x.type = "STATUS" /\ ~IsOk(x)
    BY <1>4, GarbledAnswer
  <2>2. Len(down') = 0 /\ Len(up') = 1 /\ ~IsOk(up'[1]) BY <1>1, <2>1, OneFrame, OneReply
  <2> QED BY <1>1, <2>1, <2>2, NothingPromised DEF BoardSame
<1>5. CASE Lost
  <2>1. /\ BoardSame /\ host' = host
        /\ (Pops(down, down') /\ up' = up) \/ (Pops(up, up') /\ down' = down)
    BY <1>5, LostEffect
  <2>2. Len(up') = 0 /\ Len(down') = 0 /\ Outstanding # 0
    BY <1>1, <2>1, OneFrame DEF Outstanding
  <2>3. CASE pc = "poll" BY <1>1, <2>1, <2>2, <2>3, NothingPromised DEF BoardSame
  <2>4. CASE Started
    <3>1. pc # "decide" /\ ~(InMetaOp /\ job.call = "spendAttempt")
      BY <2>4 DEF Started, InApp, InMetaOp, MetaPlaces
    <3>2. /\ Started' /\ Installed' /\ trials' > 0 /\ pc' = pc /\ job' = job /\ InMetaOp' = InMetaOp
      BY <1>1, <2>1, <2>4, SameBoard DEF BoardSame
    <3> QED BY <2>1, <2>2, <3>1, <3>2 DEF BootStepInv, Outstanding
  <2> QED BY <1>1, <2>2, <2>3, <2>4
<1>6. CASE Run
  <2>1. DeviceStep /\ down' = down /\ host' = host /\ RecordInv BY <1>6, RunLine DEF SessionInv
  <2>2. pc # "poll"
    BY <2>1 DEF DeviceStep, DecidePending, DecideConfirmed, MetaErase, MetaWrite, SlotErase,
                SlotWrite, AppConfirm
  <2>3. CASE pc = "decide"
    <3>1. DecidePending
      BY <2>1, <2>3 DEF DeviceStep, DecideConfirmed, MetaErase, MetaWrite, SlotErase, SlotWrite,
                        AppConfirm
    <3>2. pc' = "metaErase" /\ job'.call = "spendAttempt" /\ sent' = sent
      BY <1>1, <2>3, <3>1, RunTrial
    <3>3. up' = up BY <1>6, <3>2, RunLine
    <3>4. Installed' BY <1>1, <2>1, <2>3, RunInstalled DEF Booting
    <3>5. InMetaOp' /\ ~Started' BY <3>2 DEF InMetaOp, MetaPlaces, Started, InApp
    <3>6. Outstanding = 0 /\ Len(up) = 0 /\ Len(down) = 0
      BY <1>1, <2>3, OneFrame DEF Outstanding
    <3> QED BY <2>1, <3>2, <3>3, <3>4, <3>5, <3>6 DEF BootStepInv, Outstanding
  <2>4. CASE InMetaOp /\ job.call = "spendAttempt"
    <3>1. MetaErase \/ MetaWrite
      BY <2>1, <2>4 DEF DeviceStep, DecidePending, DecideConfirmed, SlotErase, SlotWrite, AppConfirm,
                        InMetaOp, MetaPlaces
    <3>2. Len(up) = 0 /\ Len(down) = 0 BY <1>1, <2>4, OneFrame DEF Outstanding
    <3>3. Installed' BY <1>1, <2>1, <2>4, RunInstalled DEF Booting
    <3>4. CASE pc' = "metaWrite" /\ job' = job /\ sent' = sent
      <4>1. up' = up BY <1>6, <3>4, RunLine
      <4>2. InMetaOp' /\ ~Started' BY <2>4, <3>4 DEF InMetaOp, MetaPlaces, Started, InApp
      <4> QED BY <2>1, <2>4, <3>2, <3>3, <3>4, <4>1, <4>2 DEF BootStepInv, Outstanding
    <3>5. CASE pc' = "app" /\ trials' # 0 /\ sent' = Append(sent, "OK")
      <4>1. Len(up') = 1 BY <1>6, <3>2, <3>5, RunLine, OneReply
      <4>2. Started' /\ ~InMetaOp' BY <3>5 DEF Started, InApp, InMetaOp, MetaPlaces
      <4>3. trials' > 0 BY <3>5 DEF TypeInv, TypeOK
      <4> QED BY <2>1, <3>2, <3>3, <3>5, <4>1, <4>2, <4>3 DEF BootStepInv, Outstanding
    <3> QED BY <2>4, <3>1, <3>4, <3>5, RunMeta
  <2>5. CASE Started
    <3>1. Started' /\ up' = up BY <1>6, <2>5, RunStarted
    <3>2. Installed' /\ trials' > 0 BY <1>1, <2>1, <2>5, RunInstalled
    <3>3. pc' # "decide" /\ ~(InMetaOp' /\ job'.call = "spendAttempt")
      BY <3>1 DEF Started, InApp, InMetaOp, MetaPlaces
    <3> QED BY <1>1, <2>1, <2>5, <3>1, <3>2, <3>3 DEF BootStepInv, Outstanding
  <2> QED BY <1>1, <2>2, <2>3, <2>4, <2>5
<1>7. ~Deaf /\ ~SwitchOn /\ ~ResetBoard
  <2>1. ~Deaf
    <3>1. Started => Len(down) = 0 BY <1>1
    <3>2. Deaf => Len(down) = 1 BY <1>1, DeafEffect, OneFrame
    <3> QED BY <1>1, <3>1, <3>2, DeafEffect DEF Started, InApp, InMetaOp, MetaPlaces
  <2>2. pc # "off" BY <1>1 DEF Started, InApp, InMetaOp, MetaPlaces
  <2> QED BY <2>1, <2>2, SwitchOnEffect, ResetEffect
<1> QED BY <1>3, <1>4, <1>5, <1>6, <1>7 DEF BoardMove

-----------------------------------------------------------------------------
(* The steps of the tool and its user keep SessionInv *)

LEMMA SameVars ==
  ASSUME UNCHANGED vars
  PROVE  /\ BoardSame /\ Booting' = Booting /\ Started' = Started /\ InMetaOp' = InMetaOp
         /\ RecordInv' = RecordInv /\ LoadOrDefault(meta)' = LoadOrDefault(meta)
<1>1. BoardSame BY DEF vars, ram, history, BoardSame
<1>2. InMetaOp' = InMetaOp BY <1>1 DEF BoardSame, InMetaOp
<1> QED BY <1>1, <1>2 DEF BoardSame, Booting, Started, InApp, RecordInv, Linked, LoadOrDefault,
                          Readable

\* When the tool ends, at most one frame is on its way to the board, and it writes nothing.
LEMMA StopKeeps ==
  ASSUME ToolInv, SessionInv, UNCHANGED vars, host.step # "idle", host'.step = "idle",
         host'.result # "done", down' = down, Len(up) # 0 \/ Quiet
  PROVE  StepInv'
<1>0. Len(down) \in Nat /\ Len(up) \in Nat BY DEF ToolInv
<1>1. host.step \in FirstSteps \cup {"start", "header", "data", "end", "boot"}
  BY DEF ToolInv, HostSteps, FirstSteps
<1>2. SUFFICES IdleInv' BY Vacuous DEF StepInv, FirstSteps
<1>3. pc' = pc /\ caller' = caller /\ Booting' = Booting /\ Started' = Started
  BY SameVars DEF BoardSame
<1>4. SUFFICES /\ pc = "off" \/ Booting => Len(down) = 0
               /\ Booting => caller = "main"
               /\ Len(down) <= 1 /\ \A i \in 1..Len(down) : down[i] \in Simple
               /\ pc \in {"off", "poll"} \/ Booting \/ Started
  BY <1>3 DEF IdleInv
<1>5. ~(Booting /\ pc = "poll") /\ ~(Booting /\ Started) /\ ~(Started /\ pc = "off")
  BY DEF Booting, Started, InApp, InMetaOp, MetaPlaces
<1>6. CASE Quiet
  <2>1. Len(down) = 0 /\ (pc \in {"off", "poll"} \/ InApp)
    BY <1>0, <1>6 DEF Quiet, SessionInv
  <2>2. ~(Booting /\ (pc \in {"off", "poll"} \/ InApp))
    BY DEF Booting, InApp, InMetaOp, MetaPlaces
  <2> QED BY <2>1, <2>2 DEF Started
<1>7. CASE Len(up) # 0 /\ host.step \in FirstSteps
  <2>1. /\ ~(pc = "off" \/ Booting)
        /\ pc \in {"off", "poll"} \/ Booting \/ Started
        /\ Len(up) + Len(down) <= 2 /\ \A i \in 1..Len(down) : down[i] \in Simple
    BY <1>7 DEF SessionInv, StepInv, FirstInv, Outstanding
  <2> DEFINE m == Len(up)
             n == Len(down)
  <2> HIDE DEF m, n
  <2>2. n <= 1
    <3>1. m \in Nat /\ n \in Nat /\ m # 0 /\ m + n <= 2 BY <1>0, <1>7, <2>1 DEF m, n
    <3> QED BY ONLY <3>1
  <2> USE DEF m, n
  <2> QED BY <2>1, <2>2
<1>8. CASE Len(up) # 0 /\ host.step = "start"
  <2>1. pc = "poll" /\ Len(up) + Len(down) <= 2 /\ (Len(down) = 1 => down[1] = Cmd("START"))
    BY <1>8 DEF SessionInv, StepInv, StartInv, Outstanding
  <2> DEFINE m == Len(up)
             n == Len(down)
  <2> HIDE DEF m, n
  <2>2. n \in {0, 1}
    <3>1. m \in Nat /\ n \in Nat /\ m # 0 /\ m + n <= 2 BY <1>0, <1>8, <2>1 DEF m, n
    <3> QED BY ONLY <3>1
  <2> USE DEF m, n
  <2>3. \A i \in 1..Len(down) : i = 1 /\ Len(down) = 1 BY <2>2
  <2> QED BY <1>5, <2>1, <2>2, <2>3 DEF Simple
<1>9. CASE Len(up) # 0 /\ host.step \in {"header", "data", "end", "boot"}
  <2>1. Outstanding <= 1
    BY <1>9 DEF SessionInv, StepInv, HeaderInv, DataInv, EndInv, BootStepInv
  <2>2. Len(down) = 0 /\ Outstanding # 0 BY <1>0, <1>9, <2>1, OneFrame DEF Outstanding
  <2>3. pc = "poll" \/ Started
    BY <1>9, <2>2 DEF SessionInv, StepInv, HeaderInv, DataInv, EndInv, BootStepInv
  <2> QED BY <1>5, <2>2, <2>3
<1> QED BY <1>1, <1>6, <1>7, <1>8, <1>9

\* The user starts the tool.
LEMMA StartKeeps ==
  ASSUME ToolInv, SessionInv, Steady, StartWrite \/ StartAbort \/ StartQuery \/ StartMeta
  PROVE  StepInv'
<1>1. PICK build \in Builds \cup {NoBuild}, step \in FirstSteps, f \in Simple :
        Start(build, step, f) /\ (step = "meta" => f = Cmd("META"))
  BY DEF StartWrite, StartAbort, StartQuery, StartMeta, FirstSteps, Simple
<1>2. /\ host.step = "idle" /\ UNCHANGED vars /\ down' = Append(down, f)
      /\ host'.step = step /\ host'.off = 0 /\ host'.result = "none"
  BY <1>1 DEF Start, Closed
<1>3. up' = <<>>
  <2>1. ~Spend("late_reply") BY DEF Spend, Steady
  <2> QED BY <1>1, <2>1 DEF Start, Open
<1>4. /\ pc = "off" \/ Booting => Len(down) = 0
      /\ Booting => caller = "main"
      /\ Len(down) <= 1 /\ \A i \in 1..Len(down) : down[i] \in Simple
      /\ pc \in {"off", "poll"} \/ Booting \/ Started
  BY <1>2 DEF SessionInv, StepInv, IdleInv
<1>5. f \in HostFrames /\ down \in Seq(HostFrames) BY DEF ToolInv, Simple, Cmd, HostFrames
<1>6. Pushes(down, down', f) BY <1>2, <1>5, AppendPushes
<1>7. /\ Len(down) \in Nat /\ Len(down') = Len(down) + 1 /\ down'[Len(down) + 1] = f
      /\ \A i \in 1..Len(down) : down'[i] = down[i]
  BY <1>6 DEF Pushes
<1>8. Len(up') = 0 BY <1>3
<1>9. \A i \in 1..Len(down') : down'[i] \in Simple
  <2>1. \A i \in 1..Len(down') : i \in 1..Len(down) \/ i = Len(down) + 1 BY <1>7
  <2> QED BY <1>4, <1>7, <2>1
<1>10. pc' = pc /\ caller' = caller /\ Booting' = Booting /\ Started' = Started
  BY <1>2, SameVars DEF BoardSame
<1>11. FirstInv'
  <2>1. Len(down') <= 2 /\ Len(down') \in Nat /\ (Len(down) = 0 => Len(down') <= 1) BY <1>4, <1>7
  <2> QED BY <1>4, <1>8, <1>9, <1>10, <2>1 DEF FirstInv, Outstanding
<1>12. MetaInv'
  <2>1. step = "meta" => down'[Len(down')] = Cmd("META") BY <1>1, <1>7
  <2> QED BY <1>2, <1>8, <2>1 DEF MetaInv
<1> QED BY <1>2, <1>11, <1>12, Vacuous DEF StepInv, FirstSteps

\* The tool takes a reply and sends at most one frame.
LEMMA TakesFrames ==
  ASSUME ToolInv, up # <<>>, NEW f \in HostFrames, Takes(<<f>>) \/ Takes(<<>>)
  PROVE  /\ Len(up) # 0 /\ Head(up) = up[1] /\ Pops(up, up') /\ UNCHANGED vars
         /\ Takes(<<f>>) => Pushes(down, down', f)
         /\ Takes(<<>>) => down' = down
<1>1. up \in Seq(BoardFrames) /\ down \in Seq(HostFrames) BY DEF ToolInv
<1>2. up' = Tail(up) /\ UNCHANGED vars BY DEF Takes
<1>3. Pops(up, Tail(up)) /\ Head(up) = up[1] BY ONLY <1>1, up # <<>>, TailPops
<1>4. Pushes(down, down \o <<f>>, f) /\ down \o <<>> = down BY ONLY <1>1, f \in HostFrames, ConcatPushes
<1> QED BY <1>2, <1>3, <1>4 DEF Takes, Pops

LEMMA CmdsAreFrames == \A c \in {"START", "END", "BOOT"} : Cmd(c) \in HostFrames
  BY DEF Cmd, HostFrames

LEMMA OnMetaKeeps ==
  ASSUME TypeInv, ToolInv, SessionInv, OnMeta
  PROVE  StepInv'
<1>1. host.step = "meta" /\ up # <<>> /\ Head(up).type = "META" BY DEF OnMeta
<1> DEFINE c == Head(up).record
           t == HostTarget(c)
<1>2. \/ host' = [Ended("already") EXCEPT !.target = t] /\ Takes(<<>>)
      \/ host' = [host EXCEPT !.step = "start", !.target = t] /\ Takes(<<Cmd("START")>>)
  BY DEF OnMeta
<1>3. /\ Len(up) # 0 /\ Head(up) = up[1] /\ Pops(up, up') /\ UNCHANGED vars
      /\ Takes(<<Cmd("START")>>) => Pushes(down, down', Cmd("START"))
      /\ Takes(<<>>) => down' = down
  BY <1>1, <1>2, TakesFrames, CmdsAreFrames
<1>h. DOMAIN host = {"step", "build", "target", "off", "result"} BY DEF ToolInv
<1>4. CASE host' = [Ended("already") EXCEPT !.target = t] /\ Takes(<<>>)
  <2>1. host'.step = "idle" /\ host'.result = "already"
    BY <1>4 DEF Ended, ToolInv
  <2> QED BY <1>1, <1>3, <1>4, <2>1, StopKeeps
<1>5. CASE host' = [host EXCEPT !.step = "start", !.target = t] /\ Takes(<<Cmd("START")>>)
  <2> DEFINE m == Len(up)
             n == Len(down)
  <2>0. m \in Nat /\ n \in Nat BY DEF ToolInv
  <2>1. /\ m + n <= 2 /\ host.off = 0 /\ (n # 0 => down[n] = Cmd("META")) /\ (m = 2 => ~IsOk(up[2]))
        /\ \A i \in 1..m : up[i].type = "META" => pc = "poll" /\ up[i].record = LoadOrDefault(meta)
    BY <1>1 DEF SessionInv, StepInv, FirstInv, MetaInv, FirstSteps, Outstanding
  <2>2. /\ m # 0 /\ Len(up') = m - 1 /\ \A i \in 1..Len(up') : up'[i] = up[i + 1]
        /\ Len(down') = n + 1 /\ down'[n + 1] = Cmd("START") /\ \A i \in 1..n : down'[i] = down[i]
    BY <1>3, <1>5 DEF Pops, Pushes
  <2>3. host'.step = "start" /\ host'.target = t /\ host'.off = host.off /\ host'.result = host.result
    BY <1>5 DEF ToolInv
  <2>4. up[1].type = "META" /\ c = up[1].record BY <1>1, <1>3
  <2> HIDE DEF m, n, c
  <2>5. pc = "poll" /\ c = LoadOrDefault(meta)
    <3>1. 1 \in 1..m BY <2>0, <2>2
    <3> QED BY <2>1, <2>4, <3>1
  <2>6. n \in {0, 1} /\ Len(up') + Len(down') <= 2 /\ Len(up') \in {0, 1} BY <2>0, <2>1, <2>2
  <2>7. \A i \in 1..Len(up') : ~IsOk(up'[i])
    <3>1. ASSUME NEW i \in 1..Len(up') PROVE i = 1 /\ m = 2 BY <2>0, <2>1, <2>2, <2>6
    <3> QED BY <2>1, <2>2, <3>1
  <2>8. n = 1 => down'[1] = Cmd("META")
    <3>1. n = 1 => 1 \in 1..n OBVIOUS
    <3> QED BY <2>1, <2>2, <3>1
  <2>9. StartInv'
    <3>1. pc' = pc /\ LoadOrDefault(meta)' = LoadOrDefault(meta) BY <1>3, SameVars DEF BoardSame
    <3>2. HostTarget(LoadOrDefault(meta)') = t BY <2>5, <3>1
    <3>3. HostTarget(LoadOrDefault(meta))' = HostTarget(LoadOrDefault(meta)') BY DEF HostTarget
    <3>4. /\ Len(down') = 1 => down'[1] = Cmd("START")
          /\ Len(down') = 2 => down'[1] = Cmd("META") /\ down'[2] = Cmd("START")
          /\ Len(up') # 2
      BY <2>2, <2>6, <2>8
    <3> QED BY <2>1, <2>3, <2>5, <2>6, <2>7, <3>1, <3>2, <3>3, <3>4 DEF StartInv, Outstanding
  <2>10. host.result # "done" BY <1>1 DEF SessionInv, StepInv
  <2> QED BY <2>3, <2>9, <2>10, Vacuous DEF StepInv, FirstSteps
<1> QED BY <1>2, <1>4, <1>5

\* What was promised with an OK holds when the tool takes it, and the line is empty then.
LEMMA OkTaken ==
  ASSUME ToolInv, SessionInv, Answered(TRUE),
         host.step \in {"start", "header", "data", "end", "boot"}
  PROVE  /\ Len(up) = 1 /\ Len(down) = 0
         /\ host.step = "start" =>
              /\ pc = "poll" /\ state = "WAIT_HEADER" /\ target = host.target /\ host.off = 0
         /\ host.step \in {"header", "data"} => pc = "poll" /\ Received(host.off)
         /\ host.step = "end" => pc = "poll" /\ Installed /\ TrialReady(meta)
         /\ host.step = "boot" => Started /\ Installed /\ trials > 0
<1> DEFINE m == Len(up)
           n == Len(down)
<1>1. up \in Seq(BoardFrames) /\ up # <<>> /\ m \in Nat /\ n \in Nat BY DEF ToolInv, Answered
<1>2. Head(up) = up[1] /\ m # 0
  <2>1. Pops(up, Tail(up)) /\ Head(up) = up[1] BY ONLY <1>1, TailPops
  <2> QED BY <2>1 DEF Pops
<1>3. IsOk(up[1]) BY <1>2 DEF Answered, IsOk
<1>4. 1 \in 1..m BY <1>1, <1>2
<1>5. CASE host.step = "start"
  <2>1. /\ pc = "poll" /\ host.off = 0 /\ m + n <= 2
        /\ n # 0 => \A i \in 1..m : ~IsOk(up[i])
        /\ m = 2 => ~IsOk(up[1])
        /\ (\E i \in 1..m : IsOk(up[i])) => state = "WAIT_HEADER" /\ target = host.target
    BY <1>5 DEF SessionInv, StepInv, StartInv, Outstanding
  <2>2. n = 0 /\ m # 2 /\ state = "WAIT_HEADER" /\ target = host.target BY <1>3, <1>4, <2>1
  <2> HIDE DEF m, n
  <2>3. m = 1 BY <1>1, <1>2, <2>1, <2>2
  <2> QED BY <1>5, <2>1, <2>2, <2>3 DEF m, n
<1>6. CASE host.step \in {"header", "data", "end", "boot"}
  <2>1. Outstanding <= 1
    BY <1>6 DEF SessionInv, StepInv, HeaderInv, DataInv, EndInv, BootStepInv
  <2>2. m = 1 /\ n = 0 BY <1>2, <2>1, OneFrame
  <2>3. Outstanding # 0 BY <2>2 DEF Outstanding
  <2>4. CASE host.step = "header" BY <1>3, <2>2, <2>3, <2>4 DEF SessionInv, StepInv, HeaderInv
  <2>5. CASE host.step = "data" BY <1>3, <2>2, <2>3, <2>5 DEF SessionInv, StepInv, DataInv
  <2>6. CASE host.step = "end" BY <1>3, <2>2, <2>3, <2>6 DEF SessionInv, StepInv, EndInv
  <2>7. CASE host.step = "boot" BY <1>3, <2>2, <2>3, <2>7 DEF SessionInv, StepInv, BootStepInv
  <2> QED BY <1>6, <2>2, <2>4, <2>5, <2>6, <2>7
<1> QED BY <1>5, <1>6

\* The first cells of the image up to off, and the chunk after them.
LEMMA ChunkComes ==
  ASSUME ToolInv, host.build \in Builds, host.target \in Slots, host.off < Len(Image)
  PROVE  /\ Len(Chunk) \in Nat /\ host.off + Len(Chunk) <= Len(Image)
         /\ \A i \in 1..Len(Chunk) : Chunk[i] = Image[host.off + i]
<1> DEFINE image == host.build.image[host.target]
           off == host.off
           l == Len(image)
           j == IF l - off < ChunkSize THEN l ELSE off + ChunkSize
<1>1. image \in Seq(Bytes) /\ ChunkSize \in Nat \ {0} BY BuildAssumption
<1>2. off \in Nat /\ l \in Nat BY <1>1 DEF ToolInv
<1>3. Image = image BY DEF Image
<1>4. Chunk = SubSeq(image, off + 1, j) BY <1>3 DEF Chunk
<1>e. \A i \in 1..l : image[i] \in Bytes BY <1>1
<1>5. off < l BY <1>3
<1> HIDE DEF image, off, l
<1>6. off + 1 \in Int /\ j \in Int /\ off + 1 <= j /\ j <= l BY <1>1, <1>2, <1>5
<1> HIDE DEF j
<1>7. \A i \in (off + 1)..j : image[i] \in Bytes BY <1>2, <1>6, <1>e
<1>8. /\ Len(Chunk) = IF off + 1 <= j THEN j - (off + 1) + 1 ELSE 0
      /\ \A i \in 1..(j - (off + 1) + 1) : Chunk[i] = image[(off + 1) + i - 1]
  <2> DEFINE a == off + 1
  <2>1. a \in Int /\ j \in Int /\ \A i \in a..j : image[i] \in Bytes BY <1>6, <1>7
  <2> HIDE DEF a
  <2>2. /\ Len(SubSeq(image, a, j)) = IF a <= j THEN j - a + 1 ELSE 0
        /\ \A i \in 1..(j - a + 1) : SubSeq(image, a, j)[i] = image[a + i - 1]
    BY ONLY <2>1, SubSeqProperties
  <2> QED BY <1>4, <2>2 DEF a
<1>9. Len(Chunk) = j - off BY <1>2, <1>6, <1>8
<1>10. \A i \in 1..Len(Chunk) : Chunk[i] = image[off + i]
  <2>1. j - (off + 1) + 1 = j - off BY <1>2, <1>6
  <2>2. \A i \in 1..(j - off) : (off + 1) + i - 1 = off + i BY <1>2, <1>6
  <2> QED BY <1>8, <1>9, <2>1, <2>2
<1>11. Len(Chunk) \in Nat /\ off + Len(Chunk) <= l BY <1>2, <1>6, <1>9
<1> QED BY <1>3, <1>10, <1>11 DEF off, l

\* The tool sends the next frame of a write.
LEMMA NextFrame ==
  ASSUME ToolInv, SessionInv, Answered(TRUE),
         host.step \in {"start", "header", "data", "end", "boot"},
         NEW f \in HostFrames, Takes(<<f>>)
  PROVE  /\ Len(up') = 0 /\ Len(down') = 1 /\ down'[1] = f /\ UNCHANGED vars /\ Outstanding' <= 1
<1>1. up # <<>> BY DEF Answered
<1>2. Pops(up, up') /\ UNCHANGED vars /\ Pushes(down, down', f) BY <1>1, TakesFrames
<1>3. Len(up) = 1 /\ Len(down) = 0 BY OkTaken
<1>4. Len(up') = 0 /\ Len(down') = 1 /\ down'[1] = f BY <1>2, <1>3 DEF Pops, Pushes
<1> QED BY <1>2, <1>4 DEF Outstanding

LEMMA OnOkKeeps ==
  ASSUME TypeInv, ToolInv, SessionInv, OnOk
  PROVE  StepInv'
<1>1. Answered(TRUE) /\ up # <<>> BY DEF OnOk, Answered
<1>2. host.step # "idle" => host.result # "done" BY DEF SessionInv, StepInv
<1>3. host.step \in {"start", "header", "data", "end", "boot"} => host.build \in Builds /\ host.target \in Slots
  BY DEF ToolInv
<1>h. host = [step |-> host.step, build |-> host.build, target |-> host.target, off |-> host.off,
              result |-> host.result]
  BY DEF ToolInv
\* The next step, with the same image
<1>4. ASSUME NEW step \in {"header", "data", "end", "boot"}, NEW off, host.step # "idle",
             host' = [host EXCEPT !.step = step, !.off = off]
      PROVE  /\ host'.step = step /\ host'.off = off /\ host'.target = host.target
             /\ host'.build = host.build /\ host'.result # "done" /\ Image' = Image
  BY <1>2, <1>4, <1>h DEF Image
<1>5. ASSUME NEW step, NextIs(step, Cmd("END")) \/ NextIs(step, Cmd("BOOT"))
                       \/ NextIs(step, HeaderFrame(ImageHeader))
      PROVE  host' = [host EXCEPT !.step = step, !.off = host.off]
  <2>1. host' = [host EXCEPT !.step = step] BY <1>5 DEF NextIs
  <2> QED BY <1>h, <2>1
<1>6. CASE host.step = "start" /\ NextIs("header", HeaderFrame(ImageHeader))
  <2>1. /\ host'.step = "header" /\ host'.off = host.off /\ host'.target = host.target
        /\ host'.build = host.build /\ host'.result # "done" /\ Image' = Image
    <3>1. host' = [host EXCEPT !.step = "header", !.off = host.off] BY <1>5, <1>6
    <3> QED BY <1>4, <1>6, <3>1
  <2>2. HeaderFrame(ImageHeader) \in HostFrames
    BY <1>3, <1>6, FramesOfBuild DEF HeaderFrame, HostFrames
  <2>3. /\ Len(up') = 0 /\ Len(down') = 1 /\ down'[1] = HeaderFrame(ImageHeader) /\ UNCHANGED vars
        /\ Outstanding' <= 1
    BY <1>1, <1>6, <2>2, NextFrame DEF NextIs
  <2>4. pc = "poll" /\ state = "WAIT_HEADER" /\ target = host.target /\ host.off = 0
    BY <1>1, <1>6, OkTaken
  <2>5. HeaderFrame(ImageHeader)' = HeaderFrame(ImageHeader) BY <2>1 DEF HeaderFrame, ImageHeader
  <2>6. pc' = pc /\ state' = state /\ target' = target BY <2>3, SameVars DEF BoardSame
  <2>7. HeaderInv' BY <2>1, <2>3, <2>4, <2>5, <2>6 DEF HeaderInv
  <2> QED BY <2>1, <2>7, Vacuous DEF StepInv, FirstSteps
<1>7. CASE /\ host.step \in {"header", "data"} /\ host.off < Len(Image)
           /\ host' = [host EXCEPT !.step = "data", !.off = @ + Len(Chunk)]
           /\ Takes(<<DataFrame(host.off \div ChunkSize, Chunk)>>)
  <2>0. PICK d, l, seq, n : d = Chunk /\ l = Len(d) /\ seq = host.off \div ChunkSize /\ n = host.off
    OBVIOUS
  <2>1. /\ l \in Nat /\ n + l <= Len(Image) /\ \A i \in 1..l : d[i] = Image[n + i]
    BY <1>3, <1>7, <2>0, ChunkComes
  <2>2. d \in Payloads /\ seq \in Nat /\ n \in Nat BY <1>3, <1>7, <2>0, FramesOfBuild DEF ToolInv
  <2>3. pc = "poll" /\ Received(n) BY <1>1, <1>7, <2>0, OkTaken
  <2>4. /\ host'.step = "data" /\ host'.off = n + l /\ host'.target = host.target
        /\ host'.build = host.build /\ host'.result # "done" /\ Image' = Image
    <3>1. host' = [host EXCEPT !.step = "data", !.off = n + l] BY <1>7, <1>h, <2>0
    <3> QED BY <1>4, <1>7, <3>1
  <2>5. DataFrame(seq, d) \in HostFrames BY <2>2 DEF DataFrame, HostFrames
  <2>6. /\ Len(up') = 0 /\ Len(down') = 1 /\ down'[1] = DataFrame(seq, d) /\ UNCHANGED vars
        /\ Outstanding' <= 1
    BY <1>1, <1>7, <2>0, <2>5, NextFrame
  <2>7. down'[1].type = "DATA" /\ down'[1].data = d BY <2>6 DEF DataFrame
  <2>8. pc' = pc /\ UNCHANGED <<flash, target, session>> BY <2>6, SameVars DEF BoardSame
  <2>9. Coming(down[1].data)'
    <3>1. l <= n + l /\ (n + l) - l = n BY <2>1, <2>2
    <3>2. Received(n)' BY <2>3, <2>4, <2>8 DEF Received, Holds
    <3>3. \A i \in 1..l : d[i] = Image[n + i] BY <2>1
    <3> QED BY <2>0, <2>4, <2>7, <3>1, <3>2, <3>3 DEF Coming
  <2>10. host'.off <= Len(Image)' BY <2>1, <2>4
  <2>11. DataInv' BY <2>3, <2>4, <2>6, <2>7, <2>8, <2>9, <2>10 DEF DataInv
  <2> QED BY <2>4, <2>11, Vacuous DEF StepInv, FirstSteps
<1>8. CASE host.step \in {"header", "data"} /\ host.off = Len(Image) /\ NextIs("end", Cmd("END"))
  <2>1. /\ host'.step = "end" /\ host'.off = host.off /\ host'.target = host.target
        /\ host'.build = host.build /\ host'.result # "done" /\ Image' = Image
    <3>1. host' = [host EXCEPT !.step = "end", !.off = host.off] BY <1>5, <1>8
    <3> QED BY <1>4, <1>8, <3>1
  <2>2. /\ Len(up') = 0 /\ Len(down') = 1 /\ down'[1] = Cmd("END") /\ UNCHANGED vars
        /\ Outstanding' <= 1
    BY <1>1, <1>8, CmdsAreFrames, NextFrame DEF NextIs
  <2>3. pc = "poll" /\ Received(Len(Image)) BY <1>1, <1>8, OkTaken
  <2>4. pc' = pc /\ UNCHANGED <<flash, target, session>> BY <2>2, SameVars DEF BoardSame
  <2>5. Received(Len(Image))' BY <2>1, <2>3, <2>4 DEF Received, Holds
  <2>6. ~InMetaOp' BY <2>3, <2>4 DEF InMetaOp, MetaPlaces
  <2>7. EndInv' BY <2>1, <2>2, <2>3, <2>4, <2>5, <2>6 DEF EndInv
  <2> QED BY <2>1, <2>7, Vacuous DEF StepInv, FirstSteps
<1>9. CASE host.step = "end" /\ NextIs("boot", Cmd("BOOT"))
  <2>1. /\ host'.step = "boot" /\ host'.off = host.off /\ host'.target = host.target
        /\ host'.build = host.build /\ host'.result # "done" /\ Image' = Image
    <3>1. host' = [host EXCEPT !.step = "boot", !.off = host.off] BY <1>5, <1>9
    <3> QED BY <1>4, <1>9, <3>1
  <2>2. /\ Len(up') = 0 /\ Len(down') = 1 /\ down'[1] = Cmd("BOOT") /\ UNCHANGED vars
        /\ Outstanding' <= 1
    BY <1>1, <1>9, CmdsAreFrames, NextFrame DEF NextIs
  <2>3. pc = "poll" /\ Installed /\ TrialReady(meta) BY <1>1, <1>9, OkTaken
  <2>4. pc' = pc /\ UNCHANGED <<meta, flash, committed>> BY <2>2, SameVars DEF BoardSame
  <2>5. ~InMetaOp' /\ ~Started' /\ pc' # "decide"
    BY <2>3, <2>4 DEF InMetaOp, MetaPlaces, Started, InApp
  <2>6. Installed' BY <2>1, <2>3, <2>4, <2>5 DEF Installed, Holds, Names, Readable
  <2>7. TrialReady(meta)' BY <2>1, <2>3, <2>4 DEF TrialReady, Readable
  <2>8. BootStepInv' BY <2>1, <2>2, <2>3, <2>4, <2>5, <2>6, <2>7 DEF BootStepInv
  <2> QED BY <2>1, <2>8, Vacuous DEF StepInv, FirstSteps
<1>10. CASE host.step = "boot" /\ host' = Ended("done") /\ Takes(<<>>)
  <2>1. /\ host'.step = "idle" /\ host'.target = host.target /\ host'.build = host.build
        /\ Image' = Image
    BY <1>10, <1>h DEF Ended, Image
  <2>2. UNCHANGED vars /\ down' = down
    BY <1>1, <1>10, CmdsAreFrames, TakesFrames
  <2>3. Started /\ Installed /\ trials > 0 /\ Len(down) = 0 BY <1>1, <1>10, OkTaken
  <2>4. /\ Started' /\ InMetaOp' = InMetaOp /\ UNCHANGED <<pc, job, meta, flash, committed, trials>>
    BY <2>2, <2>3, SameVars DEF BoardSame
  <2>5. ~Booting' /\ pc' # "off"
    BY <2>4 DEF Booting, Started, InApp, InMetaOp, MetaPlaces
  <2>6. Installed' BY <2>1, <2>3, <2>4 DEF Installed, Holds, Names, Readable
  <2>7. IdleInv' BY <2>2, <2>3, <2>4, <2>5, <2>6 DEF IdleInv
  <2> QED BY <2>1, <2>7, Vacuous DEF StepInv, FirstSteps
<1>11. CASE host.step = "abort" /\ host' = Closed /\ Takes(<<>>)
  <2>1. host'.step = "idle" /\ host'.result # "done" BY <1>11 DEF Closed
  <2>2. Len(up) # 0 /\ UNCHANGED vars /\ down' = down
    BY <1>1, <1>11, CmdsAreFrames, TakesFrames
  <2> QED BY <1>11, <2>1, <2>2, StopKeeps
<1> QED BY <1>6, <1>7, <1>8, <1>9, <1>10, <1>11 DEF OnOk

LEMMA EndsKeep ==
  ASSUME ToolInv, SessionInv, Steady, OnShown \/ OnWrong \/ ShortRead \/ Timeout \/ GarbledReply
  PROVE  StepInv'
<1> DEFINE Ends == host'.step = "idle" /\ host'.result # "done"
<1>1. host' = Closed \/ host' = [Closed EXCEPT !.result = "short_read"] => Ends BY DEF Closed
<1>2. CASE OnShown \/ OnWrong \/ ShortRead
  <2>1. /\ host.step # "idle" /\ up # <<>> /\ Takes(<<>>)
        /\ host' = Closed \/ host' = [Closed EXCEPT !.result = "short_read"]
    BY <1>2 DEF OnShown, OnWrong, Wrong, ShortRead
  <2>2. Len(up) # 0 /\ UNCHANGED vars /\ down' = down
    BY <2>1, CmdsAreFrames, TakesFrames
  <2> QED BY <1>1, <2>1, <2>2, StopKeeps
<1>3. CASE Timeout
  <2>1. Quiet BY <1>3 DEF Timeout, Spend, Steady
  <2>2. host.step # "idle" /\ host' = Closed /\ UNCHANGED vars /\ down' = down
    BY <1>3 DEF Timeout, line
  <2> QED BY <1>1, <2>1, <2>2, StopKeeps
<1>4. CASE GarbledReply
  <2>1. /\ host.step # "idle" /\ host' = Closed /\ UNCHANGED vars /\ down' = down
        /\ up \in Seq(BoardFrames) /\ up # <<>>
    BY <1>4 DEF GarbledReply, ToolInv
  <2>2. Len(up) # 0 BY ONLY <2>1, TailPops DEF Pops
  <2> QED BY <1>1, <2>1, <2>2, StopKeeps
<1> QED BY <1>2, <1>3, <1>4

-----------------------------------------------------------------------------
(* The record *)

\* Only END writes a new image into the record, and only in the session that sent the image.
LEMMA OnlyEndInstalls ==
  ASSUME TypeInv, TypeInv', ToolInv, SessionInv, Poll, pc' = "metaErase"
  PROVE  host.step = "end" /\ Received(Len(Image))
<1>1. Pops(down, down') /\ pc = "poll" BY PollFrame
<1>2. Len(down) \in Nat /\ Len(down) # 0 BY <1>1 DEF Pops
<1>3. down[1] \notin Simple BY <1>1, PollSimple
<1>4. ~Refuses BY <1>1 DEF Refuses
<1>5. host.step \in {"idle", "start", "header", "data", "end", "boot"} \cup FirstSteps
  BY DEF ToolInv, HostSteps, FirstSteps
<1>6. host.step # "idle" BY <1>2, <1>3 DEF SessionInv, StepInv, IdleInv
<1>7. host.step \notin FirstSteps BY <1>2, <1>3 DEF SessionInv, StepInv, FirstInv
<1>8. host.step # "start"
  <2>1. ASSUME host.step = "start" PROVE FALSE
    <3> DEFINE n == Len(down)
    <3>1. Len(up) \in Nat /\ Len(up) + n <= 2 /\ (n = 1 => down[1] = Cmd("START"))
          /\ (n = 2 => down[1] = Cmd("META"))
      BY <2>1 DEF SessionInv, StepInv, StartInv, Outstanding, ToolInv
    <3> HIDE DEF n
    <3>2. n \in Nat /\ n # 0 BY <1>2 DEF n
    <3>3. n \in {1, 2} BY <3>1, <3>2
    <3> QED BY <1>3, <3>1, <3>3 DEF Simple
  <2> QED BY <2>1
<1>9. host.step # "header"
  BY <1>1, <1>2, <1>4, PollHeader DEF SessionInv, StepInv, HeaderInv
<1>10. host.step # "data"
  BY <1>1, <1>2, <1>4, PollData DEF SessionInv, StepInv, DataInv
<1>11. host.step # "boot"
  BY <1>1, <1>2, <1>4, PollBoot DEF SessionInv, StepInv, BootStepInv
<1>12. host.step = "end" BY <1>5, <1>6, <1>7, <1>8, <1>9, <1>10, <1>11
<1> QED BY <1>2, <1>12 DEF SessionInv, StepInv, EndInv

\* No frame is cut short, so the receiver holds none up.
LEMMA WholeFrames ==
  ASSUME SessionInv, Steady, [HostNext]_allVars
  PROVE  gap' = 0 /\ ~LetGo /\ ~Truncated
<1>1. gap = 0 /\ "truncated" \notin Troubles BY DEF SessionInv, Steady
<1>2. ~LetGo /\ ~Truncated BY <1>1 DEF LetGo, Truncated, Spend
<1> QED BY <1>1, <1>2
        DEF HostNext, System, HostStep, Poll, Run, Deaf, SwitchOn, ResetBoard, Garbled, GarbledReply,
            Lost, StartWrite, StartAbort, StartQuery, StartMeta, Start, OnMeta, OnOk, OnShown,
            OnWrong, ShortRead, Timeout, NextIs, Takes, allVars

LEMMA RecordNext ==
  ASSUME TypeInv, TypeInv', ToolInv, AgreeInv, SessionInv, Steady, FlashWorks, [HostNext]_allVars
  PROVE  RecordInv'
<1>1. Linked(LoadOrDefault(meta)) /\ RecordInv BY DEF SessionInv, RecordInv
<1>2. ASSUME meta' = meta, pc' \notin MetaPlaces \cup {"confirmed"}
      PROVE  RecordInv'
  BY <1>1, <1>2 DEF RecordInv, InMetaOp, Linked, LoadOrDefault, Readable
<1>3. CASE Poll
  <2>1. meta' = meta /\ pc' \in {"poll", "decide", "slotErase", "slotWrite", "metaErase"} /\ Frame
    BY <1>3, PollFrame, FrameEffect
  <2>2. CASE pc' = "metaErase"
    <3>1. /\ job'.record = SetPending(meta, target, session.version, session.size, session.crc,
                                      MaxAttempts)
      BY <2>1, <2>2, FrameEffect
    <3>2. /\ target = host.target /\ session.crc = Crc32(host.build.image[host.target])
          /\ host.build \in Builds /\ host.target \in Slots
      BY <1>3, <2>2, OnlyEndInstalls DEF Received, Image, ToolInv
    <3> DEFINE r == job'.record
               c == LoadOrDefault(meta)
    <3>3. c.slots \in [Slots -> SlotInfo] BY LoadRecord DEF TypeInv, TypeOK, Records
    <3>4. /\ r.slots[host.target].crc = Crc32(host.build.image[host.target])
          /\ \A s \in Slots \ {host.target} : r.slots[s] = c.slots[s]
      BY <3>1, <3>2, <3>3 DEF SetPending
    <3>5. Linked(c) BY <1>1
    <3> HIDE DEF r, c
    <3>6. Linked(r) BY <3>2, <3>4, <3>5 DEF Linked
    <3>7. Linked(job.record)' BY <3>6 DEF Linked, r
    <3> QED BY <1>1, <2>1, <2>2, <3>7 DEF RecordInv, Linked, LoadOrDefault, Readable
  <2>3. CASE pc' # "metaErase" BY <1>2, <2>1, <2>3 DEF MetaPlaces
  <2> QED BY <2>2, <2>3
<1>4. CASE Run BY <1>1, <1>4, RunRecord DEF Run
<1>5. CASE Garbled \/ Lost \/ Deaf
  <2>1. BoardSame /\ host' = host BY <1>5, GarbledAnswer, LostEffect, DeafEffect
  <2> QED BY <1>1, <2>1, SameBoard
<1>6. CASE SwitchOn BY <1>2, <1>6, SwitchOnEffect DEF MetaPlaces
<1>7. CASE ResetBoard
  <2>1. pc' = "off" /\ meta' \in {meta, Unreadable} BY <1>7, ResetEffect
  <2>2. CASE meta' = meta BY <1>2, <2>1, <2>2 DEF MetaPlaces
  <2>3. CASE meta' = Unreadable
    <3>1. LoadOrDefault(meta)' = InitDefault BY <2>3 DEF LoadOrDefault, Readable
    <3>2. Linked(LoadOrDefault(meta))' BY <3>1, DefaultLinked DEF Linked
    <3> QED BY <2>1, <3>2 DEF RecordInv, InMetaOp, MetaPlaces
  <2> QED BY <2>1, <2>2, <2>3
<1>8. CASE UNCHANGED vars BY <1>1, <1>8, SameVars
<1>9. ~LetGo /\ ~Truncated BY WholeFrames
<1> QED BY <1>3, <1>4, <1>5, <1>6, <1>7, <1>8, <1>9
        DEF HostNext, System, HostStep, GarbledReply, StartWrite, StartAbort, StartQuery, StartMeta,
            Start, OnMeta, OnOk, OnShown, OnWrong, ShortRead, Timeout, NextIs, Takes, allVars

-----------------------------------------------------------------------------

LEMMA SessionInit == HostInit => SessionInv
<1> SUFFICES ASSUME HostInit PROVE SessionInv OBVIOUS
<1>1. /\ pc = "off" /\ meta = Unreadable /\ down = <<>> /\ up = <<>> /\ gap = 0
      /\ host.step = "idle" /\ host.result = "none"
  BY DEF HostInit, Init, Closed
<1>2. RecordInv
  BY <1>1, DefaultLinked DEF RecordInv, InMetaOp, MetaPlaces, LoadOrDefault, Readable
<1>3. IdleInv BY <1>1 DEF IdleInv, Booting, InMetaOp, MetaPlaces
<1> QED BY <1>1, <1>2, <1>3 DEF SessionInv, StepInv, FirstInv, FirstSteps, MetaInv, StartInv,
                                HeaderInv, DataInv, EndInv, BootStepInv

LEMMA StepStutter ==
  ASSUME SessionInv, UNCHANGED allVars
  PROVE  StepInv'
<1>1. UNCHANGED vars /\ host' = host /\ down' = down /\ up' = up BY DEF allVars, line
<1>2. /\ BoardSame /\ Booting' = Booting /\ Started' = Started /\ InMetaOp' = InMetaOp
      /\ Installed' = Installed /\ TrialReady(meta)' = TrialReady(meta)
      /\ LoadOrDefault(meta)' = LoadOrDefault(meta)
  BY <1>1, SameVars, SameBoard
<1>3. Image' = Image /\ ImageHeader' = ImageHeader BY <1>1 DEF Image, ImageHeader
<1> USE DEF SessionInv, StepInv
<1>4. IdleInv' BY <1>1, <1>2 DEF IdleInv, BoardSame
<1>5. FirstInv' /\ MetaInv' BY <1>1, <1>2 DEF FirstInv, MetaInv, Outstanding, BoardSame
<1>6. StartInv' BY <1>1, <1>2 DEF StartInv, Outstanding, BoardSame
<1>7. HeaderInv' BY <1>1, <1>2, <1>3 DEF HeaderInv, Outstanding, BoardSame, Received, Holds, HeaderFrame
<1>8. DataInv' BY <1>1, <1>2, <1>3 DEF DataInv, Outstanding, BoardSame, Coming, Received, Holds
<1>9. EndInv'
  BY <1>1, <1>2, <1>3 DEF EndInv, Outstanding, BoardSame, Received, Holds, Names, TrialReady, Readable, Cmd
<1>10. BootStepInv' BY <1>1, <1>2 DEF BootStepInv, Outstanding, BoardSame
<1> QED BY <1>1, <1>4, <1>5, <1>6, <1>7, <1>8, <1>9, <1>10

LEMMA SessionNext ==
  ASSUME TypeInv, TypeInv', ToolInv, AgreeInv, SessionInv, Steady, FlashWorks, [HostNext]_allVars
  PROVE  SessionInv'
<1>1. RecordInv' /\ gap' = 0 /\ ~LetGo /\ ~Truncated BY RecordNext, WholeFrames
<1>2. CASE BoardMove
  <2>1. host.step \in {"idle", "start", "header", "data", "end", "boot"} \cup FirstSteps
    BY DEF ToolInv, HostSteps, FirstSteps
  <2> QED BY <1>1, <1>2, <2>1, IdleBoard, FirstBoard, StartBoard, HeaderBoard, DataBoard, EndBoard,
             BootBoard DEF SessionInv
<1>3. CASE StartWrite \/ StartAbort \/ StartQuery \/ StartMeta
  BY <1>1, <1>3, StartKeeps DEF SessionInv
<1>4. CASE HostStep \/ GarbledReply
  BY <1>1, <1>4, OnMetaKeeps, OnOkKeeps, EndsKeep DEF HostStep, SessionInv
<1>5. CASE UNCHANGED allVars BY <1>1, <1>5, StepStutter DEF SessionInv
<1> QED BY <1>1, <1>2, <1>3, <1>4, <1>5 DEF HostNext, System, BoardMove

LEMMA SessionInvariant ==
  ASSUME Steady, FlashWorks
  PROVE  HostSpec => [](TypeInv /\ ToolInv /\ AgreeInv /\ SessionInv)
<1> DEFINE I == TypeInv /\ ToolInv /\ AgreeInv /\ SessionInv
<1>1. HostInit => I BY ToolInit, TypeInit, AgreeInit, SessionInit DEF HostInit
<1>2. I /\ [HostNext]_allVars => I'
  <2> SUFFICES ASSUME I, [HostNext]_allVars PROVE I' OBVIOUS
  <2>1. [Next]_vars BY BoardStep
  <2>2. TypeInv' /\ AgreeInv' BY <2>1, TypeNext, AgreeNext
  <2>3. ToolInv' BY <2>2, ToolNext
  <2>4. SessionInv' BY <2>2, SessionNext
  <2> QED BY <2>2, <2>3, <2>4
<1> QED BY <1>1, <1>2, PTL DEF HostSpec

\* Frames may get lost and damaged and power may fail between sessions and in the middle of the
\* application's confirmation: when the tool reports that it is done, the board holds the image in
\* the slot of the tool, bit for bit, has accepted it and has started it (bld_host.c:935-1059).
THEOREM SuccessIsReal ==
  ASSUME Steady, FlashWorks
  PROVE  HostSpec => []SuccessIsTrue
<1>1. ToolInv /\ SessionInv => SuccessIsTrue
  <2> SUFFICES ASSUME ToolInv, SessionInv, host.result = "done" PROVE SuccessIsTrue
    BY DEF SuccessIsTrue
  <2>1. Installed /\ trials > 0 BY DEF SessionInv, StepInv, IdleInv
  <2>2. Content(flash, host.target, Len(Image)) = Image BY <2>1, ContentIsImage DEF Installed
  <2> QED BY <2>1, <2>2 DEF SuccessIsTrue, Installed, Names
<1> QED BY <1>1, SessionInvariant, PTL

\* The tool and the board choose the target slot each on its own, and choose the same: a slot that
\* the record describes was written with an image that was linked for it (bld_host.c:833,
\* bld_engine.c:101).
THEOREM ImagesInTheirSlots ==
  ASSUME Steady, FlashWorks
  PROVE  HostSpec => []RightSlot
<1>1. SessionInv => RightSlot
  BY DEF SessionInv, RecordInv, Linked, RightSlot, LoadOrDefault
<1> QED BY <1>1, SessionInvariant, PTL
=============================================================================
