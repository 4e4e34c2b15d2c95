------------------------- MODULE StreamSessionProofs -------------------------
(***************************************************************************)
(* What StreamSession promises for every number of mode changes, every     *)
(* depth of the encoder's pipes and every set of failures: the variables   *)
(* keep their types, the pipes of a stage carry that stage's output only,  *)
(* and no frame follows the VideoConfig, or a frame, of a newer stage.     *)
(***************************************************************************)
EXTENDS StreamSession, TLAPS

\* The pipes of a stage are drained before the stage counts as joined.
JoinedMeansDrained ==
  /\ encReader \in {"off", "done"} => pipe = <<>>
  /\ encReader = "done" => ffmpeg = "dead"
  /\ encReader = "off" => feeder = "off"
  /\ main \in {"portal", "start"} => encReader = "off"

\* Nothing between the encoder and the wire is newer than the encoder.
NothingFromTheFuture ==
  /\ announced <= gen /\ shown <= gen
  /\ \A u \in latest : u <= gen
  /\ \A m \in holding : m.gen <= gen
  /\ \A i \in 1..Len(out) : out[i].gen <= gen

\* The pending unit is at least as new as whatever overtook it.
MailboxIsFresh ==
  \A u \in latest :
    /\ u >= announced /\ u >= shown
    /\ \A m \in holding : m.kind \in {"config", "frame"} => u >= m.gen

\* The writer's message is at least as new as what it has already sent.
WriterIsFresh == NoStaleFrame /\ GenerationsNeverGoBack

\* Frames reach the writer through the mailbox, never through the queue.
OutIsControl == \A i \in 1..Len(out) : out[i].kind # "frame"

\* The part of the invariant that speaks of the data path only.
DataInv ==
  /\ DataTypeOK
  /\ OutIsControl
  /\ StageStartsClean
  /\ NothingFromTheFuture
  /\ MailboxIsFresh
  /\ WriterIsFresh

IInv == ControlTypeOK /\ JoinedMeansDrained /\ DataInv

\* The writer holds a message only while it sends it, and then only that one;
\* it holds none before it exists.
OneInHand ==
  /\ main \in {"portal", "start", "spawn"} => writer = "off"
  /\ writer # "send" => holding = {}
  /\ \A m, n \in holding : m = n

\* Configs reach the wire in the order of their stages: the one in the writer's
\* hand is no newer than those in the queue, the last announced no newer than
\* either.
IsConfig(m) == m.kind = "config"
ConfigsInOrder ==
  /\ \A i, j \in 1..Len(out) :
       i < j /\ IsConfig(out[i]) /\ IsConfig(out[j]) => out[i].gen <= out[j].gen
  /\ \A m \in holding : IsConfig(m) =>
       /\ announced <= m.gen
       /\ \A i \in 1..Len(out) : IsConfig(out[i]) => m.gen <= out[i].gen
  /\ \A i \in 1..Len(out) : IsConfig(out[i]) => announced <= out[i].gen

\* What is said of the VideoConfigs, on top of IInv.
AnnounceInv == OneInHand /\ ConfigsInOrder /\ AnnouncementsKeepUp

data == <<gen, pipe, latest, out, requested, taken, holding, announced, shown>>

\* Groups of variables an action leaves alone, cited by the step lemmas.
USE DEF threads, flags, wire

-----------------------------------------------------------------------------
\* The initial state satisfies the inductive invariant.
LEMMA InitIInv == Init => IInv
<1> SUFFICES ASSUME Init PROVE IInv
  OBVIOUS
<1>1. ControlTypeOK
  BY DEF Init, ControlTypeOK, MainPc, FeederPc, WriterPc
<1>2. DataTypeOK
  BY StreamAssumption DEF StreamAssumption, Init, DataTypeOK
<1>3. StageStartsClean /\ JoinedMeansDrained /\ OutIsControl
  BY DEF Init, StageStartsClean, JoinedMeansDrained, OutIsControl
<1>4. NothingFromTheFuture
  BY DEF Init, NothingFromTheFuture
<1>5. MailboxIsFresh /\ WriterIsFresh
  BY DEF Init, MailboxIsFresh, WriterIsFresh, NoStaleFrame,
         GenerationsNeverGoBack, Frames
<1> QED
  BY <1>1, <1>2, <1>3, <1>4, <1>5 DEF IInv, DataInv

-----------------------------------------------------------------------------
\* Every step keeps the control state well typed.
LEMMA ControlStep == ControlTypeOK /\ [Next]_vars => ControlTypeOK'
<1> SUFFICES ASSUME ControlTypeOK, [Next]_vars PROVE ControlTypeOK'
  OBVIOUS
<1> USE DEF ControlTypeOK, MainPc, FeederPc, WriterPc
<1>1. CASE PortalApproved \/ PortalRefused
  BY <1>1 DEF PortalApproved, PortalRefused
<1>2. CASE MainStep
  BY <1>2 DEF MainStep, FirstStageStarts, FirstStageFails, SpawnWriter,
       SocketCloneFails, AnnounceFirst, MainChecksStop, MainTimesOut,
       MainTakesMode, StageRestarts, StageRestartFails, Announce, SessionEnds,
       StartStage
<1>3. CASE CapturePublishes \/ CaptureStops \/ CaptureFails
  BY <1>3 DEF CapturePublishes, CaptureStops, CaptureFails
<1>4. CASE FeederStep \/ FfmpegExits \/ FfmpegDies \/ EncReaderStep
  BY <1>4 DEF FeederStep, FeederTakes, FeederSeesStop, FeederWrites,
       FeederWriteFails, FfmpegExits, FfmpegDies, EncReaderStep,
       EncReaderPublishes, EncReaderEnds
<1>5. CASE WriterStep
  BY <1>5 DEF WriterStep, WriterChecksStop, WriterDrains, WriterDrained,
       WriterTakes, WriterTimesOut, WriterSends, WriterSendFails, WriterGone
<1>6. CASE ReadsSetMode \/ ReadsPing \/ ReadsEof \/ ReadFails \/ WatchdogStep
  BY <1>6 DEF ReadsSetMode, ReadsPing, ReadsEof, ReadFails, NetReaderDone,
       WatchdogStep, WatchdogQuits, WatchdogReports
<1>7. CASE PeerCloses \/ PeerVanishes \/ KeepaliveExpires \/ TakenOver
  BY <1>7 DEF PeerCloses, PeerVanishes, KeepaliveExpires, TakenOver
<1>8. CASE UNCHANGED vars
  BY <1>8 DEF vars
<1> QED
  BY <1>1, <1>2, <1>3, <1>4, <1>5, <1>6, <1>7, <1>8 DEF Next

\* Every step keeps the pipes of an ended stage empty.
LEMMA JoinedStep == IInv /\ [Next]_vars => JoinedMeansDrained'
<1> SUFFICES ASSUME IInv, [Next]_vars PROVE JoinedMeansDrained'
  OBVIOUS
<1> USE DEF IInv, JoinedMeansDrained, ControlTypeOK
<1>1. CASE PortalApproved \/ PortalRefused
  BY <1>1 DEF PortalApproved, PortalRefused
<1>2. CASE MainStep
  BY <1>2 DEF MainStep, FirstStageStarts, FirstStageFails, SpawnWriter,
       SocketCloneFails, AnnounceFirst, MainChecksStop, MainTimesOut,
       MainTakesMode, StageRestarts, StageRestartFails, Announce, SessionEnds,
       StartStage
<1>3. CASE CapturePublishes \/ CaptureStops \/ CaptureFails
  BY <1>3 DEF CapturePublishes, CaptureStops, CaptureFails
<1>4. CASE FeederStep \/ FfmpegExits \/ EncReaderEnds
  BY <1>4 DEF FeederStep, FeederTakes, FeederSeesStop, FeederWrites,
       FeederWriteFails, FfmpegExits, EncReaderEnds
<1>5. CASE FfmpegDies \/ EncReaderPublishes
  <2>1. encReader = "up" \/ pipe = <<>>
    OBVIOUS
  <2>2. encReader \in {"off", "done"} => pipe' = <<>>
    BY <1>5, <2>1 DEF FfmpegDies, EncReaderPublishes
  <2> QED
    BY <1>5, <2>2 DEF FfmpegDies, EncReaderPublishes
<1>6. CASE WriterStep
  BY <1>6 DEF WriterStep, WriterChecksStop, WriterDrains, WriterDrained,
       WriterTakes, WriterTimesOut, WriterSends, WriterSendFails
<1>7. CASE ReadsSetMode \/ ReadsPing \/ ReadsEof \/ ReadFails \/ WatchdogStep
  BY <1>7 DEF ReadsSetMode, ReadsPing, ReadsEof, ReadFails, NetReaderDone,
       WatchdogStep, WatchdogQuits, WatchdogReports
<1>8. CASE PeerCloses \/ PeerVanishes \/ KeepaliveExpires \/ TakenOver
  BY <1>8 DEF PeerCloses, PeerVanishes, KeepaliveExpires, TakenOver
<1>9. CASE UNCHANGED vars
  BY <1>9 DEF vars
<1> QED
  BY <1>1, <1>2, <1>3, <1>4, <1>5, <1>6, <1>7, <1>8, <1>9
  DEF Next, EncReaderStep

-----------------------------------------------------------------------------
\* A step that leaves the data path alone keeps what is said of it.
LEMMA DataUnchanged == DataInv /\ UNCHANGED data => DataInv'
  BY DEF data, DataInv, DataTypeOK, OutIsControl, StageStartsClean, NothingFromTheFuture,
         MailboxIsFresh, WriterIsFresh, NoStaleFrame, GenerationsNeverGoBack, Frames

\* A new generation starts on drained pipes.
LEMMA NewStage ==
  ASSUME IInv, pipe = <<>>, StartStage,
         UNCHANGED <<pipe, latest, out, requested, taken, wire>>
  PROVE  DataInv'
<1> USE DEF StartStage, IInv, DataInv
<1>1. DataTypeOK'
  BY DEF DataTypeOK
<1>2. StageStartsClean' /\ OutIsControl'
  BY DEF StageStartsClean, OutIsControl
<1>3. NothingFromTheFuture'
  <2> DEFINE older(g) == g <= gen => g <= gen'
  <2>1. gen \in Nat /\ gen' = gen + 1 /\ latest \subseteq Nat
        /\ announced \in Nat /\ shown \in Nat
    BY DEF DataTypeOK
  <2>2. \A g \in Nat : older(g)
    BY <2>1
  <2>3. /\ \A m \in holding : m.gen \in Nat
        /\ \A i \in 1..Len(out) : out[i].gen \in Nat
    <3>1. \A i \in 1..Len(out) : out[i] \in Message
      BY DEF DataTypeOK
    <3>2. \A m \in Message : m.gen \in Nat
      BY DEF Message
    <3> QED
      BY <3>1, <3>2 DEF DataTypeOK
  <2> QED
    BY <2>1, <2>2, <2>3 DEF NothingFromTheFuture
<1>4. MailboxIsFresh' /\ WriterIsFresh'
  BY DEF MailboxIsFresh, WriterIsFresh, NoStaleFrame, GenerationsNeverGoBack,
         Frames
<1> QED
  BY <1>1, <1>2, <1>3, <1>4

\* Queueing a message of the current generation, or one without a generation.
LEMMA QueueStep ==
  ASSUME IInv, NEW m \in Message, m.gen <= gen, m.kind # "frame", Queued(m),
         UNCHANGED <<gen, pipe, latest, requested, taken, wire>>
  PROVE  DataInv'
<1> USE DEF IInv, DataInv
<1>1. /\ out' \in Seq(Message)
      /\ \A i \in 1..Len(out') : out'[i].gen <= gen /\ out'[i].kind # "frame"
  BY DEF Queued, DataTypeOK, NothingFromTheFuture, OutIsControl
<1>2. DataTypeOK' /\ NothingFromTheFuture' /\ OutIsControl'
  BY <1>1 DEF DataTypeOK, NothingFromTheFuture, OutIsControl
<1>3. StageStartsClean' /\ MailboxIsFresh' /\ WriterIsFresh'
  BY DEF StageStartsClean, MailboxIsFresh, WriterIsFresh, NoStaleFrame,
         GenerationsNeverGoBack, Frames
<1> QED
  BY <1>2, <1>3

\* The steps that move units through the encoder's pipes.
LEMMA PipeStep ==
  ASSUME IInv, FeederWrites \/ FfmpegDies \/ EncReaderPublishes \/ EncReaderEnds
  PROVE  DataInv'
<1> USE DEF IInv, DataInv
<1>1. CASE FeederWrites
  <2>1. /\ pipe' \in Seq(Nat) /\ Len(pipe') <= Depth
        /\ \A i \in 1..Len(pipe') : pipe'[i] = gen
    BY <1>1, StreamAssumption
    DEF FeederWrites, DataTypeOK, StageStartsClean, StreamAssumption
  <2> QED
    BY <1>1, <2>1 DEF FeederWrites, DataTypeOK, OutIsControl, StageStartsClean,
       NothingFromTheFuture, MailboxIsFresh, WriterIsFresh, NoStaleFrame,
       GenerationsNeverGoBack, Frames
<1>2. CASE FfmpegDies
  <2>1. PICK n \in 0..Len(pipe) : pipe' = SubSeq(pipe, 1, n)
    BY <1>2 DEF FfmpegDies
  <2>2. /\ pipe' \in Seq(Nat) /\ Len(pipe') = n
        /\ \A i \in 1..n : pipe'[i] = pipe[i]
    BY <2>1 DEF DataTypeOK
  <2>3. Len(pipe') <= Depth /\ \A i \in 1..Len(pipe') : pipe'[i] = gen
    <3>1. Len(pipe) \in Nat /\ Len(pipe) <= Depth /\ Depth \in Nat
      BY StreamAssumption DEF DataTypeOK, StreamAssumption
    <3>2. n \in Nat /\ n <= Len(pipe) /\ n <= Depth
      BY <3>1
    <3> QED
      BY <2>2, <3>2 DEF StageStartsClean
  <2> QED
    BY <1>2, <2>2, <2>3 DEF FfmpegDies, DataTypeOK, OutIsControl, StageStartsClean,
       NothingFromTheFuture, MailboxIsFresh, WriterIsFresh, NoStaleFrame,
       GenerationsNeverGoBack, Frames
<1>3. CASE EncReaderPublishes
  <2>1. Len(pipe) > 1 /\ pipe' = Tail(pipe) /\ latest' = {Head(pipe)}
    BY <1>3 DEF EncReaderPublishes
  <2>2. Head(pipe) = gen /\ pipe' \in Seq(Nat) /\ Len(pipe') = Len(pipe) - 1
        /\ \A i \in 1..Len(pipe') : pipe'[i] = pipe[i + 1]
    BY <2>1 DEF DataTypeOK, StageStartsClean
  <2>3. Len(pipe') <= Depth /\ \A i \in 1..Len(pipe') : pipe'[i] = gen
    BY <2>2, StreamAssumption DEF DataTypeOK, StageStartsClean, StreamAssumption
  <2>4. DataTypeOK' /\ StageStartsClean' /\ OutIsControl'
    BY <1>3, <2>1, <2>2, <2>3
    DEF EncReaderPublishes, DataTypeOK, StageStartsClean, OutIsControl
  <2>5. NothingFromTheFuture' /\ WriterIsFresh'
    BY <1>3, <2>1, <2>2 DEF EncReaderPublishes, DataTypeOK, NothingFromTheFuture,
       WriterIsFresh, NoStaleFrame, GenerationsNeverGoBack, Frames
  <2>6. MailboxIsFresh'
    BY <1>3, <2>1, <2>2 DEF EncReaderPublishes, NothingFromTheFuture, MailboxIsFresh
  <2> QED
    BY <2>4, <2>5, <2>6
<1>4. CASE EncReaderEnds
  <2>1. pipe' \in Seq(Nat) /\ Len(pipe') = 0
    BY <1>4 DEF EncReaderEnds
  <2> QED
    BY <1>4, <2>1, StreamAssumption
    DEF EncReaderEnds, StreamAssumption, DataTypeOK, OutIsControl, StageStartsClean,
        NothingFromTheFuture, MailboxIsFresh, WriterIsFresh, NoStaleFrame,
        GenerationsNeverGoBack, Frames
<1> QED
  BY <1>1, <1>2, <1>3, <1>4

\* The writer drains the queue, clearing the mailbox before a Reconfigure.
LEMMA DrainStep ==
  ASSUME IInv, WriterDrains
  PROVE  DataInv'
<1> USE DEF IInv, DataInv
<1> DEFINE h == Head(out)
<1>1. out # <<>> /\ out' = Tail(out) /\ holding' = {h}
      /\ latest' = (IF h.kind = "config" THEN {} ELSE latest)
      /\ UNCHANGED <<gen, pipe, requested, taken, announced, shown>>
  BY DEF WriterDrains
<1>2. h = out[1] /\ h \in Message /\ h.gen <= gen
  BY <1>1 DEF DataTypeOK, NothingFromTheFuture
<1>3. /\ out' \in Seq(Message)
      /\ \A i \in 1..Len(out') : out'[i].gen <= gen /\ out'[i].kind # "frame"
  <2>1. Len(out') = Len(out) - 1 /\ \A i \in 1..Len(out') : out'[i] = out[i + 1]
    BY <1>1 DEF DataTypeOK
  <2> QED
    BY <1>1, <2>1 DEF DataTypeOK, NothingFromTheFuture, OutIsControl
<1>4. DataTypeOK'
  BY <1>1, <1>2, <1>3 DEF DataTypeOK
<1>5. StageStartsClean' /\ OutIsControl'
  BY <1>1, <1>3 DEF StageStartsClean, OutIsControl
<1>6. NothingFromTheFuture'
  BY <1>1, <1>2, <1>3 DEF NothingFromTheFuture
<1>7. h.kind # "frame"
  BY <1>1, <1>2 DEF OutIsControl, DataTypeOK
<1>8. MailboxIsFresh' /\ WriterIsFresh'
  BY <1>1, <1>7 DEF MailboxIsFresh, WriterIsFresh, NoStaleFrame,
     GenerationsNeverGoBack, Frames
<1> QED
  BY <1>4, <1>5, <1>6, <1>8

\* The writer takes the pending unit, sends, or leaves.
LEMMA WriteStep ==
  ASSUME IInv, WriterTakes \/ WriterSends \/ WriterSendFails \/ WriterChecksStop
  PROVE  DataInv'
<1> USE DEF IInv, DataInv
<1>1. CASE WriterTakes
  <2>1. PICK u \in latest : holding' = {Frame(u)}
    BY <1>1 DEF WriterTakes
  <2>2. Frame(u) \in Message /\ Frame(u).gen = u /\ u <= gen
        /\ u >= announced /\ u >= shown
    BY <2>1 DEF Frame, Message, DataTypeOK, MailboxIsFresh, NothingFromTheFuture
  <2>3. latest' = {} /\ UNCHANGED <<gen, pipe, out, requested, taken, announced, shown>>
    BY <1>1 DEF WriterTakes
  <2>4. DataTypeOK'
    BY <2>1, <2>2, <2>3 DEF DataTypeOK
  <2>5. StageStartsClean' /\ NothingFromTheFuture' /\ OutIsControl'
    BY <2>1, <2>2, <2>3 DEF StageStartsClean, NothingFromTheFuture, OutIsControl
  <2>6. MailboxIsFresh' /\ WriterIsFresh'
    BY <2>1, <2>2, <2>3 DEF MailboxIsFresh, WriterIsFresh, NoStaleFrame,
       GenerationsNeverGoBack, Frames
  <2> QED
    BY <2>4, <2>5, <2>6
<1>2. CASE WriterSends
  <2>1. PICK m \in holding :
          /\ announced' = IF m.kind = "config" THEN m.gen ELSE announced
          /\ shown' = IF m.kind = "frame" THEN m.gen ELSE shown
    BY <1>2 DEF WriterSends
  <2>2. m.gen \in Nat /\ m.gen <= gen
    BY <2>1 DEF DataTypeOK, Message, NothingFromTheFuture
  <2>3. holding' = {} /\ UNCHANGED <<gen, pipe, latest, out, requested, taken>>
    BY <1>2 DEF WriterSends
  <2>4. DataTypeOK'
    BY <2>1, <2>2, <2>3 DEF DataTypeOK
  <2>5. StageStartsClean' /\ NothingFromTheFuture' /\ OutIsControl'
    BY <2>1, <2>2, <2>3 DEF StageStartsClean, NothingFromTheFuture, OutIsControl
  <2>6. MailboxIsFresh' /\ WriterIsFresh'
    BY <2>1, <2>2, <2>3 DEF MailboxIsFresh, WriterIsFresh, NoStaleFrame,
       GenerationsNeverGoBack, Frames
  <2> QED
    BY <2>4, <2>5, <2>6
<1>3. CASE WriterSendFails \/ WriterChecksStop
  <2>1. /\ out' = out \/ out' = <<>>
        /\ holding' = holding \/ holding' = {}
        /\ UNCHANGED <<gen, pipe, latest, requested, taken, announced, shown>>
    BY <1>3 DEF WriterSendFails, WriterChecksStop, WriterGone
  <2>2. DataTypeOK'
    <3>1. out' \in Seq(Message)
      <4>1. out \in Seq(Message)
        BY DEF DataTypeOK
      <4>2. <<>> \in Seq(Message)
        OBVIOUS
      <4> QED
        BY <2>1, <4>1, <4>2
    <3>2. holding' \subseteq Message
      BY <2>1 DEF DataTypeOK
    <3> QED
      BY <2>1, <3>1, <3>2 DEF DataTypeOK
  <2>3. OutIsControl' /\ StageStartsClean' /\ NothingFromTheFuture'
    BY <2>1 DEF OutIsControl, StageStartsClean, NothingFromTheFuture
  <2>4. MailboxIsFresh' /\ WriterIsFresh'
    BY <2>1 DEF MailboxIsFresh, WriterIsFresh, NoStaleFrame,
       GenerationsNeverGoBack, Frames
  <2> QED
    BY <2>2, <2>3, <2>4
<1> QED
  BY <1>1, <1>2, <1>3

-----------------------------------------------------------------------------
\* Every step keeps what is said of the data path.
LEMMA DataStep == IInv /\ [Next]_vars => DataInv'
<1> SUFFICES ASSUME IInv, [Next]_vars PROVE DataInv'
  OBVIOUS
<1> USE DEF IInv
<1>1. CASE UNCHANGED data
  BY <1>1, DataUnchanged
<1>2. CASE FirstStageStarts \/ StageRestarts
  <2>1. pipe = <<>>
    BY <1>2 DEF JoinedMeansDrained, FirstStageStarts, StageRestarts, StageJoined
  <2> QED
    BY <1>2, <2>1, NewStage DEF FirstStageStarts, StageRestarts
<1>3. CASE AnnounceFirst \/ Announce
  <2>1. Config(gen) \in Message /\ Config(gen).gen <= gen
        /\ Config(gen).kind # "frame"
    BY DEF Config, Message, DataInv, DataTypeOK
  <2> QED
    BY <1>3, <2>1, QueueStep DEF AnnounceFirst, Announce
<1>4. CASE CaptureFails \/ ReadsPing \/ WatchdogReports
  <2>1. PICK k \in {"capture", "pong", "no_video"} : Queued(Plain(k))
    BY <1>4 DEF CaptureFails, ReadsPing, WatchdogReports
  <2>2. Plain(k) \in Message /\ Plain(k).gen = 0 /\ Plain(k).kind # "frame"
    BY DEF Plain, Message
  <2>3. UNCHANGED <<gen, pipe, latest, requested, taken, wire>>
    BY <1>4 DEF CaptureFails, ReadsPing, WatchdogReports
  <2>4. Plain(k).gen <= gen
    BY <2>2 DEF DataInv, DataTypeOK
  <2> QED
    BY <2>1, <2>2, <2>3, <2>4, QueueStep
<1>5. CASE MainTakesMode \/ ReadsSetMode
  <2>1. UNCHANGED <<gen, pipe, latest, out, holding, announced, shown>>
    BY <1>5 DEF MainTakesMode, ReadsSetMode
  <2>2. requested' \in Nat /\ taken' \in 0..requested'
    BY <1>5 DEF MainTakesMode, ReadsSetMode, DataInv, DataTypeOK
  <2>3. DataTypeOK'
    BY <2>1, <2>2 DEF DataInv, DataTypeOK
  <2>4. OutIsControl' /\ StageStartsClean' /\ NothingFromTheFuture'
    BY <2>1 DEF DataInv, OutIsControl, StageStartsClean, NothingFromTheFuture
  <2>5. MailboxIsFresh' /\ WriterIsFresh'
    BY <2>1 DEF DataInv, MailboxIsFresh, WriterIsFresh, NoStaleFrame,
       GenerationsNeverGoBack, Frames
  <2> QED
    BY <2>3, <2>4, <2>5 DEF DataInv
<1>6. CASE FeederWrites \/ FfmpegDies \/ EncReaderStep
  BY <1>6, PipeStep DEF EncReaderStep
<1>7. CASE WriterDrains
  BY <1>7, DrainStep
<1>8. CASE WriterTakes \/ WriterSends \/ WriterSendFails \/ WriterChecksStop
  BY <1>8, WriteStep
<1>9. CASE PortalApproved \/ PortalRefused \/ FirstStageFails \/ SpawnWriter
           \/ SocketCloneFails \/ MainChecksStop \/ MainTimesOut
           \/ StageRestartFails \/ SessionEnds
  BY <1>1, <1>9 DEF PortalApproved, PortalRefused, FirstStageFails, SpawnWriter,
     SocketCloneFails, MainChecksStop, MainTimesOut, StageRestartFails,
     SessionEnds, data
<1>10. CASE \/ CapturePublishes \/ CaptureStops \/ FeederTakes
            \/ FeederSeesStop \/ FeederWriteFails \/ FfmpegExits
            \/ WriterDrained \/ WriterTimesOut
  BY <1>1, <1>10 DEF CapturePublishes, CaptureStops, FeederTakes, FeederSeesStop,
     FeederWriteFails, FfmpegExits, WriterDrained, WriterTimesOut, data
<1>11. CASE \/ ReadsEof \/ ReadFails \/ WatchdogQuits \/ PeerCloses
            \/ PeerVanishes \/ KeepaliveExpires \/ TakenOver
  BY <1>1, <1>11 DEF ReadsEof, ReadFails, NetReaderDone, WatchdogQuits, PeerCloses,
     PeerVanishes, KeepaliveExpires, TakenOver, data
<1>12. CASE UNCHANGED vars
  BY <1>1, <1>12 DEF vars, data
<1> QED
  BY <1>2, <1>3, <1>4, <1>5, <1>6, <1>7, <1>8, <1>9, <1>10, <1>11, <1>12
  DEF Next, MainStep, FeederStep, WriterStep, WatchdogStep

-----------------------------------------------------------------------------
(* VideoConfigs.                                                           *)

\* What AnnouncementsKeepUp says, element by element.
LEMMA ConfigsQueuedMembers ==
  /\ \A g : g \in ConfigsQueued <=>
       \/ \E i \in 1..Len(out) : IsConfig(out[i]) /\ out[i].gen = g
       \/ \E m \in holding : IsConfig(m) /\ m.gen = g
  /\ \A g : g \in ConfigsQueued' <=>
       \/ \E i \in 1..Len(out') : IsConfig(out'[i]) /\ out'[i].gen = g
       \/ \E m \in holding' : IsConfig(m) /\ m.gen = g
  BY DEF ConfigsQueued, IsConfig

\* A step that leaves the messages and the stage alone, and does not bring the
\* main loop back to its receive loop.
LEMMA AnnounceUnchanged ==
  ASSUME AnnounceInv, UNCHANGED <<gen, out, holding, announced>>,
         writer' = "send" \/ holding = {},
         main' \in {"check", "recv"} => main \in {"check", "recv"},
         writer' # "done" => writer # "done" \/ main' \notin {"check", "recv"},
         main' \in {"portal", "start", "spawn"} => main \in {"portal", "start", "spawn"},
         writer' = writer \/ writer \notin {"off", "done"}
  PROVE  AnnounceInv'
  BY DEF AnnounceInv, OneInHand, ConfigsInOrder, IsConfig, AnnouncementsKeepUp,
         ConfigsQueued

\* A new stage is not announced yet, and is newer than all that is.
LEMMA AnnounceNewStage ==
  ASSUME AnnounceInv, main' \notin {"check", "recv"},
         main' = "spawn" => main = "start", main' \notin {"portal", "start"},
         UNCHANGED <<out, holding, announced, writer>>
  PROVE  AnnounceInv'
  BY DEF AnnounceInv, OneInHand, ConfigsInOrder, IsConfig, AnnouncementsKeepUp

\* A message that is no config joins the queue, or is lost with it.
LEMMA AnnounceQueuePlain ==
  ASSUME IInv, AnnounceInv, NEW m \in Message, ~IsConfig(m), Queued(m),
         UNCHANGED <<main, writer, gen, holding, announced>>
  PROVE  AnnounceInv'
<1> USE DEF AnnounceInv, IsConfig
<1>1. \/ out' = out
      \/ /\ Len(out') = Len(out) + 1 /\ out'[Len(out) + 1] = m
         /\ \A i \in 1..Len(out) : out'[i] = out[i]
  BY DEF Queued, IInv, DataInv, DataTypeOK
<1>2. Len(out) \in Nat
  BY DEF IInv, DataInv, DataTypeOK
<1>3. OneInHand' /\ ConfigsInOrder'
  BY <1>1, <1>2 DEF OneInHand, ConfigsInOrder
<1>4. ASSUME gen \in ConfigsQueued PROVE gen \in ConfigsQueued'
  BY <1>1, <1>2, <1>4, ConfigsQueuedMembers
<1> QED
  BY <1>3, <1>4 DEF AnnouncementsKeepUp

\* The config of the running stage joins the queue: it is the newest there.
LEMMA AnnounceQueueConfig ==
  ASSUME IInv, AnnounceInv, Queued(Config(gen)), main' = "check",
         UNCHANGED <<writer, gen, holding, announced>>
  PROVE  AnnounceInv'
<1> USE DEF AnnounceInv, IsConfig, IInv, DataInv
<1>1. Config(gen).kind = "config" /\ Config(gen).gen = gen
      /\ Config(gen) \in Message
  BY DEF Config, Message, DataTypeOK
<1>2. \/ writer = "done" /\ out' = out
      \/ /\ Len(out') = Len(out) + 1 /\ out'[Len(out) + 1] = Config(gen)
         /\ \A i \in 1..Len(out) : out'[i] = out[i]
  BY <1>1 DEF Queued, DataTypeOK
<1>3. Len(out) \in Nat
  BY DEF DataTypeOK
<1>4. OneInHand' /\ ConfigsInOrder'
  <2>1. announced <= gen /\ \A m \in holding : m.gen <= gen
    BY DEF NothingFromTheFuture
  <2>2. \A i \in 1..Len(out) : out[i].gen <= gen
    BY DEF NothingFromTheFuture
  <2>3. OneInHand'
    BY DEF OneInHand
  <2>4. CASE out' = out
    BY <2>3, <2>4 DEF ConfigsInOrder
  <2>5. CASE out' # out
    <3>1. \A i \in 1..Len(out') :
            \/ i \in 1..Len(out) /\ out'[i] = out[i]
            \/ i = Len(out) + 1 /\ out'[i] = Config(gen)
      <4>1. Len(out') = Len(out) + 1
        BY <1>2, <2>5
      <4>2. \A i \in 1..Len(out') : i \in 1..Len(out) \/ i = Len(out) + 1
        BY <1>3, <4>1
      <4>3. out'[Len(out) + 1] = Config(gen)
            /\ \A i \in 1..Len(out) : out'[i] = out[i]
        BY <1>2, <2>5
      <4> QED
        BY <4>2, <4>3
    <3>2. \A i, j \in 1..Len(out') :
            i < j /\ IsConfig(out'[i]) /\ IsConfig(out'[j])
              => out'[i].gen <= out'[j].gen
      BY <1>1, <1>3, <2>2, <3>1 DEF ConfigsInOrder
    <3> QED
      BY <1>1, <2>1, <2>3, <3>1, <3>2 DEF ConfigsInOrder
  <2> QED
    BY <2>4, <2>5
<1>5. writer' # "done" => gen' \in ConfigsQueued'
  BY <1>1, <1>2, <1>3, ConfigsQueuedMembers
<1> QED
  BY <1>4, <1>5 DEF AnnouncementsKeepUp

\* The head of the queue goes to the hand, which is empty.
LEMMA AnnounceDrain ==
  ASSUME IInv, AnnounceInv, WriterDrains
  PROVE  AnnounceInv'
<1> USE DEF AnnounceInv, IsConfig
<1>1. /\ out # <<>> /\ holding = {} /\ holding' = {out[1]}
      /\ Len(out') = Len(out) - 1 /\ Len(out) \in Nat \ {0}
      /\ \A i \in 1..Len(out') : out'[i] = out[i + 1]
      /\ writer' = "send" /\ writer = "drain"
      /\ UNCHANGED <<main, gen, announced>>
  BY DEF WriterDrains, IInv, DataInv, DataTypeOK, OneInHand
<1>2. OneInHand' /\ ConfigsInOrder'
  <2>1. \A i \in 1..Len(out') :
          i + 1 \in 2..Len(out) /\ out'[i] = out[i + 1]
    BY <1>1
  <2>2. \A i, j \in 1..Len(out') : i < j => i + 1 < j + 1
    BY <1>1
  <2>3. \A i \in 2..Len(out) : i \in 1..Len(out) /\ 1 \in 1..Len(out) /\ 1 < i
    BY <1>1
  <2>4. OneInHand'
    BY <1>1 DEF OneInHand
  <2>5. \A i, j \in 1..Len(out') :
          i < j /\ IsConfig(out'[i]) /\ IsConfig(out'[j])
            => out'[i].gen <= out'[j].gen
    BY <2>1, <2>2, <2>3 DEF ConfigsInOrder
  <2>6. \A m \in holding' : IsConfig(m) =>
          /\ announced' <= m.gen
          /\ \A i \in 1..Len(out') : IsConfig(out'[i]) => m.gen <= out'[i].gen
    BY <1>1, <2>1, <2>3 DEF ConfigsInOrder
  <2>7. \A i \in 1..Len(out') : IsConfig(out'[i]) => announced' <= out'[i].gen
    BY <1>1, <2>1, <2>3 DEF ConfigsInOrder
  <2> QED
    BY <2>4, <2>5, <2>6, <2>7 DEF ConfigsInOrder
<1>3. ASSUME gen \in ConfigsQueued PROVE gen \in ConfigsQueued'
  <2>1. PICK i \in 1..Len(out) : IsConfig(out[i]) /\ out[i].gen = gen
    BY <1>1, <1>3, ConfigsQueuedMembers
  <2>2. CASE i = 1
    BY <1>1, <2>1, <2>2, ConfigsQueuedMembers
  <2>3. CASE i > 1
    <3>1. i - 1 \in 1..Len(out') /\ out'[i - 1] = out[i]
      BY <1>1, <2>3
    <3> QED
      BY <2>1, <3>1, ConfigsQueuedMembers
  <2> QED
    BY <2>2, <2>3
<1> QED
  BY <1>1, <1>2, <1>3 DEF AnnouncementsKeepUp

\* What has been sent leaves the hand; a config is then the one announced last,
\* and no older than the one before it.
LEMMA AnnounceSend ==
  ASSUME IInv, AnnounceInv, WriterSends
  PROVE  AnnounceInv'
<1> USE DEF AnnounceInv, IsConfig
<1>1. PICK m \in holding :
        /\ writer' = IF m.kind = "frame" THEN "top" ELSE "drain"
        /\ announced' = IF m.kind = "config" THEN m.gen ELSE announced
  BY DEF WriterSends
<1>2. holding' = {} /\ writer' # "done" /\ writer # "done"
      /\ UNCHANGED <<main, gen, out>>
  BY <1>1 DEF WriterSends
<1>3. OneInHand' /\ ConfigsInOrder'
  BY <1>1, <1>2 DEF OneInHand, ConfigsInOrder
<1>4. CASE m.kind = "config"
  <2>1. announced' = m.gen /\ announced <= m.gen /\ m.gen <= gen
        /\ {announced, gen, m.gen} \subseteq Nat
    BY <1>1, <1>4 DEF ConfigsInOrder, IInv, DataInv, DataTypeOK, Message,
       NothingFromTheFuture
  <2>2. gen = announced => gen' = announced'
    BY <1>2, <2>1
  <2>3. ASSUME gen \in ConfigsQueued
        PROVE  gen' = announced' \/ gen' \in ConfigsQueued'
    BY <1>1, <1>2, <2>1, <2>3, ConfigsQueuedMembers DEF OneInHand
  <2> QED
    BY <1>2, <1>3, <2>2, <2>3 DEF AnnouncementsKeepUp
<1>5. CASE m.kind # "config"
  <2>1. gen \in ConfigsQueued => gen \in ConfigsQueued'
    BY <1>1, <1>2, <1>5, ConfigsQueuedMembers DEF OneInHand
  <2> QED
    BY <1>1, <1>2, <1>3, <1>5, <2>1 DEF AnnouncementsKeepUp
<1> QED
  BY <1>4, <1>5

\* The writer leaves: what is queued is lost, and nobody is told anything more.
LEMMA AnnounceGone ==
  ASSUME AnnounceInv, WriterGone, writer # "off", holding' = {},
         UNCHANGED <<main, gen, announced>>
  PROVE  AnnounceInv'
<1>1. Len(out') = 0
  BY DEF WriterGone
<1>2. OneInHand' /\ ConfigsInOrder'
  BY <1>1 DEF AnnounceInv, OneInHand, ConfigsInOrder, IsConfig, WriterGone
<1> QED
  BY <1>2 DEF AnnounceInv, AnnouncementsKeepUp, WriterGone

\* Every step keeps what is said of the VideoConfigs.
LEMMA AnnounceStep == IInv /\ AnnounceInv /\ [Next]_vars => AnnounceInv'
<1> SUFFICES ASSUME IInv, AnnounceInv, [Next]_vars PROVE AnnounceInv'
  OBVIOUS
<1>0. writer # "send" => holding = {}
  BY DEF AnnounceInv, OneInHand
<1>1. CASE FirstStageStarts \/ StageRestarts
  BY <1>1, AnnounceNewStage DEF FirstStageStarts, StageRestarts
<1>2. CASE AnnounceFirst \/ Announce
  BY <1>2, AnnounceQueueConfig DEF AnnounceFirst, Announce
<1>3. CASE CaptureFails \/ ReadsPing \/ WatchdogReports
  <2>1. PICK k \in {"capture", "pong", "no_video"} : Queued(Plain(k))
    BY <1>3 DEF CaptureFails, ReadsPing, WatchdogReports
  <2>2. Plain(k) \in Message /\ ~IsConfig(Plain(k))
    BY DEF Plain, Message, IsConfig
  <2>3. UNCHANGED <<main, writer, gen, holding, announced>>
    BY <1>3 DEF CaptureFails, ReadsPing, WatchdogReports
  <2> QED
    BY <2>1, <2>2, <2>3, AnnounceQueuePlain
<1>4. CASE WriterDrains
  BY <1>4, AnnounceDrain
<1>5. CASE WriterSends
  BY <1>5, AnnounceSend
<1>6. CASE WriterSendFails
  BY <1>6, AnnounceGone DEF WriterSendFails
<1>7. CASE WriterChecksStop
  <2>1. holding = {} /\ holding' = {} /\ UNCHANGED <<main, gen, announced>>
    BY <1>0, <1>7 DEF WriterChecksStop
  <2>2. CASE WriterGone
    BY <1>7, <2>1, <2>2, AnnounceGone DEF WriterChecksStop
  <2>3. CASE UNCHANGED out /\ writer' = "drain"
    BY <1>7, <2>1, <2>3, AnnounceUnchanged DEF WriterChecksStop
  <2> QED
    BY <1>7, <2>2, <2>3 DEF WriterChecksStop
<1>8. CASE WriterTakes
  <2>1. PICK u \in latest : holding' = {Frame(u)}
    BY <1>8 DEF WriterTakes
  <2>2. holding = {} /\ writer' = "send" /\ writer = "take"
        /\ UNCHANGED <<main, gen, out, announced>>
    BY <1>0, <1>8 DEF WriterTakes
  <2>3. ~IsConfig(Frame(u))
    BY DEF Frame, IsConfig
  <2>4. OneInHand' /\ ConfigsInOrder'
    BY <2>1, <2>2, <2>3 DEF AnnounceInv, OneInHand, ConfigsInOrder, IsConfig
  <2>5. gen \in ConfigsQueued => gen \in ConfigsQueued'
    BY <2>1, <2>2, ConfigsQueuedMembers
  <2> QED
    BY <2>2, <2>4, <2>5 DEF AnnounceInv, AnnouncementsKeepUp
<1>9. CASE \/ PortalApproved \/ PortalRefused \/ FirstStageFails
           \/ SocketCloneFails \/ MainChecksStop \/ MainTimesOut
           \/ MainTakesMode \/ StageRestartFails \/ SessionEnds
  BY <1>0, <1>9, AnnounceUnchanged
  DEF PortalApproved, PortalRefused, FirstStageFails, SocketCloneFails,
      MainChecksStop, MainTimesOut, MainTakesMode, StageRestartFails, SessionEnds
<1>10. CASE SpawnWriter
  BY <1>10 DEF SpawnWriter, AnnounceInv, OneInHand, ConfigsInOrder,
     AnnouncementsKeepUp
<1>11. CASE \/ CapturePublishes \/ CaptureStops \/ FeederStep \/ FfmpegExits
            \/ FfmpegDies \/ EncReaderStep
  BY <1>0, <1>11, AnnounceUnchanged
  DEF CapturePublishes, CaptureStops, FeederStep, FeederTakes, FeederSeesStop,
      FeederWrites, FeederWriteFails, FfmpegExits, FfmpegDies, EncReaderStep,
      EncReaderPublishes, EncReaderEnds
<1>12. CASE WriterDrained \/ WriterTimesOut
  BY <1>0, <1>12, AnnounceUnchanged DEF WriterDrained, WriterTimesOut
<1>13. CASE \/ ReadsSetMode \/ ReadsEof \/ ReadFails \/ WatchdogQuits
            \/ PeerCloses \/ PeerVanishes \/ KeepaliveExpires \/ TakenOver
            \/ UNCHANGED vars
  BY <1>0, <1>13, AnnounceUnchanged
  DEF ReadsSetMode, ReadsEof, ReadFails, NetReaderDone, WatchdogQuits, PeerCloses,
      PeerVanishes, KeepaliveExpires, TakenOver, vars
<1> QED
  BY <1>1, <1>2, <1>3, <1>4, <1>5, <1>6, <1>7, <1>8, <1>9, <1>10, <1>11, <1>12,
     <1>13 DEF Next, MainStep, WriterStep, WatchdogStep

\* The inductive invariant holds throughout every session.
THEOREM Invariance == Spec => []IInv
<1>1. IInv /\ [Next]_vars => IInv'
  BY ControlStep, JoinedStep, DataStep DEF IInv
<1> QED
  BY InitIInv, <1>1, PTL DEF Spec

\* Type correctness of the session, bounded pipes included.
THEOREM TypeCorrect == Spec => []TypeOK
<1>1. IInv => TypeOK
  BY DEF IInv, DataInv, TypeOK
<1> QED
  BY Invariance, <1>1, PTL

\* No frame is sent after the VideoConfig of a newer encoder, whatever fails
\* and however the threads interleave.
THEOREM NoStaleFrames == Spec => []NoStaleFrame
<1>1. IInv => NoStaleFrame
  BY DEF IInv, DataInv, WriterIsFresh
<1> QED
  BY Invariance, <1>1, PTL

\* Frames of an older encoder never follow those of a newer one.
THEOREM GenerationsAdvance == Spec => []GenerationsNeverGoBack
<1>1. IInv => GenerationsNeverGoBack
  BY DEF IInv, DataInv, WriterIsFresh
<1> QED
  BY Invariance, <1>1, PTL

\* The pipes of an encoder never hold output of its predecessor.
THEOREM CleanStart == Spec => []StageStartsClean
<1>1. IInv => StageStartsClean
  BY DEF IInv, DataInv
<1> QED
  BY Invariance, <1>1, PTL

\* The config announced last is the running encoder's, or that one is on its
\* way: whatever fails, no encoder is restarted behind the client's back.
THEOREM AnnouncementsNeverLag == Spec => []AnnouncementsKeepUp
<1>1. Init => AnnounceInv
  BY DEF Init, AnnounceInv, OneInHand, ConfigsInOrder, AnnouncementsKeepUp
<1>2. IInv /\ AnnounceInv /\ [Next]_vars => AnnounceInv'
  BY AnnounceStep
<1>3. AnnounceInv => AnnouncementsKeepUp
  BY DEF AnnounceInv
<1> QED
  BY Invariance, <1>1, <1>2, <1>3, PTL DEF Spec
=============================================================================
