---------------------------- MODULE StreamSession ----------------------------
(***************************************************************************)
(* One streaming session of the host, from the screen-share request to the *)
(* end of handle_client (crates/palmtopd/src/session.rs), with every       *)
(* thread it starts:                                                       *)
(*                                                                         *)
(*   main       handle_client itself, which owns the encoder's lifetime    *)
(*   cap        the capture thread, publishing into FrameSlot              *)
(*   feeder     FrameSlot -> ffmpeg's stdin                (encode.rs)     *)
(*   ffmpeg     the encoder process                        (external)      *)
(*   encReader  ffmpeg's stdout -> LatestEncoded           (encode.rs)     *)
(*   writer     LatestEncoded and the Outgoing queue -> the socket         *)
(*   netReader  the socket -> mode requests, pings, input                  *)
(*   watchdog   reports a stream that never produced a picture             *)
(*                                                                         *)
(* A mode change replaces the encoder and announces its new dimensions     *)
(* with a VideoConfig.  What a frame or a config carries is reduced to its *)
(* generation: the number of the encoder stage that made it.               *)
(***************************************************************************)
EXTENDS Naturals, Sequences

CONSTANTS
  MaxGen,  \* bound: encoder stages a client asks for, the first included
  Depth,   \* frames ffmpeg and its two pipes hold before a write blocks
  MaxOut,  \* bound: queued outgoing messages at which no ping is taken
  Faults   \* the failures that may happen, a subset of AllFaults

AllFaults == {"capture", "ffmpeg", "format", "start", "clone", "restart",
              "read", "vanish"}

ASSUME StreamAssumption ==
  /\ Faults \subseteq AllFaults
  /\ MaxGen \in Nat \ {0}
  /\ Depth  \in Nat \ {0, 1}
  /\ MaxOut \in Nat

VARIABLES
  main, cap, feeder, ffmpeg, encReader, writer, netReader, watchdog,
  stop,       \* the session's stop flag
  stageStop,  \* the current encoder stage's stop flag
  sock,       \* the client's connection
  slot,       \* FrameSlot holds a frame
  gen,        \* generation of the newest encoder stage, 0 before the first
  pipe,       \* units inside ffmpeg and its pipes, oldest first
  latest,     \* LatestEncoded: at most one unit
  out,        \* the Outgoing queue
  requested,  \* mode changes received from the client so far
  taken,      \* mode changes the main loop has taken off the channel
  holding,    \* the message the writer is sending
  announced,  \* generation of the last VideoConfig on the wire
  shown       \* generation of the last frame on the wire

threads == <<main, cap, feeder, ffmpeg, encReader, writer, netReader, watchdog>>
wire    == <<holding, announced, shown>>
flags   == <<stop, stageStop, sock>>
vars    == <<threads, flags, slot, gen, pipe, latest, out, requested, taken, wire>>

-----------------------------------------------------------------------------
MainPc   == {"portal", "start", "spawn", "announce_first", "announce",
             "check", "recv", "switch", "teardown",
             "ended", "left", "orphaned"}
FeederPc == {"off", "first", "loop", "write", "done"}
WriterPc == {"off", "top", "drain", "take", "send", "done"}

\* Every message of the writer; only frames and configs have a generation.
Message  == [kind : {"frame", "config", "pong", "capture", "no_video"},
             gen  : Nat]

Plain(k)     == [kind |-> k, gen |-> 0]
Config(g)    == [kind |-> "config", gen |-> g]
Frame(g)     == [kind |-> "frame", gen |-> g]

ControlTypeOK ==
  /\ main      \in MainPc
  /\ cap       \in {"off", "running", "done"}
  /\ feeder    \in FeederPc
  /\ ffmpeg    \in {"off", "up", "dead"}
  /\ encReader \in {"off", "up", "done"}
  /\ writer    \in WriterPc
  /\ netReader \in {"off", "reading", "done"}
  /\ watchdog  \in {"off", "waiting", "done"}
  /\ stop \in BOOLEAN /\ stageStop \in BOOLEAN /\ slot \in BOOLEAN
  /\ sock \in {"open", "silent", "closed"}

DataTypeOK ==
  /\ gen \in Nat /\ announced \in Nat /\ shown \in Nat
  /\ requested \in Nat /\ taken \in 0..requested
  /\ pipe \in Seq(Nat) /\ Len(pipe) <= Depth
  /\ latest \subseteq Nat
  /\ out \in Seq(Message)
  /\ holding \subseteq Message

TypeOK == ControlTypeOK /\ DataTypeOK

\* The writer owns the receiving end: what is sent after it has gone is lost.
Queued(m) == out' = IF writer = "done" THEN out ELSE Append(out, m)
WriterGone == writer' = "done" /\ out' = <<>>

Init ==
  /\ main = "portal" /\ cap = "off" /\ feeder = "off" /\ ffmpeg = "off"
  /\ encReader = "off" /\ writer = "off" /\ netReader = "off" /\ watchdog = "off"
  /\ stop = FALSE /\ stageStop = FALSE /\ sock = "open"
  /\ slot = FALSE /\ gen = 0 /\ pipe = <<>> /\ latest = {} /\ out = <<>>
  /\ requested = 0 /\ taken = 0
  /\ holding = {} /\ announced = 0 /\ shown = 0

-----------------------------------------------------------------------------
(* handle_client.  Until the writer exists it writes its statuses itself,  *)
(* and whatever becomes of them the session goes on.  The returns before   *)
(* that point drop the last handle of the socket.                          *)

PortalApproved ==
  /\ main = "portal"
  /\ main' = "start"
  /\ cap' = "running"
  /\ UNCHANGED <<feeder, ffmpeg, encReader, writer, netReader, watchdog,
                 flags, slot, gen, pipe, latest, out, requested, taken, wire>>

PortalRefused ==
  /\ main = "portal"
  /\ main' = "left"
  /\ sock' = "closed"
  /\ UNCHANGED <<cap, feeder, ffmpeg, encReader, writer, netReader, watchdog,
                 stop, stageStop, slot, gen, pipe, latest, out, requested, taken,
                 wire>>

\* start_encode_stage: a new ffmpeg with its own feeder, reader and stop flag.
StartStage ==
  /\ gen' = gen + 1
  /\ feeder' = "first"
  /\ ffmpeg' = "up"
  /\ encReader' = "up"
  /\ stageStop' = FALSE

FirstStageStarts ==
  /\ main = "start"
  /\ StartStage
  /\ main' = "spawn"
  /\ UNCHANGED <<cap, writer, netReader, watchdog, stop, sock, slot, pipe,
                 latest, out, requested, taken, wire>>

\* The session returns here without setting stop: capture keeps running.
FirstStageFails ==
  /\ "start" \in Faults
  /\ main = "start"
  /\ main' = "left"
  /\ sock' = "closed"
  /\ UNCHANGED <<cap, feeder, ffmpeg, encReader, writer, netReader, watchdog,
                 stop, stageStop, slot, gen, pipe, latest, out, requested, taken,
                 wire>>

SpawnWriter ==
  /\ main = "spawn"
  /\ main' = "announce_first"
  /\ writer' = "top"
  /\ watchdog' = "waiting"
  /\ UNCHANGED <<cap, feeder, ffmpeg, encReader, netReader, flags, slot, gen,
                 pipe, latest, out, requested, taken, wire>>

\* Cloning the socket for the writer or the reader fails: the session
\* returns with its encoder stage still running.
SocketCloneFails ==
  /\ "clone" \in Faults
  /\ main = "spawn"
  /\ main' = "orphaned"
  /\ sock' = "closed"
  /\ UNCHANGED <<cap, feeder, ffmpeg, encReader, writer, netReader, watchdog,
                 stop, stageStop, slot, gen, pipe, latest, out, requested, taken,
                 wire>>

AnnounceFirst ==
  /\ main = "announce_first"
  /\ Queued(Config(gen))
  /\ netReader' = "reading"
  /\ main' = "check"
  /\ UNCHANGED <<cap, feeder, ffmpeg, encReader, writer, watchdog, flags, slot,
                 gen, pipe, latest, requested, taken, wire>>

MainChecksStop ==
  /\ main = "check"
  /\ main' = IF stop THEN "teardown" ELSE "recv"
  /\ stageStop' = (stop \/ stageStop)
  /\ UNCHANGED <<cap, feeder, ffmpeg, encReader, writer, netReader, watchdog,
                 stop, sock, slot, gen, pipe, latest, out, requested, taken, wire>>

\* recv_timeout expires, or reports that the reader, which sets stop before
\* it drops its end of the channel, has gone.
MainTimesOut ==
  /\ main = "recv"
  /\ taken = requested
  /\ main' = "check"
  /\ UNCHANGED <<cap, feeder, ffmpeg, encReader, writer, netReader, watchdog,
                 flags, slot, gen, pipe, latest, out, requested, taken, wire>>

\* Mutant: the old stage is not told to stop before it is joined.
MainTakesModeQuietly ==
  /\ main = "recv"
  /\ taken < requested
  /\ taken' = taken + 1
  /\ main' = "switch"
  /\ UNCHANGED <<cap, feeder, ffmpeg, encReader, writer, netReader, watchdog,
                 flags, slot, gen, pipe, latest, out, requested, wire>>

MainTakesMode ==
  /\ main = "recv"
  /\ taken < requested
  /\ taken' = taken + 1
  /\ stageStop' = TRUE
  /\ main' = "switch"
  /\ UNCHANGED <<cap, feeder, ffmpeg, encReader, writer, netReader, watchdog,
                 stop, sock, slot, gen, pipe, latest, out, requested, wire>>

\* The three joins of stop_encode_stage.
StageJoined == feeder = "done" /\ ffmpeg = "dead" /\ encReader = "done"

\* Mutant: the restarted encoder is not announced.
StageRestartsSilently ==
  /\ main = "switch"
  /\ StageJoined
  /\ StartStage
  /\ main' = "check"
  /\ UNCHANGED <<cap, writer, netReader, watchdog, stop, sock, slot, pipe,
                 latest, out, requested, taken, wire>>

StageRestarts ==
  /\ main = "switch"
  /\ StageJoined
  /\ StartStage
  /\ main' = "announce"
  /\ UNCHANGED <<cap, writer, netReader, watchdog, stop, sock, slot, pipe,
                 latest, out, requested, taken, wire>>

\* The `?` of the restart: nobody is told, and the reader, the writer and
\* capture run on without their main thread.
StageRestartFails ==
  /\ "restart" \in Faults
  /\ main = "switch"
  /\ StageJoined
  /\ main' = "left"
  /\ UNCHANGED <<cap, feeder, ffmpeg, encReader, writer, netReader, watchdog,
                 flags, slot, gen, pipe, latest, out, requested, taken, wire>>

Announce ==
  /\ main = "announce"
  /\ Queued(Config(gen))
  /\ main' = "check"
  /\ UNCHANGED <<cap, feeder, ffmpeg, encReader, writer, netReader, watchdog,
                 flags, slot, gen, pipe, latest, requested, taken, wire>>

SessionEnds ==
  /\ main = "teardown"
  /\ StageJoined
  /\ cap = "done" /\ netReader = "done" /\ writer = "done"
  /\ main' = "ended"
  /\ sock' = "closed"
  /\ UNCHANGED <<cap, feeder, ffmpeg, encReader, writer, netReader, watchdog,
                 stop, stageStop, slot, gen, pipe, latest, out, requested, taken,
                 wire>>

-----------------------------------------------------------------------------
(* Capture.                                                                *)

CapturePublishes ==
  /\ cap = "running"
  /\ slot' = TRUE
  /\ UNCHANGED <<threads, flags, gen, pipe, latest, out, requested, taken, wire>>

\* The 200 ms poll of the stop flag quits the PipeWire loop.
CaptureStops ==
  /\ cap = "running"
  /\ stop
  /\ cap' = "done"
  /\ UNCHANGED <<main, feeder, ffmpeg, encReader, writer, netReader, watchdog,
                 flags, slot, gen, pipe, latest, out, requested, taken, wire>>

CaptureFails ==
  /\ "capture" \in Faults
  /\ cap = "running"
  /\ cap' = "done"
  /\ Queued(Plain("capture"))
  /\ UNCHANGED <<main, feeder, ffmpeg, encReader, writer, netReader, watchdog,
                 flags, slot, gen, pipe, latest, requested, taken, wire>>

-----------------------------------------------------------------------------
(* The encoder stage: feeder, ffmpeg and the reader of its output.         *)

\* take_latest_blocking looks for a frame before it looks at the stop flag.
\* The first frame of a stage must be BGRA or the feeder gives up.
FeederTakes ==
  /\ slot
  /\ slot' = FALSE
  /\ \/ feeder \in {"first", "loop"} /\ feeder' = "write"
     \/ feeder = "first" /\ feeder' = "done" /\ "format" \in Faults
  /\ UNCHANGED <<main, cap, ffmpeg, encReader, writer, netReader, watchdog,
                 flags, gen, pipe, latest, out, requested, taken, wire>>

FeederSeesStop ==
  /\ feeder \in {"first", "loop"}
  /\ ~slot
  /\ stageStop
  /\ feeder' = "done"
  /\ UNCHANGED <<main, cap, ffmpeg, encReader, writer, netReader, watchdog,
                 flags, slot, gen, pipe, latest, out, requested, taken, wire>>

\* Mutant: a queue without a bound between the feeder and the encoder.
FeederWritesUnbounded ==
  /\ feeder = "write"
  /\ ffmpeg = "up"
  /\ Len(pipe) <= Depth
  /\ pipe' = Append(pipe, gen)
  /\ feeder' = "loop"
  /\ UNCHANGED <<main, cap, ffmpeg, encReader, writer, netReader, watchdog,
                 flags, slot, gen, latest, out, requested, taken, wire>>

FeederWrites ==
  /\ feeder = "write"
  /\ ffmpeg = "up"
  /\ Len(pipe) < Depth
  /\ pipe' = Append(pipe, gen)
  /\ feeder' = "loop"
  /\ UNCHANGED <<main, cap, ffmpeg, encReader, writer, netReader, watchdog,
                 flags, slot, gen, latest, out, requested, taken, wire>>

FeederWriteFails ==
  /\ feeder = "write"
  /\ ffmpeg = "dead"
  /\ feeder' = "done"
  /\ UNCHANGED <<main, cap, ffmpeg, encReader, writer, netReader, watchdog,
                 flags, slot, gen, pipe, latest, out, requested, taken, wire>>

\* ffmpeg flushes what it holds and exits once its stdin is closed ...
FfmpegExits ==
  /\ ffmpeg = "up"
  /\ feeder = "done"
  /\ ffmpeg' = "dead"
  /\ UNCHANGED <<main, cap, feeder, encReader, writer, netReader, watchdog,
                 flags, slot, gen, pipe, latest, out, requested, taken, wire>>

\* ... or dies at any moment, losing what it had not written yet.
FfmpegDies ==
  /\ "ffmpeg" \in Faults
  /\ ffmpeg = "up"
  /\ ffmpeg' = "dead"
  /\ \E n \in 0..Len(pipe) : pipe' = SubSeq(pipe, 1, n)
  /\ UNCHANGED <<main, cap, feeder, encReader, writer, netReader, watchdog,
                 flags, slot, gen, latest, out, requested, taken, wire>>

\* An access unit is complete only when the next one has begun.
EncReaderPublishes ==
  /\ encReader = "up"
  /\ Len(pipe) > 1
  /\ latest' = {Head(pipe)}
  /\ pipe' = Tail(pipe)
  /\ UNCHANGED <<threads, flags, slot, gen, out, requested, taken, wire>>

\* End of ffmpeg's output: the unit the splitter still holds is dropped.
EncReaderEnds ==
  /\ encReader = "up"
  /\ ffmpeg = "dead"
  /\ Len(pipe) <= 1
  /\ encReader' = "done"
  /\ pipe' = <<>>
  /\ UNCHANGED <<main, cap, feeder, ffmpeg, writer, netReader, watchdog,
                 flags, slot, gen, latest, out, requested, taken, wire>>

-----------------------------------------------------------------------------
(* run_writer, the only writer of the socket once it exists.               *)

WriterChecksStop ==
  /\ writer = "top"
  /\ \/ stop /\ WriterGone
     \/ ~stop /\ writer' = "drain" /\ UNCHANGED out
  /\ UNCHANGED <<main, cap, feeder, ffmpeg, encReader, netReader, watchdog,
                 flags, slot, gen, pipe, latest, requested, taken, wire>>

\* Mutant: a Reconfigure leaves the pending frame in the mailbox.
WriterDrainsWithoutClear ==
  /\ writer = "drain"
  /\ out # <<>>
  /\ holding' = {Head(out)}
  /\ out' = Tail(out)
  /\ writer' = "send"
  /\ UNCHANGED <<main, cap, feeder, ffmpeg, encReader, netReader, watchdog,
                 flags, slot, gen, pipe, latest, requested, taken, announced, shown>>

\* A Reconfigure discards the pending frame before it goes out.
WriterDrains ==
  /\ writer = "drain"
  /\ out # <<>>
  /\ holding' = {Head(out)}
  /\ out' = Tail(out)
  /\ latest' = IF Head(out).kind = "config" THEN {} ELSE latest
  /\ writer' = "send"
  /\ UNCHANGED <<main, cap, feeder, ffmpeg, encReader, netReader, watchdog,
                 flags, slot, gen, pipe, requested, taken, announced, shown>>

WriterDrained ==
  /\ writer = "drain"
  /\ out = <<>>
  /\ writer' = "take"
  /\ UNCHANGED <<main, cap, feeder, ffmpeg, encReader, netReader, watchdog,
                 flags, slot, gen, pipe, latest, out, requested, taken, wire>>

WriterTakes ==
  /\ writer = "take"
  /\ \E u \in latest : holding' = {Frame(u)}
  /\ latest' = {}
  /\ writer' = "send"
  /\ UNCHANGED <<main, cap, feeder, ffmpeg, encReader, netReader, watchdog,
                 flags, slot, gen, pipe, out, requested, taken, announced, shown>>

WriterTimesOut ==
  /\ writer = "take"
  /\ latest = {}
  /\ writer' = "top"
  /\ UNCHANGED <<main, cap, feeder, ffmpeg, encReader, netReader, watchdog,
                 flags, slot, gen, pipe, latest, out, requested, taken, wire>>

WriterSends ==
  /\ writer = "send"
  /\ sock = "open"
  /\ \E m \in holding :
       /\ writer' = IF m.kind = "frame" THEN "top" ELSE "drain"
       /\ announced' = IF m.kind = "config" THEN m.gen ELSE announced
       /\ shown' = IF m.kind = "frame" THEN m.gen ELSE shown
  /\ holding' = {}
  /\ UNCHANGED <<main, cap, feeder, ffmpeg, encReader, netReader, watchdog,
                 flags, slot, gen, pipe, latest, out, requested, taken>>

\* Mutant: the writer does not notice that the socket has gone.
WriterNeverFails == FALSE

\* A write error ends the writer without setting stop.
WriterSendFails ==
  /\ writer = "send"
  /\ sock = "closed"
  /\ WriterGone
  /\ holding' = {}
  /\ UNCHANGED <<main, cap, feeder, ffmpeg, encReader, netReader, watchdog,
                 flags, slot, gen, pipe, latest, requested, taken,
                 announced, shown>>

-----------------------------------------------------------------------------
(* run_network_reader.  What arrived before the socket closed is still     *)
(* read; input events leave no trace in this module.                       *)

ReadsSetMode ==
  /\ netReader = "reading"
  /\ sock # "silent"
  /\ requested < MaxGen - 1
  /\ requested' = requested + 1
  /\ UNCHANGED <<threads, flags, slot, gen, pipe, latest, out, taken, wire>>

ReadsPing ==
  /\ netReader = "reading"
  /\ sock # "silent"
  /\ Len(out) < MaxOut
  /\ Queued(Plain("pong"))
  /\ UNCHANGED <<threads, flags, slot, gen, pipe, latest, requested, taken, wire>>

NetReaderDone ==
  /\ netReader' = "done"
  /\ stop' = TRUE
  /\ UNCHANGED <<main, cap, feeder, ffmpeg, encReader, writer, watchdog,
                 stageStop, sock, slot, gen, pipe, latest, out, requested, taken,
                 wire>>

ReadsEof == netReader = "reading" /\ sock = "closed" /\ NetReaderDone

\* A frame that does not decrypt or parse ends the loop on an open socket.
ReadFails ==
  "read" \in Faults /\ netReader = "reading" /\ sock = "open" /\ NetReaderDone

-----------------------------------------------------------------------------
(* The first-frame watchdog: the grace period may end at any moment.       *)

WatchdogQuits ==
  /\ watchdog = "waiting"
  /\ stop \/ shown > 0
  /\ watchdog' = "done"
  /\ UNCHANGED <<main, cap, feeder, ffmpeg, encReader, writer, netReader,
                 flags, slot, gen, pipe, latest, out, requested, taken, wire>>

\* Mutant: the grace period ends without a word.
WatchdogStaysSilent ==
  /\ watchdog = "waiting"
  /\ ~stop /\ shown = 0
  /\ watchdog' = "done"
  /\ UNCHANGED <<main, cap, feeder, ffmpeg, encReader, writer, netReader,
                 flags, slot, gen, pipe, latest, out, requested, taken, wire>>

WatchdogReports ==
  /\ watchdog = "waiting"
  /\ ~stop /\ shown = 0
  /\ watchdog' = "done"
  /\ Queued(Plain("no_video"))
  /\ UNCHANGED <<main, cap, feeder, ffmpeg, encReader, writer, netReader,
                 flags, slot, gen, pipe, latest, requested, taken, wire>>

-----------------------------------------------------------------------------
(* The client, the network and a takeover by a newer session.              *)

Registered == main \notin {"left", "orphaned", "ended"}

PeerCloses ==
  /\ sock = "open"
  /\ sock' = "closed"
  /\ UNCHANGED <<threads, stop, stageStop, slot, gen, pipe, latest, out,
                 requested, taken, wire>>

PeerVanishes ==
  /\ "vanish" \in Faults
  /\ sock = "open"
  /\ sock' = "silent"
  /\ UNCHANGED <<threads, stop, stageStop, slot, gen, pipe, latest, out,
                 requested, taken, wire>>

\* configure_socket: keepalive closes the connection of a vanished peer.
KeepaliveExpires ==
  /\ sock = "silent"
  /\ sock' = "closed"
  /\ UNCHANGED <<threads, stop, stageStop, slot, gen, pipe, latest, out,
                 requested, taken, wire>>

TakenOver ==
  /\ Registered
  /\ stop' = TRUE
  /\ sock' = "closed"
  /\ UNCHANGED <<threads, stageStop, slot, gen, pipe, latest, out, requested,
                 taken, wire>>

-----------------------------------------------------------------------------
MainStep ==
  \/ FirstStageStarts \/ FirstStageFails \/ SpawnWriter \/ SocketCloneFails
  \/ AnnounceFirst \/ MainChecksStop \/ MainTimesOut \/ MainTakesMode
  \/ StageRestarts \/ StageRestartFails \/ Announce \/ SessionEnds

FeederStep    == FeederTakes \/ FeederSeesStop \/ FeederWrites \/ FeederWriteFails
EncReaderStep == EncReaderPublishes \/ EncReaderEnds
WriterStep    == \/ WriterChecksStop \/ WriterDrains \/ WriterDrained
                 \/ WriterTakes \/ WriterTimesOut \/ WriterSends \/ WriterSendFails
WatchdogStep  == WatchdogQuits \/ WatchdogReports

Next ==
  \/ PortalApproved \/ PortalRefused \/ MainStep
  \/ CapturePublishes \/ CaptureStops \/ CaptureFails
  \/ FeederStep \/ FfmpegExits \/ FfmpegDies \/ EncReaderStep
  \/ WriterStep \/ ReadsSetMode \/ ReadsPing \/ ReadsEof \/ ReadFails
  \/ WatchdogStep
  \/ PeerCloses \/ PeerVanishes \/ KeepaliveExpires \/ TakenOver

\* Every thread keeps running and the operating system reports what it owes;
\* the user, the client, new frames and failures come when they like.
Fairness ==
  /\ WF_vars(MainStep) /\ WF_vars(CaptureStops)
  /\ WF_vars(FeederStep) /\ WF_vars(FfmpegExits) /\ WF_vars(EncReaderStep)
  /\ WF_vars(WriterStep) /\ WF_vars(ReadsEof) /\ WF_vars(WatchdogStep)
  /\ WF_vars(KeepaliveExpires)

Spec == Init /\ [][Next]_vars /\ Fairness

-----------------------------------------------------------------------------
(* Properties.                                                             *)

Frames == {m \in holding : m.kind = "frame"}

\* A frame is never sent after the VideoConfig of a newer encoder: joining
\* the old reader and clearing the mailbox is what run_writer and
\* stop_encode_stage rely on for it.
NoStaleFrame == \A m \in Frames : m.gen >= announced

\* Over a whole session, frames of an older encoder never follow frames of a
\* newer one on the wire.
GenerationsNeverGoBack == \A m \in Frames : m.gen >= shown

\* A new encoder never finds output of its predecessor in the pipes: what
\* the client decodes as generation g was made by encoder g alone.
StageStartsClean == \A i \in 1..Len(pipe) : pipe[i] = gen

\* The config announced last, once it is on the wire and no change is under
\* way, is the running encoder's (session.rs, the announce after a restart).
ConfigsQueued == {out[i].gen : i \in {j \in 1..Len(out) : out[j].kind = "config"}}
                 \cup {m.gen : m \in {h \in holding : h.kind = "config"}}
AnnouncementsKeepUp ==
  main \in {"check", "recv"} /\ writer # "done" =>
    gen = announced \/ gen \in ConfigsQueued

\* lib.rs, VideoConfig: everything received after a VideoConfig is in the
\* format it announces.
FramesMatchConfig == announced > 0 => \A m \in Frames : m.gen = announced

-----------------------------------------------------------------------------
(* Liveness.                                                               *)

Quiet ==
  /\ main \in {"left", "ended"}
  /\ cap # "running" /\ feeder \in {"off", "done"} /\ ffmpeg # "up"
  /\ encReader # "up" /\ writer \in {"off", "done"}
  /\ netReader # "reading" /\ watchdog # "waiting"

\* Once a session is told to stop and is not waiting for the user's answer
\* to the screen-share dialog, every thread it started ends.
StopEndsEveryThread ==
  (stop /\ main # "portal") ~> (Quiet \/ main = "orphaned")

\* Whoever has an open stream and sees no picture is told so: the reason the
\* watchdog exists.
SilenceIsReported ==
  watchdog = "waiting" ~> (shown > 0 \/ Plain("no_video") \in holding \/ stop \/ sock # "open")

\* The encoder is not for ever slower than capture: a feeder that has not
\* ended keeps coming back to an empty FrameSlot, and then acts on the stop flag.
EncoderKeepsUp ==
  /\ []<>(feeder \in {"off", "done"} \/ (feeder # "write" /\ ~slot))
  /\ SF_vars(FeederSeesStop)

\* Every mode change the client asks for is announced in the end, unless the
\* session ends or its encoder cannot be restarted.
ModeChangesComplete == EncoderKeepsUp => \A n \in 1..(MaxGen - 1) :
    (requested >= n) ~> (announced > n \/ stop \/ ~Registered \/ sock # "open")

\* capture.rs: the feeder blocks "until a frame is available or stop is set,
\* whichever first"; encode.rs: it exits once stop is set.
FeederHeedsStop == stageStop ~> feeder = "done"
=============================================================================
