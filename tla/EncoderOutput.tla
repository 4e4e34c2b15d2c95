---------------------------- MODULE EncoderOutput ----------------------------
(***************************************************************************)
(* The way of one frame through an encoder stage: FrameSlot, run_feeder,   *)
(* ffmpeg, run_reader with its AnnexBSplitter, LatestEncoded, run_writer   *)
(* (palmtopd/src/encode.rs, capture.rs).  StreamSession has the threads'   *)
(* lives; here it is what they hand on: which access unit is cut out of    *)
(* ffmpeg's output, and which capture time TimestampFifo gives it.         *)
(*                                                                         *)
(* A frame is its number, which is also the time of its capture.  Encoded  *)
(* it is a few NAL units, each a start code, the byte with its type and    *)
(* the rest; a read of the pipe may end between any two of these.          *)
(***************************************************************************)
EXTENDS Naturals, SequencesExt

CONSTANTS
  MaxFrame,   \* bound: frames captured
  Gop,        \* every how many pictures ffmpeg makes a keyframe
  Slices,     \* slices to a picture
  Depth,      \* frames inside ffmpeg
  PipeMax,    \* frames its output may hold unread
  FifoBound   \* FIFO_DESYNC_BOUND

EncoderAssumption ==
  /\ MaxFrame \in Nat
  /\ {Gop, Slices, Depth, PipeMax, FifoBound} \subseteq Nat \ {0}
ASSUME EncoderAssumption

VARIABLES
  captured,  \* frames captured
  slot,      \* FrameSlot: a frame, or 0
  feeder,    \* "first", "idle", "push", "write" or "done"
  feeding,   \* the frame the feeder has taken
  fifo,      \* TimestampFifo
  resets,    \* the fifo was cleared because it was too long
  inside,    \* frames ffmpeg has read and not written
  sinceKey,  \* pictures ffmpeg has made since its last keyframe, modulo Gop
  stdout,    \* what ffmpeg has written and nobody has read
  buf,       \* what the splitter holds back
  ready,     \* access units cut out by the last push, not yet published
  latest,    \* LatestEncoded: at most one unit
  shown,     \* the last frame sent to the client
  stop

vars == <<captured, slot, feeder, feeding, fifo, resets, inside, sinceKey, stdout,
          buf, ready, latest, shown, stop>>

-----------------------------------------------------------------------------
(* ffmpeg's output: with -bf 0 one picture for every frame, in order.  The   *)
(* hardware encoders make one slice of it, libx264 tuned for zero latency as  *)
(* many as it has threads.                                                    *)

Parts == <<"start", "type", "rest">>
NalTypes(key) == (IF key THEN <<7, 8>> ELSE <<>>)
                   \o [i \in 1..Slices |-> IF key THEN 5 ELSE 1]
AccessUnit(k, key) ==
  [j \in 1..(3 * Len(NalTypes(key))) |->
     [is |-> Parts[((j - 1) % 3) + 1], type |-> NalTypes(key)[((j - 1) \div 3) + 1],
      frame |-> k]]
FramesIn(s) == {s[i].frame : i \in 1..Len(s)}

TypeOK ==
  /\ captured \in 0..MaxFrame
  /\ slot \in 0..captured
  /\ feeder \in {"first", "idle", "push", "write", "done"}
  /\ feeding \in 0..captured
  /\ Len(fifo) <= FifoBound
  /\ Range(fifo) \subseteq 1..captured
  /\ resets \in BOOLEAN /\ stop \in BOOLEAN
  /\ Len(inside) <= Depth /\ sinceKey \in 0..(Gop - 1)
  /\ FramesIn(stdout \o buf) \subseteq 1..captured
  /\ \A u \in latest : u.keyframe \in BOOLEAN /\ u.capture \in 0..captured
  /\ shown \in 0..captured

Init ==
  /\ captured = 0 /\ slot = 0
  /\ feeder = "first" /\ feeding = 0
  /\ fifo = <<>> /\ resets = FALSE
  /\ inside = <<>> /\ sinceKey = 0
  /\ stdout = <<>> /\ buf = <<>> /\ ready = <<>>
  /\ latest = {} /\ shown = 0
  /\ stop = FALSE

-----------------------------------------------------------------------------
(* Capture and the feeder. *)

\* FrameSlot::publish: a frame that has not been taken is overwritten.
Capture ==
  /\ captured < MaxFrame
  /\ captured' = captured + 1
  /\ slot' = captured + 1
  /\ UNCHANGED <<feeder, feeding, fifo, resets, inside, sinceKey, stdout, buf,
                 ready, latest, shown, stop>>

\* take_latest_blocking looks into the slot before it looks at stop.  The feeder
\* ends, and closes stdin, without a frame or when the first is not BGRA.
\* Mutant: the slot keeps the frame.
FeederTakesMutant ==
  /\ feeder \in {"first", "idle"}
  /\ slot # 0 \/ stop
  /\ feeding' = slot
  /\ feeder' \in IF slot = 0 THEN {"done"}
                 ELSE {"push"} \cup (IF feeder = "first" THEN {"done"} ELSE {})
  /\ UNCHANGED <<captured, slot, fifo, resets, inside, sinceKey, stdout, buf,
                 ready, latest, shown, stop>>
FeederTakes ==
  /\ feeder \in {"first", "idle"}
  /\ slot # 0 \/ stop
  /\ feeding' = slot
  /\ feeder' \in IF slot = 0 THEN {"done"}
                 ELSE {"push"} \cup (IF feeder = "first" THEN {"done"} ELSE {})
  /\ slot' = 0
  /\ UNCHANGED <<captured, fifo, resets, inside, sinceKey, stdout, buf, ready,
                 latest, shown, stop>>

\* TimestampFifo::push: a queue that is too long is cleared.
\* Mutant: it is never cleared.
PushedMutant(us) == Append(fifo, us)
Pushed(us) == IF Len(fifo) = FifoBound THEN <<us>> ELSE Append(fifo, us)

FeederPushes ==
  /\ feeder = "push"
  /\ fifo' = Pushed(feeding)
  /\ resets' = (resets \/ Len(fifo) = FifoBound)
  /\ feeder' = "write"
  /\ UNCHANGED <<captured, slot, feeding, inside, sinceKey, stdout, buf, ready,
                 latest, shown, stop>>

FeederWrites ==
  /\ feeder = "write"
  /\ Len(inside) < Depth
  /\ inside' = Append(inside, feeding)
  /\ feeder' = "idle" /\ feeding' = 0
  /\ UNCHANGED <<captured, slot, fifo, resets, sinceKey, stdout, buf, ready,
                 latest, shown, stop>>

\* ffmpeg encodes the oldest frame; after the end of its input it flushes.
Encode ==
  /\ inside # <<>>
  /\ Cardinality(FramesIn(stdout)) < PipeMax
  /\ inside' = Tail(inside)
  /\ stdout' = stdout \o AccessUnit(Head(inside), sinceKey = 0)
  /\ sinceKey' = (sinceKey + 1) % Gop
  /\ UNCHANGED <<captured, slot, feeder, feeding, fifo, resets, buf, ready,
                 latest, shown, stop>>

-----------------------------------------------------------------------------
(* AnnexBSplitter::push.  An access unit ends at the first start code behind a *)
(* coded slice; the slice's type may not have arrived yet.                     *)

NalType(s, i) == IF i < Len(s) THEN s[i + 1].type ELSE 0
IsVcl(s, i) == NalType(s, i) \in {1, 5}

\* The start code at i ends a unit if the NAL before, at nal, is a slice.
\* Mutant: every NAL is a unit, parameter sets too.
EndsUnitMutant(s, nal, i) == nal # 0
\* Mutant: a unit ends at the parameter sets of the next keyframe only.
EndsUnitLate(s, nal, i) == nal # 0 /\ NalType(s, i) = 7
EndsUnit(s, nal, i) == nal # 0 /\ IsVcl(s, nal)

\* Where the scan is at the outset: the unit begins at `from`, and the last start
\* code seen is at `nal`.
Scanning == [out |-> <<>>, from |-> 1, nal |-> 0]
Scan(s, sofar, i) ==
  IF s[i].is # "start" THEN sofar
  ELSE IF ~EndsUnit(s, sofar.nal, i) THEN [sofar EXCEPT !.nal = i]
  ELSE [out |-> Append(sofar.out, [keyframe |-> NalType(s, sofar.nal) = 5,
                                   data |-> SubSeq(s, sofar.from, i - 1)]),
        from |-> i, nal |-> i]
Scanned(s) ==
  LET sofar[i \in 0..Len(s)] ==
        IF i = 0 THEN Scanning ELSE Scan(s, sofar[i - 1], i)
  IN sofar
Split(s) == Scanned(s)[Len(s)].out
HeldBack(s) == SubSeq(s, Scanned(s)[Len(s)].from, Len(s))

-----------------------------------------------------------------------------
(* The reader and the writer. *)

\* A read returns what is there, up to any point.
ReadChunk ==
  /\ ready = <<>>
  /\ \E n \in 1..Len(stdout) :
       LET s == buf \o SubSeq(stdout, 1, n)
       IN /\ stdout' = SubSeq(stdout, n + 1, Len(stdout))
          /\ ready' = Split(s)
          /\ buf' = HeldBack(s)
  /\ UNCHANGED <<captured, slot, feeder, feeding, fifo, resets, inside, sinceKey,
                 latest, shown, stop>>

\* LatestEncoded::publish with the stamp that TimestampFifo::pop returns.
\* Mutant: the newest stamp is handed out.
PoppedMutant == IF fifo = <<>> THEN 0 ELSE Last(fifo)
Popped == IF fifo = <<>> THEN 0 ELSE Head(fifo)
Publish ==
  /\ ready # <<>>
  /\ latest' = {[keyframe |-> Head(ready).keyframe, capture |-> Popped,
                 data |-> Head(ready).data]}
  /\ fifo' = IF fifo = <<>> THEN <<>> ELSE Tail(fifo)
  /\ ready' = Tail(ready)
  /\ UNCHANGED <<captured, slot, feeder, feeding, resets, inside, sinceKey,
                 stdout, buf, shown, stop>>

\* take_latest_timeout and the VideoFrame.
SendLatest ==
  /\ latest # {}
  /\ latest' = {}
  /\ \E u \in latest : shown' = Last(u.data).frame
  /\ UNCHANGED <<captured, slot, feeder, feeding, fifo, resets, inside, sinceKey,
                 stdout, buf, ready, stop>>

StopStage ==
  /\ ~stop
  /\ stop' = TRUE
  /\ UNCHANGED <<captured, slot, feeder, feeding, fifo, resets, inside, sinceKey,
                 stdout, buf, ready, latest, shown>>

Next ==
  \/ Capture \/ FeederTakes \/ FeederPushes \/ FeederWrites \/ Encode
  \/ ReadChunk \/ Publish \/ SendLatest \/ StopStage

Fairness ==
  /\ WF_vars(FeederTakes) /\ WF_vars(FeederPushes) /\ WF_vars(FeederWrites)
  /\ WF_vars(Encode)
  /\ WF_vars(ReadChunk) /\ WF_vars(Publish) /\ WF_vars(SendLatest)

Spec == Init /\ [][Next]_vars /\ Fairness

-----------------------------------------------------------------------------
(* Properties. *)

\* However the pipe is read, what is published is the whole access unit of one
\* frame, and is called a keyframe if and only if it is one (AnnexBSplitter).
WholeFrames ==
  \A u \in latest \cup Range(ready) :
    \E k \in 1..captured : u.data = AccessUnit(k, u.keyframe)

\* The capture time of a unit is that of its own frame, as long as the queue
\* never had to be cleared; after that it is unknown or too late, so that a
\* latency is never overstated (TimestampFifo).
StampsAreTrue ==
  \A u \in latest :
    LET k == Last(u.data).frame
    IN IF resets THEN u.capture = 0 \/ u.capture >= k ELSE u.capture = k

\* No picture is sent twice or behind a newer one: what waits in the mailbox is
\* newer than what the client has (FrameSlot, LatestEncoded).
OnlyNewPictures == \A u \in latest : Last(u.data).frame > shown

\* Of two frames that ffmpeg has been given, the older, or a newer one, is sent;
\* only the newest may wait in the splitter for as long as the screen stands
\* still, and nothing else holds a picture back (FrameSlot, LatestEncoded).
Given == Range(inside) \cup FramesIn(stdout \o buf)
NewPicturesAreSent ==
  \A k \in 1..MaxFrame :
    k \in Given /\ (\E n \in Given : n > k) ~> shown >= k

\* "Keyframes are never dropped, at any stage, in any mode"
\* (docs/superpowers/plans/2026-07-22-streaming-sync-modes.md:16): one that has
\* been published leaves LatestEncoded only to be sent.
KeyframesAreSent ==
  [][\A u \in latest : u.keyframe /\ u \notin latest' =>
       shown' = Last(u.data).frame]_vars
=============================================================================
