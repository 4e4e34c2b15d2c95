----------------------------- MODULE ClientDecoder -----------------------------
(***************************************************************************)
(* The phone's video decoder (MainActivity.java): one connected session,   *)
(* whose network thread feeds frames and rebuilds the decoder when a       *)
(* VideoConfig announces other dimensions, while the UI thread releases    *)
(* and rebinds it as Android destroys and recreates the video surface.     *)
(* The fields codec, availableInputs and inFlight are shared by the two    *)
(* threads and the codec's callback thread without a lock.                 *)
(*                                                                         *)
(* A MediaCodec is a number, an input buffer is the number of the codec    *)
(* that offered it, and a VideoConfig is counted.  Of a frame it matters   *)
(* whether it is a keyframe, the only kind a codec can start from.         *)
(***************************************************************************)
EXTENDS Naturals, Sequences

CONSTANTS
  MaxCodec,       \* bound: codecs created
  MaxConfig,      \* bound: configs received, the first included
  MaxSurface,     \* bound: times the surface is destroyed
  Buffers,        \* input buffers of a codec
  LateCallbacks   \* a callback may be running still when its codec is stopped

ASSUME DecoderAssumption ==
  /\ {MaxCodec, MaxConfig, Buffers} \subseteq Nat \ {0}
  /\ MaxSurface \in Nat
  /\ MaxCodec >= MaxConfig + MaxSurface
  /\ LateCallbacks \in BOOLEAN

VARIABLES
  late,      \* whether that happens in this behaviour
  pc,        \* of the threads "net" and "ui"
  surface,   \* the surface is valid
  lost,      \* times the surface was destroyed, which tells surfaces apart
  config,    \* videoConfig, counting those with other dimensions
  codec,     \* the codec field: a codec, or 0 for null
  state,     \* of each codec
  bound,     \* the surface each codec was bound to
  callback,  \* what each codec's callback thread is doing
  offered,   \* availableInputs: the codecs of the buffers in it
  free,      \* input buffers each codec has yet to offer
  queued,    \* frames inside each codec
  index,     \* the buffer the network thread has polled
  permits,   \* of the semaphore inFlight
  primed,    \* the codecs that have been fed one
  dead       \* frames inside each codec that it will never output

shared == <<codec, offered, permits>>
screen == <<late, surface, lost, config>>
codecs == <<state, bound, callback, free, queued>>
inside == <<primed, dead>>
vars   == <<pc, screen, shared, codecs, index, inside>>

Codecs == 1..MaxCodec

\* releaseCodec runs through "stop" to "refill", configureCodec through "make"
\* and "start"; "to" names what follows the release.
Releasing == {"stop", "drop", "clear", "drain", "refill"}
Idle(to)  == [at |-> "idle", to |-> to]
At(p, to) == [at |-> p, to |-> to]

TypeOK ==
  /\ pc \in [{"net", "ui"} ->
               [at : {"idle", "acquire", "poll", "queue", "make", "start", "failed"}
                     \cup Releasing,
                to : {"nothing", "configure"}]]
  /\ late \in BOOLEAN /\ surface \in BOOLEAN
  /\ lost \in 0..MaxSurface
  /\ config \in 1..MaxConfig
  /\ codec \in 0..MaxCodec
  /\ state \in [Codecs -> {"none", "made", "started", "released"}]
  /\ bound \in [Codecs -> 0..MaxSurface]
  /\ callback \in [Codecs -> {"idle", "input", "output"}]
  /\ offered \in Seq(0..MaxCodec)
  /\ free \in [Codecs -> 0..Buffers]
  /\ queued \in [Codecs -> 0..Buffers]
  /\ index \in 0..MaxCodec
  /\ permits \in Nat
  /\ primed \subseteq Codecs
  /\ dead \in [Codecs -> 0..Buffers] /\ \A c \in Codecs : dead[c] <= queued[c]

\* runNetwork has configured the first codec and set connected.
Init ==
  /\ pc = [t \in {"net", "ui"} |-> Idle("nothing")]
  /\ late \in {FALSE, LateCallbacks}
  /\ surface = TRUE /\ lost = 0 /\ config = 1
  /\ codec = 1
  /\ state = [c \in Codecs |-> IF c = 1 THEN "started" ELSE "none"]
  /\ bound = [c \in Codecs |-> 0]
  /\ callback = [c \in Codecs |-> "idle"]
  /\ offered = <<>> /\ index = 0 /\ permits = 1
  /\ free = [c \in Codecs |-> Buffers]
  /\ queued = [c \in Codecs |-> 0]
  /\ primed = {} /\ dead = [c \in Codecs |-> 0]

Created == {c \in Codecs : state[c] # "none"}

-----------------------------------------------------------------------------
(* releaseCodec, by either thread.                                         *)

Goes(t, from, p) == pc[t].at = from /\ pc' = [pc EXCEPT ![t].at = p]

\* What the codec has been fed goes with it.
Stop(t) ==
  /\ Goes(t, "stop", "drop")
  /\ codec # 0 /\ ~late => callback[codec] = "idle"
  /\ state' = IF codec = 0 THEN state ELSE [state EXCEPT ![codec] = "released"]
  /\ primed' = primed \ {codec}
  /\ dead' = [c \in Codecs |-> IF c = codec THEN 0 ELSE dead[c]]
  /\ UNCHANGED <<screen, shared, bound, callback, free, queued, index>>

Drop(t) ==
  /\ Goes(t, "drop", "clear")
  /\ codec' = 0
  /\ UNCHANGED <<screen, offered, permits, codecs, index, inside>>

\* Mutant: the buffers of the old codec stay in the queue.
ClearNothing(t) ==
  /\ Goes(t, "clear", "drain")
  /\ UNCHANGED <<screen, shared, codecs, index, inside>>

Clear(t) ==
  /\ Goes(t, "clear", "drain")
  /\ offered' = <<>>
  /\ UNCHANGED <<screen, codec, permits, codecs, index, inside>>

Drain(t) ==
  /\ Goes(t, "drain", "refill")
  /\ permits' = 0
  /\ UNCHANGED <<screen, codec, offered, codecs, index, inside>>

\* surfaceDestroyed returns, and with it the surface goes.
Refill(t) ==
  /\ pc[t].at = "refill"
  /\ permits' = permits + 1
  /\ pc' = [pc EXCEPT ![t].at = IF pc[t].to = "configure" THEN "make" ELSE "idle"]
  /\ surface' = (surface /\ (t = "net" \/ pc[t].to = "configure"))
  /\ UNCHANGED <<late, lost, config, codec, offered, codecs, index, inside>>

ReleaseCodec(t) == Stop(t) \/ Drop(t) \/ Clear(t) \/ Drain(t) \/ Refill(t)

-----------------------------------------------------------------------------
(* configureCodec, by either thread.                                       *)

Make(t) ==
  /\ Goes(t, "make", "start")
  /\ \E c \in Codecs \ Created :
       /\ \A d \in Codecs \ Created : c <= d
       /\ codec' = c
       /\ state' = [state EXCEPT ![c] = "made"]
  /\ UNCHANGED <<screen, offered, permits, bound, callback, free, queued, index, inside>>

\* configure and start are called on the field, whatever it now holds, and
\* throw unless it is a new codec, with a valid surface that no other uses.
Usable ==
  /\ codec # 0 /\ surface
  /\ state[codec] = "made"
  /\ \A c \in Codecs : state[c] = "started" => bound[c] # lost

Start(t) ==
  /\ Goes(t, "start", "idle")
  /\ Usable
  /\ state' = [state EXCEPT ![codec] = "started"]
  /\ bound' = [bound EXCEPT ![codec] = lost]
  /\ UNCHANGED <<screen, shared, callback, free, queued, index, inside>>

\* The exception ends the session (runNetwork) or the app (the UI thread).
StartThrows(t) ==
  /\ Goes(t, "start", "failed")
  /\ ~Usable
  /\ UNCHANGED <<screen, shared, codecs, index, inside>>

ConfigureCodec(t) == Make(t) \/ Start(t) \/ StartThrows(t)

-----------------------------------------------------------------------------
(* The network thread.                                                     *)

\* handleVideoFrame.  A frame that is skipped, which only a frame other than a
\* keyframe is, and only with more in the socket behind it, changes nothing.
Frame ==
  /\ Goes("net", "idle", "acquire")
  /\ UNCHANGED <<screen, shared, codecs, index, inside>>

\* Mutant: a VideoConfig with the same dimensions rebuilds the decoder too.
ConfigChangeAlways ==
  /\ pc["net"].at = "idle"
  /\ pc' = [pc EXCEPT !["net"] = At("stop", "configure")]
  /\ UNCHANGED <<screen, shared, codecs, index, inside>>

\* handleVideoConfigChange, with other dimensions.
ConfigChange ==
  /\ pc["net"].at = "idle"
  /\ config < MaxConfig
  /\ config' = config + 1
  /\ pc' = [pc EXCEPT !["net"] = At("stop", "configure")]
  /\ UNCHANGED <<late, surface, lost, shared, codecs, index, inside>>

Acquire ==
  /\ Goes("net", "acquire", "poll")
  /\ permits > 0
  /\ permits' = permits - 1
  /\ UNCHANGED <<screen, codec, offered, codecs, index, inside>>

\* Mutant: acquire without a time limit.
WaitForPermit == FALSE /\ UNCHANGED vars

\* "decoder saturated -- dropping frame"
AcquireTimesOut ==
  /\ Goes("net", "acquire", "idle")
  /\ permits = 0
  /\ UNCHANGED <<screen, shared, codecs, index, inside>>

\* Mutant: the buffer is looked at, and stays in the queue.
PollWithoutTaking ==
  /\ Goes("net", "poll", "queue")
  /\ offered # <<>>
  /\ index' = Head(offered)
  /\ UNCHANGED <<screen, shared, codecs, inside>>

Poll ==
  /\ Goes("net", "poll", "queue")
  /\ offered # <<>>
  /\ index' = Head(offered)
  /\ offered' = Tail(offered)
  /\ UNCHANGED <<screen, codec, permits, codecs, inside>>

PollTimesOut ==
  /\ Goes("net", "poll", "idle")
  /\ offered = <<>>
  /\ permits' = permits + 1
  /\ UNCHANGED <<screen, codec, offered, codecs, index, inside>>

Running == codec # 0 /\ state[codec] = "started"

\* A decoder fed other frames before its first keyframe accepts them, and never
\* outputs them.
Fed(c) ==
  /\ queued' = [queued EXCEPT ![c] = @ + 1]
  /\ \/ primed' = primed \cup {c} /\ UNCHANGED dead
     \/ c \in primed /\ UNCHANGED <<primed, dead>>
     \/ /\ c \notin primed /\ UNCHANGED primed
        /\ dead' = [dead EXCEPT ![c] = @ + 1]

QueueInput ==
  /\ Goes("net", "queue", "idle")
  /\ Running /\ index = codec
  /\ Fed(codec)
  /\ UNCHANGED <<screen, shared, state, bound, callback, free, index>>

\* A buffer number of an older codec may be one the new codec has offered as
\* well; that one is then used up while still in the queue.
QueueStaleInput ==
  /\ Goes("net", "queue", "idle")
  /\ Running /\ index # codec
  /\ \E i \in 1..Len(offered) :
       /\ offered[i] = codec
       /\ offered' = [offered EXCEPT ![i] = 0]
  /\ Fed(codec)
  /\ UNCHANGED <<screen, codec, permits, state, bound, callback, free, index>>

\* No such buffer, or no codec: feedDecoder logs the exception, and the
\* permit is gone.
QueueThrows ==
  /\ Goes("net", "queue", "idle")
  /\ ~Running \/ index # codec
  /\ UNCHANGED <<screen, shared, codecs, index, inside>>

FeedDecoder ==
  \/ Acquire \/ AcquireTimesOut \/ Poll \/ PollTimesOut
  \/ QueueInput \/ QueueStaleInput \/ QueueThrows

-----------------------------------------------------------------------------
(* The UI thread.                                                          *)

SurfaceDestroyed ==
  /\ pc["ui"].at = "idle"
  /\ surface /\ lost < MaxSurface
  /\ lost' = lost + 1
  /\ pc' = [pc EXCEPT !["ui"] = At("stop", "nothing")]
  /\ UNCHANGED <<late, surface, config, shared, codecs, index, inside>>

\* Mutant: the codec is not rebound.
SurfaceCreatedNoRebind ==
  /\ pc["ui"].at = "idle" /\ ~surface
  /\ pc["net"].at # "failed"
  /\ surface' = TRUE
  /\ pc' = [pc EXCEPT !["ui"] = Idle("nothing")]
  /\ UNCHANGED <<late, lost, config, shared, codecs, index, inside>>

\* With a live session the decoder is rebound.  Without one a connection is
\* started, which is not the matter of this module.
SurfaceCreated ==
  /\ pc["ui"].at = "idle" /\ ~surface
  /\ pc["net"].at # "failed"
  /\ surface' = TRUE
  /\ pc' = [pc EXCEPT !["ui"] = At("stop", "configure")]
  /\ UNCHANGED <<late, lost, config, shared, codecs, index, inside>>

-----------------------------------------------------------------------------
(* The callback thread of each codec.                                      *)

InputBegins(c) ==
  /\ state[c] = "started" /\ callback[c] = "idle"
  /\ free[c] > 0
  /\ callback' = [callback EXCEPT ![c] = "input"]
  /\ free' = [free EXCEPT ![c] = @ - 1]
  /\ UNCHANGED <<pc, screen, shared, state, bound, queued, index, inside>>

InputOffers(c) ==
  /\ callback[c] = "input"
  /\ callback' = [callback EXCEPT ![c] = "idle"]
  /\ offered' = Append(offered, c)
  /\ UNCHANGED <<pc, screen, codec, permits, state, bound, free, queued, index, inside>>

OutputBegins(c) ==
  /\ state[c] = "started" /\ callback[c] = "idle"
  /\ queued[c] > dead[c]
  /\ callback' = [callback EXCEPT ![c] = "output"]
  /\ queued' = [queued EXCEPT ![c] = @ - 1]
  /\ free' = [free EXCEPT ![c] = @ + 1]
  /\ UNCHANGED <<pc, screen, shared, state, bound, index, inside>>

OutputReleases(c) ==
  /\ callback[c] = "output"
  /\ callback' = [callback EXCEPT ![c] = "idle"]
  /\ permits' = permits + 1
  /\ UNCHANGED <<pc, screen, codec, offered, state, bound, free, queued, index, inside>>

Callback(c) ==
  InputBegins(c) \/ InputOffers(c) \/ OutputBegins(c) \/ OutputReleases(c)

-----------------------------------------------------------------------------
ThreadStep(t) == ReleaseCodec(t) \/ ConfigureCodec(t)

Next ==
  \/ Frame \/ ConfigChange \/ FeedDecoder
  \/ SurfaceDestroyed \/ SurfaceCreated
  \/ ThreadStep("net") \/ ThreadStep("ui")
  \/ \E c \in Codecs : Callback(c)

\* Each thread runs on and timed waits expire; a destroyed surface comes back
\* and the host sends frames for as long as the session lives.
Fairness ==
  /\ WF_vars(Frame) /\ WF_vars(FeedDecoder) /\ WF_vars(SurfaceCreated)
  /\ \A t \in {"net", "ui"} : WF_vars(ThreadStep(t))
  /\ \A c \in Codecs : WF_vars(Callback(c))

Spec == Init /\ [][Next]_vars /\ Fairness

-----------------------------------------------------------------------------
(* Properties.                                                             *)

\* surfaceCreated: a live network session must survive a surface recreation,
\* and so must the app.
SessionUp == \A t \in {"net", "ui"} : pc[t].at # "failed"

\* It does as long as no VideoConfig comes in between.
SurfaceIsHarmless == config = 1 => SessionUp

\* releaseCodec: a permit that nothing will ever release would stall playback
\* with no error anywhere.  When no thread is at work on the decoder and it
\* holds no frame, the permit is there, unless a callback outlived its codec
\* or a VideoConfig came in between.  (A frame fed before the first keyframe is
\* held for ever: PictureComesBack.)
AtRest == /\ \A t \in {"net", "ui"} : pc[t].at = "idle"
          /\ \A c \in Codecs : callback[c] = "idle"
NeverStalls ==
  ~late /\ config = 1 /\ AtRest /\ Running /\ queued[codec] = 0 => permits > 0

\* queuedAtUs: inFlight caps the frames in flight at one.
OneInFlight == Running => queued[codec] <= 1

\* Whatever becomes of the decoder, the network thread comes back to its
\* socket, or its session ends with an error (surfaceDestroyed: feedDecoder
\* drops frames meanwhile).
NetworkGoesOn == pc["net"].at # "idle" ~> pc["net"].at \in {"idle", "failed"}

\* The frames that come out on the present surface.
Shown == Running /\ bound[codec] = lost /\ callback[codec] = "output"

\* A surface that has come back shows frames again, for as long as it stays:
\* the decoder bound to it puts out frames.  Stated of the surface after it has
\* gone for the last time, and of a stream that never has a decoder fed another
\* frame before a keyframe.
PictureReturns == ~late /\ [](config = 1) /\ [](\A c \in Codecs : dead[c] = 0) =>
  (surface /\ lost = MaxSurface /\ pc["ui"].at = "idle") ~> Shown

\* surfaceCreated: all that a connected session needs is its decoder rebound.
PictureComesBack == ~late /\ [](config = 1) =>
  (surface /\ lost = MaxSurface /\ pc["ui"].at = "idle") ~> Shown
===============================================================================
