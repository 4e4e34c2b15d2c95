-------------------------- MODULE ClientDecoderProofs --------------------------
(***************************************************************************)
(* Proved here for any number of recreations, codecs and input buffers:    *)
(* the types, with no codec ever having more input buffers about than it   *)
(* owns; that a recreation of the surface ends neither the session nor the *)
(* app; and that at rest the permit is there, so playback never stalls.    *)
(* The last two hold as long as no VideoConfig comes in between.           *)
(***************************************************************************)
EXTENDS ClientDecoder, FiniteSetTheorems, TLAPS

Building == Releasing \cup {"make", "start"}

\* The types the argument needs.
Types ==
  /\ pc \in [{"net", "ui"} ->
               [at : {"idle", "acquire", "poll", "queue", "failed"} \cup Building,
                to : {"nothing", "configure"}]]
  /\ surface \in BOOLEAN
  /\ lost \in Nat /\ config \in Nat \ {0}
  /\ codec \in 0..MaxCodec
  /\ state \in [Codecs -> {"none", "made", "started", "released"}]
  /\ bound \in [Codecs -> Nat]

\* Only the UI thread works on the codec.
NetworkOnlyFeeds == pc["net"].at \in {"idle", "acquire", "poll", "queue"}

\* It has made the codec it is about to start, for a surface that is there.
ReadyToStart ==
  /\ pc["ui"].at # "failed"
  /\ pc["ui"].at \in {"make", "start"} => pc["ui"].to = "configure"
  /\ pc["ui"].at \in Building /\ pc["ui"].to = "configure" => surface
  /\ pc["ui"].at = "start" => codec # 0 /\ state[codec] = "made"

\* No codec is bound to a surface yet to come, nor to the present one before
\* the UI thread has finished with it.
SurfaceIsFree ==
  \A c \in Codecs : state[c] = "started" =>
    /\ bound[c] <= lost
    /\ ~surface \/ pc["ui"].at \in Building => bound[c] < lost

Undisturbed == NetworkOnlyFeeds /\ ReadyToStart /\ SurfaceIsFree

IInv == Types /\ (config = 1 => Undisturbed)

-----------------------------------------------------------------------------
\* Types are preserved by every step.
LEMMA TypesStep == Types /\ [Next]_vars => Types'
<1> SUFFICES ASSUME Types, [Next]_vars PROVE Types'
  OBVIOUS
<1> USE DecoderAssumption DEF DecoderAssumption, Types, Building, Releasing, Codecs
<1>1. ASSUME NEW t \in {"net", "ui"}, ReleaseCodec(t) PROVE Types'
  <2>1. CASE Stop(t) BY <2>1 DEF Stop, Goes, screen, shared
  <2>2. CASE Drop(t) BY <2>2 DEF Drop, Goes, screen, codecs
  <2>3. CASE Clear(t) BY <2>3 DEF Clear, Goes, screen, codecs
  <2>4. CASE Drain(t) BY <2>4 DEF Drain, Goes, screen, codecs
  <2>5. CASE Refill(t) BY <2>5 DEF Refill, codecs
  <2> QED BY <1>1, <2>1, <2>2, <2>3, <2>4, <2>5 DEF ReleaseCodec
<1>2. ASSUME NEW t \in {"net", "ui"}, ConfigureCodec(t) PROVE Types'
  <2>1. CASE Make(t)
    <3>1. PICK c \in Codecs : codec' = c /\ state' = [state EXCEPT ![c] = "made"]
      BY <2>1 DEF Make, Created
    <3>2. /\ UNCHANGED <<surface, lost, config, bound>>
          /\ pc' = [pc EXCEPT ![t].at = "start"]
      BY <2>1 DEF Make, Goes, screen
    <3>3. codec' \in 0..MaxCodec
      BY <3>1
    <3>4. state' \in [Codecs -> {"none", "made", "started", "released"}]
      BY <3>1
    <3>5. pc' \in [{"net", "ui"} ->
               [at : {"idle", "acquire", "poll", "queue", "failed"} \cup Building,
                to : {"nothing", "configure"}]]
      BY <3>2
    <3> QED BY <3>2, <3>3, <3>4, <3>5
  <2>2. CASE Start(t) BY <2>2 DEF Start, Usable, Goes, screen, shared
  <2>3. CASE StartThrows(t) BY <2>3 DEF StartThrows, Goes, screen, shared, codecs
  <2> QED BY <1>2, <2>1, <2>2, <2>3 DEF ConfigureCodec
<1>3. CASE Frame BY <1>3 DEF Frame, Goes, screen, shared, codecs
<1>4. CASE ConfigChange BY <1>4 DEF ConfigChange, At, shared, codecs
<1>5. CASE FeedDecoder
  <2>1. CASE Acquire BY <2>1 DEF Acquire, Goes, screen, codecs
  <2>2. CASE AcquireTimesOut BY <2>2 DEF AcquireTimesOut, Goes, screen, shared, codecs
  <2>3. CASE Poll BY <2>3 DEF Poll, Goes, screen, codecs
  <2>4. CASE PollTimesOut BY <2>4 DEF PollTimesOut, Goes, screen, codecs
  <2>5. CASE QueueInput BY <2>5 DEF QueueInput, Goes, screen, shared
  <2>6. CASE QueueStaleInput BY <2>6 DEF QueueStaleInput, Goes, screen
  <2>7. CASE QueueThrows BY <2>7 DEF QueueThrows, Goes, screen, shared, codecs
  <2> QED BY <1>5, <2>1, <2>2, <2>3, <2>4, <2>5, <2>6, <2>7 DEF FeedDecoder
<1>6. CASE SurfaceDestroyed BY <1>6 DEF SurfaceDestroyed, At, shared, codecs
<1>7. CASE SurfaceCreated BY <1>7 DEF SurfaceCreated, At, shared, codecs
<1>8. ASSUME NEW c \in Codecs, Callback(c) PROVE Types'
  BY <1>8 DEF Callback, InputBegins, InputOffers, OutputBegins, OutputReleases,
              screen, shared
<1>9. CASE UNCHANGED vars BY <1>9 DEF vars, screen, shared, codecs
<1> QED
  BY <1>1, <1>2, <1>3, <1>4, <1>5, <1>6, <1>7, <1>8, <1>9 DEF Next, ThreadStep

-----------------------------------------------------------------------------
\* A step that leaves the UI thread, the surface and the codecs alone keeps
\* what is said of them.
LEMMA FeedingIsHarmless ==
  ASSUME ReadyToStart, SurfaceIsFree,
         pc'["ui"] = pc["ui"], UNCHANGED <<surface, lost, codec, state, bound>>
  PROVE  ReadyToStart' /\ SurfaceIsFree'
BY DEF ReadyToStart, SurfaceIsFree

\* While the config stays, the network thread feeds and the UI thread finds
\* what it needs.
LEMMA UndisturbedStep ==
  Types /\ (config = 1 => Undisturbed) /\ [Next]_vars => (config' = 1 => Undisturbed')
<1> SUFFICES ASSUME Types, config = 1 => Undisturbed, [Next]_vars, config' = 1
             PROVE  Undisturbed'
  OBVIOUS
<1> USE DEF Building, Releasing, Codecs
<1>0. config = 1 /\ ~ConfigChange
  BY DEF Types, Next, vars, screen, Frame, ConfigChange, FeedDecoder, Acquire,
         AcquireTimesOut, Poll, PollTimesOut, QueueInput, QueueStaleInput,
         QueueThrows, SurfaceDestroyed, SurfaceCreated, ThreadStep, ReleaseCodec,
         Stop, Drop, Clear, Drain, Refill, ConfigureCodec, Make, Start, StartThrows,
         Callback, InputBegins, InputOffers, OutputBegins, OutputReleases
<1>1. NetworkOnlyFeeds /\ ReadyToStart /\ SurfaceIsFree
  BY <1>0 DEF Undisturbed
<1>2. Types'
  BY TypesStep
<1>3. ~ThreadStep("net")
  BY <1>1 DEF NetworkOnlyFeeds, ThreadStep, ReleaseCodec, Stop, Drop, Clear, Drain,
              Refill, ConfigureCodec, Make, Start, StartThrows, Goes
<1>4. ASSUME Frame \/ FeedDecoder
      PROVE  NetworkOnlyFeeds' /\ pc'["ui"] = pc["ui"]
             /\ UNCHANGED <<surface, lost, codec, state, bound>>
  BY <1>4 DEF Types, NetworkOnlyFeeds, Frame, FeedDecoder, Acquire, AcquireTimesOut,
              Poll, PollTimesOut, QueueInput, QueueStaleInput, QueueThrows, Goes,
              screen, shared, codecs
<1>5. ASSUME NEW c \in Codecs, Callback(c)
      PROVE  UNCHANGED <<pc, surface, lost, codec, state, bound>>
  BY <1>5 DEF Callback, InputBegins, InputOffers, OutputBegins, OutputReleases,
              screen, shared
<1>6. CASE SurfaceDestroyed
  <2>1. pc["ui"].at = "idle" /\ pc'["ui"] = [at |-> "stop", to |-> "nothing"]
        /\ pc'["net"] = pc["net"]
        /\ lost' = lost + 1 /\ UNCHANGED <<surface, codec, state, bound>>
    BY <1>6 DEF SurfaceDestroyed, At, Types, shared, codecs
  <2>2. NetworkOnlyFeeds' /\ ReadyToStart'
    BY <1>1, <2>1 DEF NetworkOnlyFeeds, ReadyToStart
  <2>3. SurfaceIsFree'
    BY <1>1, <2>1 DEF SurfaceIsFree, Types
  <2> QED BY <2>2, <2>3 DEF Undisturbed
<1>7. CASE SurfaceCreated
  <2>1. ~surface /\ surface' /\ pc'["ui"] = [at |-> "stop", to |-> "configure"]
        /\ pc'["net"] = pc["net"]
        /\ UNCHANGED <<lost, codec, state, bound>>
    BY <1>7 DEF SurfaceCreated, At, Types, shared, codecs
  <2>2. NetworkOnlyFeeds' /\ ReadyToStart'
    BY <1>1, <2>1 DEF NetworkOnlyFeeds, ReadyToStart
  <2>3. SurfaceIsFree'
    BY <1>1, <2>1 DEF SurfaceIsFree
  <2> QED BY <2>2, <2>3 DEF Undisturbed
<1>8. CASE ReleaseCodec("ui")
  <2>1. /\ pc["ui"].at \in Releasing
        /\ pc'["net"] = pc["net"] /\ pc'["ui"].to = pc["ui"].to
        /\ UNCHANGED <<lost, bound>>
        /\ \A c \in Codecs : state'[c] = "started" => state[c] = "started"
        /\ pc'["ui"].at \in Releasing
             \cup {IF pc["ui"].to = "configure" THEN "make" ELSE "idle"}
        /\ pc["ui"].to = "configure" => surface' = surface
        /\ pc["ui"].to # "configure" => pc'["ui"].at \in Releasing \/ ~surface'
    <3>1. CASE Stop("ui")
      BY <3>1 DEF Stop, Goes, Types, screen, shared
    <3>2. CASE Drop("ui")
      BY <3>2 DEF Drop, Goes, Types, screen, codecs
    <3>3. CASE Clear("ui")
      BY <3>3 DEF Clear, Goes, Types, screen, codecs
    <3>4. CASE Drain("ui")
      BY <3>4 DEF Drain, Goes, Types, screen, codecs
    <3>5. CASE Refill("ui")
      BY <3>5 DEF Refill, Types, codecs
    <3> QED BY <1>8, <3>1, <3>2, <3>3, <3>4, <3>5 DEF ReleaseCodec
  <2>2. NetworkOnlyFeeds'
    BY <1>1, <2>1 DEF NetworkOnlyFeeds
  <2>3. ReadyToStart'
    BY <1>1, <2>1 DEF ReadyToStart
  <2>4. SurfaceIsFree'
    BY <1>1, <2>1 DEF SurfaceIsFree
  <2> QED BY <2>2, <2>3, <2>4 DEF Undisturbed
<1>9. CASE Make("ui")
  <2>1. pc["ui"].at = "make" /\ pc'["ui"] = [pc["ui"] EXCEPT !.at = "start"]
        /\ pc'["net"] = pc["net"] /\ UNCHANGED <<surface, lost, bound>>
    BY <1>9 DEF Make, Goes, Types, screen
  <2>2. PICK c \in Codecs : codec' = c /\ state' = [state EXCEPT ![c] = "made"]
    BY <1>9 DEF Make, Created
  <2>3. NetworkOnlyFeeds'
    BY <1>1, <2>1 DEF NetworkOnlyFeeds
  <2>4. ReadyToStart'
    BY <1>1, <2>1, <2>2, DecoderAssumption DEF ReadyToStart, Types, DecoderAssumption
  <2>5. SurfaceIsFree'
    BY <1>1, <2>1, <2>2 DEF SurfaceIsFree, Types
  <2> QED BY <2>3, <2>4, <2>5 DEF Undisturbed
<1>10. CASE Start("ui")
  <2>1. pc["ui"].at = "start" /\ pc'["ui"] = [pc["ui"] EXCEPT !.at = "idle"]
        /\ pc'["net"] = pc["net"] /\ UNCHANGED <<surface, lost, codec>>
        /\ surface /\ codec # 0
        /\ state' = [state EXCEPT ![codec] = "started"]
        /\ bound' = [bound EXCEPT ![codec] = lost]
    BY <1>10 DEF Start, Usable, Goes, Types, screen, shared
  <2>2. NetworkOnlyFeeds' /\ ReadyToStart'
    BY <1>1, <2>1 DEF NetworkOnlyFeeds, ReadyToStart
  <2>3. SurfaceIsFree'
    BY <1>1, <2>1 DEF SurfaceIsFree, Types
  <2> QED BY <2>2, <2>3 DEF Undisturbed
<1>11. ~StartThrows("ui")
  BY <1>1 DEF StartThrows, Goes, Usable, ReadyToStart, SurfaceIsFree, Types
<1>12. CASE UNCHANGED vars
  BY <1>1, <1>12, FeedingIsHarmless
     DEF Undisturbed, NetworkOnlyFeeds, vars, screen, shared, codecs
<1>13. CASE Frame \/ FeedDecoder
  BY <1>1, <1>4, <1>13, FeedingIsHarmless DEF Undisturbed
<1>14. CASE \E c \in Codecs : Callback(c)
  BY <1>1, <1>5, <1>14, FeedingIsHarmless DEF Undisturbed, NetworkOnlyFeeds
<1> QED
  BY <1>0, <1>3, <1>6, <1>7, <1>8, <1>9, <1>10, <1>11, <1>12, <1>13, <1>14
     DEF Next, ThreadStep, ConfigureCodec

\* It holds initially.
LEMMA InitIInv == Init => IInv
BY DecoderAssumption
   DEF Init, IInv, Types, Undisturbed, NetworkOnlyFeeds, ReadyToStart,
       SurfaceIsFree, Idle, Building, Releasing, Codecs, DecoderAssumption

\* The invariant holds of every behaviour.
THEOREM Invariance == Spec => []IInv
<1>1. Init => IInv
  BY InitIInv
<1>2. IInv /\ [Next]_vars => IInv'
  BY TypesStep, UndisturbedStep DEF IInv
<1> QED BY <1>1, <1>2, PTL DEF Spec

\* surfaceCreated: a live network session survives a surface recreation, if no
\* VideoConfig comes in between.
THEOREM SurfaceStaysHarmless == Spec => []SurfaceIsHarmless
<1>1. IInv => SurfaceIsHarmless
  BY DEF IInv, Undisturbed, NetworkOnlyFeeds, ReadyToStart, SurfaceIsHarmless,
         SessionUp
<1> QED BY <1>1, Invariance, PTL

-----------------------------------------------------------------------------
(* Input buffers.  A codec's buffers are at any time free, with its callback  *)
(* thread, in availableInputs, with the network thread or inside the codec;   *)
(* Clear may lose some.                                                       *)

\* How many buffers of codec c are in the queue s.
Places(s, c) == {i \in 1..Len(s) : s[i] = c}
Count(s, c) == Cardinality(Places(s, c))
One(b) == IF b THEN 1 ELSE 0

\* An empty queue counts nothing, and counts are numbers.
LEMMA CountType ==
  ASSUME NEW S, NEW s \in Seq(S), NEW c
  PROVE  /\ IsFiniteSet(Places(s, c)) /\ Count(s, c) \in Nat
         /\ s = <<>> => Count(s, c) = 0
<1>1. IsFiniteSet(1..Len(s))
  BY FS_Interval
<1>2. Places(s, c) \in SUBSET (1..Len(s))
  BY DEF Places
<1>3. IsFiniteSet(Places(s, c))
  BY <1>1, <1>2, FS_Subset
<1>4. s = <<>> => Places(s, c) = {}
  BY DEF Places
<1> QED
  BY <1>3, <1>4, FS_CardinalityType, FS_EmptySet DEF Count

\* An offered buffer counts for its codec.
LEMMA CountAppend ==
  ASSUME NEW S, NEW s \in Seq(S), NEW d \in S, NEW c
  PROVE  Count(Append(s, d), c) = Count(s, c) + One(d = c)
<1> DEFINE n == Len(s) + 1
<1>1. /\ Len(Append(s, d)) = n /\ Append(s, d)[n] = d /\ Len(s) \in Nat
      /\ \A i \in 1..Len(s) : Append(s, d)[i] = s[i]
  OBVIOUS
<1>2. n \notin Places(s, c)
  BY <1>1 DEF Places
<1>3. CASE d = c
  <2>1. Places(Append(s, d), c) = Places(s, c) \cup {n}
    BY <1>1, <1>3 DEF Places
  <2> QED
    BY <1>2, <1>3, <2>1, CountType, FS_AddElement DEF Count, One
<1>4. CASE d # c
  <2>1. Places(Append(s, d), c) = Places(s, c)
    BY <1>1, <1>4 DEF Places
  <2> QED
    BY <1>4, <2>1, CountType DEF Count, One
<1> QED
  BY <1>3, <1>4

\* A polled buffer no longer counts.
LEMMA CountTail ==
  ASSUME NEW S, NEW s \in Seq(S), s # <<>>, NEW c
  PROVE  Count(s, c) = Count(Tail(s), c) + One(s[1] = c)
<1> DEFINE P == Places(s, c) \ {1}
           f == [i \in Places(Tail(s), c) |-> i + 1]
<1>1. /\ Tail(s) \in Seq(S) /\ Len(s) \in Nat \ {0}
      /\ Len(Tail(s)) = Len(s) - 1
      /\ \A i \in 1..(Len(s) - 1) : Tail(s)[i] = s[i + 1]
  OBVIOUS
<1>2. f \in Bijection(Places(Tail(s), c), P)
  <2>1. \A i \in Places(Tail(s), c) : f[i] \in P
    BY <1>1 DEF Places
  <2>2. \A i, j \in Places(Tail(s), c) : f[i] = f[j] => i = j
    BY <1>1 DEF Places
  <2>3. \A k \in P : \E i \in Places(Tail(s), c) : f[i] = k
    <3> SUFFICES ASSUME NEW k \in P PROVE \E i \in Places(Tail(s), c) : f[i] = k
      OBVIOUS
    <3>1. k \in 2..Len(s) /\ s[k] = c
      BY <1>1 DEF Places
    <3>2. k - 1 \in 1..(Len(s) - 1) /\ (k - 1) + 1 = k
      BY <1>1, <3>1
    <3>3. k - 1 \in Places(Tail(s), c)
      BY <1>1, <3>1, <3>2 DEF Places
    <3> QED
      BY <3>2, <3>3
  <2> QED
    BY <2>1, <2>2, <2>3 DEF Bijection, Injection, IsInjective, Surjection
<1>3. Cardinality(P) = Count(Tail(s), c)
  BY <1>1, <1>2, CountType, FS_Bijection DEF Count, ExistsBijection
<1>4. 1 \in Places(s, c) <=> s[1] = c
  BY <1>1 DEF Places
<1>5. Cardinality(P) = IF s[1] = c THEN Count(s, c) - 1 ELSE Count(s, c)
  BY <1>4, CountType, FS_RemoveElement DEF Count
<1>6. Count(s, c) \in Nat
  BY CountType
<1> QED
  BY <1>3, <1>5, <1>6 DEF One

\* A buffer used up while in the queue no longer counts for its codec.
LEMMA CountReplace ==
  ASSUME NEW S, NEW s \in Seq(S), NEW i \in 1..Len(s), NEW d \in S, NEW c,
         c # d
  PROVE  Count(s, c) = Count([s EXCEPT ![i] = d], c) + One(s[i] = c)
<1> DEFINE t == [s EXCEPT ![i] = d]
<1>1. t \in Seq(S) /\ Len(t) = Len(s) /\ Len(s) \in Nat
  OBVIOUS
<1>2. \A j \in 1..Len(s) : t[j] = IF j = i THEN d ELSE s[j]
  OBVIOUS
<1>3. Places(t, c) = Places(s, c) \ {i}
  BY <1>1, <1>2 DEF Places
<1>4. i \in Places(s, c) <=> s[i] = c
  BY DEF Places
<1>5. Count(t, c) = IF s[i] = c THEN Count(s, c) - 1 ELSE Count(s, c)
  BY <1>3, <1>4, CountType, FS_RemoveElement DEF Count
<1>6. Count(s, c) \in Nat
  BY CountType
<1> QED
  BY <1>5, <1>6 DEF One

\* The types of what the callbacks and the network thread hand over, without
\* the bounds that BuffersKept gives.
FlowTypes ==
  /\ Types
  /\ late \in BOOLEAN
  /\ lost \in 0..MaxSurface /\ config \in 1..MaxConfig
  /\ bound \in [Codecs -> 0..MaxSurface]
  /\ callback \in [Codecs -> {"idle", "input", "output"}]
  /\ offered \in Seq(0..MaxCodec)
  /\ free \in [Codecs -> Nat]
  /\ queued \in [Codecs -> Nat]
  /\ index \in 0..MaxCodec
  /\ permits \in Nat

\* No codec holds more frames for ever than it holds.
HeldForEver ==
  /\ primed \subseteq Codecs
  /\ dead \in [Codecs -> Nat]
  /\ \A c \in Codecs : dead[c] <= queued[c]

\* The buffers of a codec that are accounted for.
InHand(c) == One(pc["net"].at = "queue" /\ index = c)
Buffered(c) ==
  free[c] + queued[c] + Count(offered, c) + One(callback[c] = "input") + InHand(c)
BuffersKept == \A c \in Codecs : Buffered(c) <= Buffers

\* Types are preserved by every step.
LEMMA FlowTypesStep == FlowTypes /\ HeldForEver /\ [Next]_vars => FlowTypes'
<1> SUFFICES ASSUME FlowTypes, HeldForEver, [Next]_vars PROVE FlowTypes'
  OBVIOUS
<1> USE DecoderAssumption DEF DecoderAssumption, FlowTypes, Codecs
<1>0. Types' /\ codec \in 0..MaxCodec
  BY TypesStep DEF Types
<1> HIDE DEF Types
<1>1. ASSUME NEW t \in {"net", "ui"}, ReleaseCodec(t) PROVE FlowTypes'
  <2>1. CASE Stop(t) BY <1>0, <2>1 DEF Stop, screen, shared
  <2>2. CASE Drop(t) BY <1>0, <2>2 DEF Drop, screen, codecs
  <2>3. CASE Clear(t) BY <1>0, <2>3 DEF Clear, screen, codecs
  <2>4. CASE Drain(t) BY <1>0, <2>4 DEF Drain, screen, codecs
  <2>5. CASE Refill(t) BY <1>0, <2>5 DEF Refill, codecs
  <2> QED BY <1>1, <2>1, <2>2, <2>3, <2>4, <2>5 DEF ReleaseCodec
<1>2. ASSUME NEW t \in {"net", "ui"}, ConfigureCodec(t) PROVE FlowTypes'
  <2>1. CASE Make(t) BY <1>0, <2>1 DEF Make, screen
  <2>2. CASE Start(t) BY <1>0, <2>2 DEF Start, screen, shared
  <2>3. CASE StartThrows(t) BY <1>0, <2>3 DEF StartThrows, screen, shared, codecs
  <2> QED BY <1>2, <2>1, <2>2, <2>3 DEF ConfigureCodec
<1>3. CASE Frame BY <1>0, <1>3 DEF Frame, screen, shared, codecs
<1>4. CASE ConfigChange BY <1>0, <1>4 DEF ConfigChange, shared, codecs
<1>5. CASE FeedDecoder
  <2>1. CASE Acquire BY <1>0, <2>1 DEF Acquire, screen, codecs
  <2>2. CASE AcquireTimesOut
    BY <1>0, <2>2 DEF AcquireTimesOut, screen, shared, codecs
  <2>3. CASE Poll
    <3>1. Head(offered) \in 0..MaxCodec /\ Tail(offered) \in Seq(0..MaxCodec)
      BY <2>3 DEF Poll
    <3> QED BY <1>0, <2>3, <3>1 DEF Poll, screen, codecs
  <2>4. CASE PollTimesOut BY <1>0, <2>4 DEF PollTimesOut, screen, codecs
  <2>5. CASE QueueInput
    <3>0. codec \in Codecs /\ queued \in [Codecs -> Nat]
      BY <1>0, <2>5 DEF QueueInput, Running
    <3>1. queued' \in [Codecs -> Nat]
      <4> HIDE DEF FlowTypes, Codecs
      <4>1. queued[codec] + 1 \in Nat BY <3>0
      <4> QED BY <2>5, <3>0, <4>1 DEF QueueInput, Fed
    <3> QED BY <1>0, <2>5, <3>1 DEF QueueInput, screen, shared
  <2>6. CASE QueueStaleInput
    <3>1. offered' \in Seq(0..MaxCodec)
      BY <2>6 DEF QueueStaleInput
    <3>0. codec \in Codecs /\ queued \in [Codecs -> Nat]
      BY <1>0, <2>6 DEF QueueStaleInput, Running
    <3>2. queued' \in [Codecs -> Nat]
      <4> HIDE DEF FlowTypes, Codecs
      <4>1. queued[codec] + 1 \in Nat BY <3>0
      <4> QED BY <2>6, <3>0, <4>1 DEF QueueStaleInput, Fed
    <3> QED BY <1>0, <2>6, <3>1, <3>2 DEF QueueStaleInput, screen
  <2>7. CASE QueueThrows BY <1>0, <2>7 DEF QueueThrows, screen, shared, codecs
  <2> QED BY <1>5, <2>1, <2>2, <2>3, <2>4, <2>5, <2>6, <2>7 DEF FeedDecoder
<1>6. CASE SurfaceDestroyed BY <1>0, <1>6 DEF SurfaceDestroyed, shared, codecs
<1>7. CASE SurfaceCreated BY <1>0, <1>7 DEF SurfaceCreated, shared, codecs
<1>8. ASSUME NEW c \in Codecs, Callback(c) PROVE FlowTypes'
  <2>1. CASE InputBegins(c)
    <3>0. free[c] \in Nat /\ free[c] > 0
      BY <2>1 DEF InputBegins
    <3>1. free[c] - 1 \in Nat
      <4> HIDE DEF FlowTypes, Codecs
      <4> QED BY <3>0
    <3>2. free' \in [Codecs -> Nat]
      BY <2>1, <3>1 DEF InputBegins
    <3> QED BY <1>0, <2>1, <3>2 DEF InputBegins, screen, shared
  <2>2. CASE InputOffers(c)
    <3>1. offered' \in Seq(0..MaxCodec)
      BY <2>2 DEF InputOffers
    <3> QED BY <1>0, <2>2, <3>1 DEF InputOffers, screen
  <2>3. CASE OutputBegins(c)
    <3>0. free[c] \in Nat /\ queued[c] \in Nat /\ queued[c] > 0
      <4>1. free[c] \in Nat /\ queued[c] \in Nat
        OBVIOUS
      <4>2. dead[c] \in Nat /\ queued[c] > dead[c]
        BY <2>3 DEF OutputBegins, HeldForEver
      <4> HIDE DEF FlowTypes, Codecs
      <4> QED BY <4>1, <4>2
    <3>1. queued[c] - 1 \in Nat /\ free[c] + 1 \in Nat
      <4> HIDE DEF FlowTypes, Codecs
      <4> QED BY <3>0
    <3>2. free' \in [Codecs -> Nat] /\ queued' \in [Codecs -> Nat]
      BY <2>3, <3>1 DEF OutputBegins
    <3> QED BY <1>0, <2>3, <3>2 DEF OutputBegins, screen, shared
  <2>4. CASE OutputReleases(c) BY <1>0, <2>4 DEF OutputReleases, screen
  <2> QED BY <1>8, <2>1, <2>2, <2>3, <2>4 DEF Callback
<1>9. CASE UNCHANGED vars BY <1>0, <1>9 DEF vars, screen, shared, codecs
<1> QED
  BY <1>1, <1>2, <1>3, <1>4, <1>5, <1>6, <1>7, <1>8, <1>9 DEF Next, ThreadStep

\* A step that moves no buffer, or only away from the network thread, keeps the
\* buffers of every codec.
LEMMA BuffersUnmoved ==
  ASSUME FlowTypes, BuffersKept, UNCHANGED <<free, queued, offered, callback, index>>,
         pc'["net"].at = "queue" => pc["net"].at = "queue"
  PROVE  BuffersKept'
<1> SUFFICES ASSUME NEW c \in Codecs PROVE (Buffered(c) <= Buffers)'
  BY DEF BuffersKept
<1>1. /\ free[c] \in Nat /\ queued[c] \in Nat /\ Count(offered, c) \in Nat
      /\ Buffers \in Nat
  BY CountType, DecoderAssumption DEF FlowTypes, DecoderAssumption
<1>2. Buffered(c) <= Buffers
  BY DEF BuffersKept
<1>3. /\ InHand(c) \in {0, 1} /\ InHand(c)' \in {0, 1}
      /\ InHand(c)' = 1 => InHand(c) = 1
      /\ One(callback[c] = "input") \in {0, 1}
  BY DEF InHand, One
<1>4. Count(offered, c)' = Count(offered, c)
      /\ One(callback[c] = "input")' = One(callback[c] = "input")
  OBVIOUS
<1> QED
  BY <1>1, <1>2, <1>3, <1>4 DEF Buffered

\* Every step keeps the buffers of every codec.
LEMMA BuffersStep ==
  FlowTypes /\ HeldForEver /\ BuffersKept /\ [Next]_vars => BuffersKept'
<1> SUFFICES ASSUME FlowTypes, HeldForEver, BuffersKept, [Next]_vars
             PROVE  BuffersKept'
  OBVIOUS
<1>0. /\ pc \in [{"net", "ui"} ->
               [at : {"idle", "acquire", "poll", "queue", "failed"} \cup Building,
                to : {"nothing", "configure"}]]
      /\ codec \in 0..MaxCodec
  BY DEF FlowTypes, Types
<1>a. ASSUME NEW c \in Codecs
      PROVE  /\ free[c] \in Nat /\ queued[c] \in Nat /\ Count(offered, c) \in Nat
             /\ One(callback[c] = "input") \in {0, 1} /\ InHand(c) \in {0, 1}
             /\ Buffers \in Nat /\ Buffered(c) <= Buffers
  BY CountType, DecoderAssumption
     DEF FlowTypes, DecoderAssumption, BuffersKept, InHand, One
<1>1. ASSUME NEW t \in {"net", "ui"}, ReleaseCodec(t) \/ ConfigureCodec(t)
      PROVE  BuffersKept'
  <2>1. CASE Clear(t)
    <3> SUFFICES ASSUME NEW c \in Codecs PROVE (Buffered(c) <= Buffers)'
      BY DEF BuffersKept
    <3>1. Count(offered, c)' = 0
      <4>1. <<>> \in Seq(Nat)
        OBVIOUS
      <4>2. Count(<<>>, c) = 0
        BY <4>1, CountType
      <4> QED BY <2>1, <4>2 DEF Clear
    <3>2. InHand(c)' = 1 => InHand(c) = 1
      BY <1>0, <2>1 DEF Clear, Goes, InHand, One
    <3>3. InHand(c)' \in {0, 1}
      BY DEF InHand, One
    <3> QED BY <1>a, <2>1, <3>1, <3>2, <3>3 DEF Buffered, Clear, codecs
  <2>2. CASE Stop(t)
    BY <1>0, <2>2, BuffersUnmoved DEF Stop, Goes, shared
  <2>3. CASE Drop(t)
    BY <1>0, <2>3, BuffersUnmoved DEF Drop, Goes, codecs
  <2>4. CASE Drain(t)
    BY <1>0, <2>4, BuffersUnmoved DEF Drain, Goes, codecs
  <2>5. CASE Refill(t)
    BY <1>0, <2>5, BuffersUnmoved DEF Refill, codecs
  <2>6. CASE Make(t)
    BY <1>0, <2>6, BuffersUnmoved DEF Make, Goes
  <2>7. CASE Start(t) \/ StartThrows(t)
    BY <1>0, <2>7, BuffersUnmoved DEF Start, StartThrows, Goes, shared, codecs
  <2> QED
    BY <1>1, <2>1, <2>2, <2>3, <2>4, <2>5, <2>6, <2>7 DEF ReleaseCodec, ConfigureCodec
<1>2. CASE Frame \/ ConfigChange \/ SurfaceDestroyed \/ SurfaceCreated
  BY <1>0, <1>2, BuffersUnmoved
     DEF Frame, ConfigChange, SurfaceDestroyed, SurfaceCreated, Goes, At, shared, codecs
<1>3. CASE Acquire \/ AcquireTimesOut \/ PollTimesOut \/ QueueThrows
  BY <1>0, <1>3, BuffersUnmoved
     DEF Acquire, AcquireTimesOut, PollTimesOut, QueueThrows, Goes, shared, codecs
<1>4. CASE Poll
  <2> SUFFICES ASSUME NEW c \in Codecs PROVE (Buffered(c) <= Buffers)'
    BY DEF BuffersKept
  <2>1. Count(offered, c) = Count(offered, c)' + One(offered[1] = c)
    BY <1>4, CountTail DEF Poll, FlowTypes
  <2>2. InHand(c) = 0 /\ InHand(c)' = One(offered[1] = c)
    BY <1>0, <1>4 DEF Poll, Goes, InHand, One, FlowTypes
  <2>3. Count(offered, c)' \in Nat /\ One(offered[1] = c) \in {0, 1}
    BY FlowTypesStep, CountType DEF FlowTypes, One
  <2> QED BY <1>a, <1>4, <2>1, <2>2, <2>3 DEF Buffered, Poll, codecs
<1>5. CASE QueueInput
  <2> SUFFICES ASSUME NEW c \in Codecs PROVE (Buffered(c) <= Buffers)'
    BY DEF BuffersKept
  <2>1. queued'[c] = queued[c] + One(codec = c)
    BY <1>5 DEF QueueInput, Fed, Running, FlowTypes, One, Codecs
  <2>2. InHand(c) = One(codec = c) /\ InHand(c)' = 0
    BY <1>0, <1>5 DEF QueueInput, Goes, InHand, One
  <2> QED BY <1>a, <1>5, <2>1, <2>2 DEF Buffered, QueueInput, shared, One
<1>6. CASE QueueStaleInput
  <2> SUFFICES ASSUME NEW c \in Codecs PROVE (Buffered(c) <= Buffers)'
    BY DEF BuffersKept
  <2>1. PICK i \in 1..Len(offered) :
          offered[i] = codec /\ offered' = [offered EXCEPT ![i] = 0]
    BY <1>6 DEF QueueStaleInput
  <2>2. Count(offered, c) = Count(offered, c)' + One(codec = c)
    <3>1. c # 0 /\ offered \in Seq(0..MaxCodec) /\ 0 \in 0..MaxCodec
      BY DecoderAssumption DEF Codecs, FlowTypes, DecoderAssumption
    <3>2. Count(offered, c)
            = Count([offered EXCEPT ![i] = 0], c) + One(offered[i] = c)
      <4> DEFINE S == 0..MaxCodec
      <4>1. offered \in Seq(S) /\ 0 \in S /\ c # 0 BY <3>1
      <4> HIDE DEF S
      <4> QED BY <4>1, CountReplace
    <3> QED BY <2>1, <3>2
  <2>3. queued'[c] = queued[c] + One(codec = c)
    BY <1>6 DEF QueueStaleInput, Fed, Running, FlowTypes, One, Codecs
  <2>4. InHand(c)' = 0
    BY <1>0, <1>6 DEF QueueStaleInput, Goes, InHand, One
  <2>5. Count(offered, c)' \in Nat /\ One(codec = c) \in {0, 1}
    BY FlowTypesStep, CountType DEF FlowTypes, One
  <2>6. free' = free /\ callback' = callback
    BY <1>6 DEF QueueStaleInput
  <2>7. One(callback[c] = "input")' = One(callback[c] = "input")
    BY <2>6
  <2> DEFINE f == free[c]
             q == queued[c]
             n == Count(offered, c)
             m == Count(offered, c)'
             k == One(callback[c] = "input")
             h == InHand(c)
             o == One(codec = c)
  <2>8. /\ f \in Nat /\ q \in Nat /\ n \in Nat /\ m \in Nat /\ Buffers \in Nat
        /\ k \in {0, 1} /\ h \in {0, 1} /\ o \in {0, 1}
    BY <1>a, <2>5
  <2>9. n = m + o /\ f + q + n + k + h <= Buffers
    BY <1>a, <2>2 DEF Buffered
  <2>10. Buffered(c)' = f + (q + o) + m + k + 0
    BY <2>3, <2>4, <2>6, <2>7 DEF Buffered
  <2> HIDE DEF f, q, n, m, k, h, o
  <2> QED BY <2>8, <2>9, <2>10
<1>7. ASSUME NEW d \in Codecs, Callback(d) PROVE BuffersKept'
  <2> SUFFICES ASSUME NEW c \in Codecs PROVE (Buffered(c) <= Buffers)'
    BY DEF BuffersKept
  <2>0. InHand(c)' = InHand(c)
    BY <1>7 DEF Callback, InputBegins, InputOffers, OutputBegins, OutputReleases,
                InHand, One
  <2>1. CASE InputBegins(d)
    <3>1. free'[c] = free[c] - One(d = c)
          /\ One(callback[c] = "input")' = One(callback[c] = "input") + One(d = c)
      BY <2>1 DEF InputBegins, FlowTypes, One
    <3>2. Count(offered, c)' = Count(offered, c) /\ queued' = queued
      BY <2>1 DEF InputBegins, shared
    <3>3. One(d = c) \in {0, 1}
      BY DEF One
    <3> QED BY <1>a, <2>0, <3>1, <3>2, <3>3 DEF Buffered
  <2>2. CASE InputOffers(d)
    <3>1. Count(offered, c)' = Count(offered, c) + One(d = c)
      <4>1. d \in 0..MaxCodec /\ offered \in Seq(0..MaxCodec)
        BY DecoderAssumption DEF FlowTypes, Codecs, DecoderAssumption
      <4>2. Count(Append(offered, d), c) = Count(offered, c) + One(d = c)
        <5> DEFINE S == 0..MaxCodec
        <5>1. offered \in Seq(S) /\ d \in S BY <4>1
        <5> HIDE DEF S
        <5> QED BY <5>1, CountAppend
      <4> QED BY <2>2, <4>2 DEF InputOffers
    <3>2. One(callback[c] = "input") = One(callback[c] = "input")' + One(d = c)
      BY <2>2 DEF InputOffers, FlowTypes, One
    <3>3. One(d = c) \in {0, 1} /\ One(callback[c] = "input")' \in {0, 1}
      BY DEF One
    <3>4. UNCHANGED <<free, queued, pc, index>>
      BY <2>2 DEF InputOffers
    <3>5. InHand(c)' = InHand(c) /\ free'[c] = free[c] /\ queued'[c] = queued[c]
      BY <3>4 DEF InHand
    <3> QED BY <1>a, <2>0, <3>1, <3>2, <3>3, <3>5 DEF Buffered
  <2>3. CASE OutputBegins(d)
    <3>1. free'[c] = free[c] + One(d = c) /\ queued'[c] = queued[c] - One(d = c)
          /\ One(callback[c] = "input")' = One(callback[c] = "input")
      BY <2>3 DEF OutputBegins, FlowTypes, One
    <3>2. Count(offered, c)' = Count(offered, c)
      BY <2>3 DEF OutputBegins, shared
    <3>3. One(d = c) \in {0, 1}
      BY DEF One
    <3> QED BY <1>a, <2>0, <3>1, <3>2, <3>3 DEF Buffered
  <2>4. CASE OutputReleases(d)
    <3>1. One(callback[c] = "input")' = One(callback[c] = "input")
      BY <2>4 DEF OutputReleases, FlowTypes, One
    <3>2. Count(offered, c)' = Count(offered, c)
      BY <2>4 DEF OutputReleases
    <3> QED BY <1>a, <2>0, <2>4, <3>1, <3>2 DEF Buffered, OutputReleases
  <2> QED BY <1>7, <2>1, <2>2, <2>3, <2>4 DEF Callback
<1>8. CASE UNCHANGED vars
  BY <1>8, BuffersUnmoved DEF vars, shared, codecs
<1> QED
  BY <1>1, <1>2, <1>3, <1>4, <1>5, <1>6, <1>7, <1>8
     DEF Next, ThreadStep, FeedDecoder

\* Frames held for ever come with frames that are fed, and go with their codec.
LEMMA HeldStep == FlowTypes /\ HeldForEver /\ [Next]_vars => HeldForEver'
<1> SUFFICES ASSUME FlowTypes, HeldForEver, [Next]_vars PROVE HeldForEver'
  OBVIOUS
<1>1. /\ codec \in 0..MaxCodec /\ (codec # 0 => codec \in Codecs)
      /\ queued \in [Codecs -> Nat]
      /\ primed \subseteq Codecs /\ dead \in [Codecs -> Nat]
      /\ \A c \in Codecs : dead[c] <= queued[c]
  BY DecoderAssumption DEF FlowTypes, Types, HeldForEver, Codecs, DecoderAssumption
<1>2. ASSUME UNCHANGED <<primed, dead>>, UNCHANGED queued PROVE HeldForEver'
  BY <1>1, <1>2 DEF HeldForEver
<1>3. ASSUME NEW t \in {"net", "ui"}, Stop(t) PROVE HeldForEver'
  <2>1. /\ queued' = queued /\ primed' = primed \ {codec}
        /\ dead' = [c \in Codecs |-> IF c = codec THEN 0 ELSE dead[c]]
    BY <1>3 DEF Stop
  <2> QED BY <1>1, <2>1 DEF HeldForEver
<1>4. ASSUME codec # 0, Fed(codec) PROVE HeldForEver'
  <2>1. queued' = [queued EXCEPT ![codec] = @ + 1]
    BY <1>4 DEF Fed
  <2>2. \A c \in Codecs : /\ queued'[c] = queued[c] + (IF c = codec THEN 1 ELSE 0)
                          /\ queued[c] \in Nat /\ dead[c] \in Nat
    BY <1>1, <2>1
  <2>3. primed' \subseteq Codecs
    BY <1>1, <1>4 DEF Fed
  <2>4. CASE dead' = dead
    BY <1>1, <2>2, <2>3, <2>4 DEF HeldForEver
  <2>5. CASE dead' = [dead EXCEPT ![codec] = @ + 1]
    <3>1. dead[codec] + 1 \in Nat
      BY <1>1, <1>4, <2>2
    <3>2. dead' \in [Codecs -> Nat]
      BY <1>1, <1>4, <2>5, <3>1
    <3>3. \A c \in Codecs : dead'[c] = dead[c] + (IF c = codec THEN 1 ELSE 0)
      BY <1>1, <2>5
    <3>4. \A c \in Codecs : dead'[c] <= queued'[c]
      BY <1>1, <2>2, <3>3
    <3> QED BY <2>3, <3>2, <3>4 DEF HeldForEver
  <2> QED BY <1>4, <2>4, <2>5 DEF Fed
<1>5. ASSUME NEW c \in Codecs, OutputBegins(c) PROVE HeldForEver'
  <2>1. /\ queued' = [queued EXCEPT ![c] = @ - 1] /\ queued[c] > dead[c]
        /\ UNCHANGED <<primed, dead>>
    BY <1>5 DEF OutputBegins, inside
  <2>2. \A d \in Codecs : /\ queued'[d] = queued[d] - (IF d = c THEN 1 ELSE 0)
                          /\ queued[d] \in Nat /\ dead[d] \in Nat
    BY <1>1, <2>1
  <2>3. \A d \in Codecs : dead[d] <= queued'[d]
    BY <1>1, <2>1, <2>2
  <2> QED BY <1>1, <2>1, <2>3 DEF HeldForEver
<1>6. ASSUME NEW t \in {"net", "ui"}, ThreadStep(t), ~Stop(t) PROVE HeldForEver'
  BY <1>2, <1>6 DEF ThreadStep, ReleaseCodec, Drop, Clear, Drain, Refill,
     ConfigureCodec, Make, Start, StartThrows, codecs, inside
<1>7. ASSUME NEW c \in Codecs, Callback(c), ~OutputBegins(c) PROVE HeldForEver'
  BY <1>2, <1>7 DEF Callback, InputBegins, InputOffers, OutputReleases, inside
<1>8. CASE QueueInput \/ QueueStaleInput
  BY <1>4, <1>8 DEF QueueInput, QueueStaleInput, Running
<1>9. CASE FeedDecoder /\ ~QueueInput /\ ~QueueStaleInput
  BY <1>2, <1>9 DEF FeedDecoder, Acquire, AcquireTimesOut, Poll, PollTimesOut,
     QueueThrows, codecs, inside
<1>10. CASE Frame \/ ConfigChange \/ SurfaceDestroyed \/ SurfaceCreated
  BY <1>2, <1>10 DEF Frame, ConfigChange, SurfaceDestroyed, SurfaceCreated,
     codecs, inside
<1>11. CASE UNCHANGED vars
  BY <1>2, <1>11 DEF vars, codecs, inside
<1> QED
  BY <1>3, <1>5, <1>6, <1>7, <1>8, <1>9, <1>10, <1>11 DEF Next, ThreadStep

\* No frame is held at first.
LEMMA InitHeld == Init => HeldForEver
<1> SUFFICES ASSUME Init PROVE HeldForEver
  OBVIOUS
<1>1. /\ primed = {} /\ dead = [c \in Codecs |-> 0]
      /\ queued = [c \in Codecs |-> 0]
  BY DEF Init
<1> QED BY <1>1 DEF HeldForEver

\* Types hold initially.
LEMMA InitFlowTypes == Init => FlowTypes
<1> SUFFICES ASSUME Init PROVE FlowTypes
  OBVIOUS
<1>0. Types
  BY DecoderAssumption
     DEF Init, Types, Idle, Building, Releasing, Codecs, DecoderAssumption
<1>1. FlowTypes
  <2>1. offered \in Seq(0..MaxCodec)
    BY DEF Init
  <2>2. /\ late \in BOOLEAN /\ lost \in 0..MaxSurface /\ config \in 1..MaxConfig
        /\ bound \in [Codecs -> 0..MaxSurface]
        /\ free \in [Codecs -> Nat] /\ queued \in [Codecs -> Nat]
        /\ index \in 0..MaxCodec /\ permits \in Nat
    <3>1. /\ LateCallbacks \in BOOLEAN /\ Buffers \in Nat /\ MaxSurface \in Nat
          /\ MaxConfig \in Nat \ {0} /\ MaxCodec \in Nat
      BY DecoderAssumption DEF DecoderAssumption
    <3>0. late \in BOOLEAN
      BY <3>1, Zenon DEF Init
    <3>2. /\ lost \in 0..MaxSurface /\ config \in 1..MaxConfig
          /\ index \in 0..MaxCodec /\ permits \in Nat
      BY <3>1 DEF Init
    <3>3. /\ bound \in [Codecs -> 0..MaxSurface]
          /\ free \in [Codecs -> Nat] /\ queued \in [Codecs -> Nat]
      BY <3>1 DEF Init
    <3> QED BY <3>0, <3>2, <3>3
  <2>3. callback \in [Codecs -> {"idle", "input", "output"}]
    BY DEF Init
  <2> QED BY <1>0, <2>1, <2>2, <2>3 DEF FlowTypes
<1> QED BY <1>1

\* Types hold throughout, and no codec ever has more buffers about than it owns.
THEOREM TypeCorrect == Spec => []TypeOK
<1>1. Init => FlowTypes /\ HeldForEver /\ BuffersKept
  <2> SUFFICES ASSUME Init PROVE FlowTypes /\ HeldForEver /\ BuffersKept
    OBVIOUS
  <2>1. FlowTypes /\ HeldForEver
    BY InitFlowTypes, InitHeld
  <2>2. \A c \in Codecs : Count(offered, c) = 0
    BY <2>1, CountType DEF Init, FlowTypes
  <2> QED
    BY <2>1, <2>2, DecoderAssumption
       DEF Init, BuffersKept, Buffered, InHand, One, Idle, DecoderAssumption
<1>2. FlowTypes /\ HeldForEver /\ BuffersKept /\ [Next]_vars
        => (FlowTypes /\ HeldForEver /\ BuffersKept)'
  BY FlowTypesStep, HeldStep, BuffersStep
<1>3. ASSUME FlowTypes, HeldForEver, BuffersKept PROVE TypeOK
  <2>1. \A c \in Codecs : /\ free[c] \in 0..Buffers
                          /\ queued[c] \in 0..Buffers
    <3> SUFFICES ASSUME NEW c \in Codecs
                 PROVE  free[c] \in 0..Buffers /\ queued[c] \in 0..Buffers
      OBVIOUS
    <3>1. Buffered(c) <= Buffers /\ free[c] \in Nat /\ queued[c] \in Nat
          /\ Count(offered, c) \in Nat /\ Buffers \in Nat
      BY <1>3, CountType, DecoderAssumption
         DEF BuffersKept, FlowTypes, DecoderAssumption
    <3>2. One(callback[c] = "input") \in {0, 1} /\ InHand(c) \in {0, 1}
      BY DEF One, InHand
    <3> QED BY <3>1, <3>2 DEF Buffered
  <2>2. free \in [Codecs -> 0..Buffers] /\ queued \in [Codecs -> 0..Buffers]
    BY <1>3, <2>1 DEF FlowTypes
  <2>3. /\ primed \subseteq Codecs /\ dead \in [Codecs -> 0..Buffers]
        /\ \A c \in Codecs : dead[c] <= queued[c]
    <3>1. \A c \in Codecs : /\ dead[c] \in Nat /\ dead[c] <= queued[c]
                            /\ queued[c] \in Nat /\ queued[c] <= Buffers
      BY <1>3, <2>1 DEF HeldForEver, FlowTypes
    <3>2. \A c \in Codecs : dead[c] \in 0..Buffers
      BY <3>1, DecoderAssumption DEF DecoderAssumption
    <3> QED BY <1>3, <3>1, <3>2 DEF HeldForEver
  <2> QED
    BY <1>3, <2>2, <2>3 DEF FlowTypes, Types, TypeOK, Building
<1> QED BY <1>1, <1>2, <1>3, PTL DEF Spec

-----------------------------------------------------------------------------
(* Permits.  As long as the surface alone disturbs the decoder and no         *)
(* callback outlives its codec, a permit is with the semaphore, with the      *)
(* network thread, with a frame in the codec or with the callback that will   *)
(* release it.  QueueThrows loses one for good; it can do so at most once     *)
(* after a release, and the release has left one more than is needed by then: *)
(* the buffer in the network thread's hand is from before the release, or it  *)
(* is the one number that such a buffer has used up in availableInputs.       *)

Steady == ~late /\ config = 1

\* The UI thread is at work on the decoder or on nothing.  The started codec is
\* the one in the field, only it runs callbacks and only it and released ones
\* have frames inside.
CodecState ==
  /\ pc["ui"].at \in Building \cup {"idle", "failed"}
  /\ \A c \in Codecs : state[c] = "started" => c = codec
  /\ \A c \in Codecs : callback[c] # "idle" => state[c] = "started"
  /\ \A c \in Codecs : state[c] \in {"none", "made"} => queued[c] = 0
  /\ pc["ui"].at \in {"idle", "stop"} => codec = 0 \/ Running
  /\ pc["ui"].at \in {"drop", "start"} => ~Running
  /\ pc["ui"].at \in {"clear", "drain", "refill", "make"} => codec = 0

\* The queue is empty, or it holds buffers of the running codec, used up or not.
QueueState ==
  /\ pc["ui"].at \in {"idle", "stop"} /\ Running =>
       \A i \in 1..Len(offered) : offered[i] \in {0, codec}
  /\ \/ pc["ui"].at \in {"drain", "refill", "make", "start"}
     \/ pc["ui"].at \in {"idle", "stop"} /\ ~Running
     => offered = <<>>

\* What loses a permit sooner or later: a used up buffer in the queue, or one in
\* the network thread's hand that is not of the running codec.
UsedUp == \E i \in 1..Len(offered) : offered[i] = 0
StaleIndex == pc["net"].at = "queue" /\ (~Running \/ index # codec)
OneLost == pc["ui"].at \notin {"drop", "clear"} =>
  /\ ~(UsedUp /\ StaleIndex)
  /\ \A i, j \in 1..Len(offered) : offered[i] = 0 /\ offered[j] = 0 => i = j

\* There is a permit, and one more while one is about to be lost.
Taken == One(pc["net"].at \in {"poll", "queue"})
Inside == IF codec = 0 THEN 0 ELSE queued[codec] + One(callback[codec] = "output")
PermitThere == pc["ui"].at \in {"idle", "make", "start"} =>
  permits + Taken + Inside >= 1 + One(UsedUp \/ StaleIndex)

Flow == CodecState /\ QueueState /\ OneLost /\ PermitThere

\* The numbers are numbers.
LEMMA FlowNumbers ==
  ASSUME FlowTypes
  PROVE  /\ permits \in Nat /\ Taken \in {0, 1} /\ Inside \in Nat
         /\ One(UsedUp \/ StaleIndex) \in {0, 1}
<1>1. codec # 0 => codec \in Codecs
  BY DecoderAssumption DEF FlowTypes, Types, Codecs, DecoderAssumption
<1>2. codec # 0 => queued[codec] \in Nat
  BY <1>1 DEF FlowTypes
<1>3. permits \in Nat
  BY DEF FlowTypes
<1>4. Taken \in {0, 1} /\ One(UsedUp \/ StaleIndex) \in {0, 1}
      /\ One(callback[codec] = "output") \in {0, 1}
  BY DEF Taken, One
<1> QED BY <1>2, <1>3, <1>4 DEF Inside

\* The network thread goes on with the codec and its queue as they are: the
\* permits it holds or returns stay in the count, and it finds no new cause to
\* lose one.
LEMMA FeedKeepsFlow ==
  ASSUME FlowTypes, FlowTypes', Flow,
         pc'["ui"] = pc["ui"], UNCHANGED <<codec, state, callback, queued, offered>>,
         StaleIndex' => StaleIndex,
         \/ permits' + Taken' = permits + Taken
         \/ permits' + Taken' >= permits + Taken - 1 /\ StaleIndex /\ ~StaleIndex'
  PROVE  Flow'
<1>1. CodecState' /\ QueueState'
  BY DEF Flow, CodecState, QueueState, Running
<1>2. UsedUp' = UsedUp /\ Inside' = Inside
  BY DEF UsedUp, Inside
<1>3. OneLost'
  BY <1>2 DEF Flow, OneLost
<1>4. PermitThere'
  <2> SUFFICES ASSUME pc["ui"].at \in {"idle", "make", "start"}
               PROVE  permits' + Taken' + Inside' >= 1 + One(UsedUp \/ StaleIndex)'
    BY DEF PermitThere
  <2>1. permits + Taken + Inside >= 1 + One(UsedUp \/ StaleIndex)
    BY DEF Flow, PermitThere
  <2>2. /\ permits \in Nat /\ Taken \in {0, 1} /\ Inside \in Nat
        /\ permits' \in Nat /\ Taken' \in {0, 1}
    <3>1. permits' \in Nat BY DEF FlowTypes
    <3>2. Taken' \in {0, 1} BY DEF Taken, One
    <3> QED BY <3>1, <3>2, FlowNumbers
  <2>3. CASE permits' + Taken' = permits + Taken
    <3>1. One(UsedUp \/ StaleIndex)' <= One(UsedUp \/ StaleIndex)
      BY <1>2 DEF One
    <3>2. One(UsedUp \/ StaleIndex)' \in {0, 1} /\ One(UsedUp \/ StaleIndex) \in {0, 1}
      BY DEF One
    <3>3. \A p, t, n, m, p1, t1 \in Int :
            p + t + n >= 1 + m /\ p1 + t1 = p + t => p1 + t1 + n >= 1 + m
      OBVIOUS
    <3>4. \A n, m \in {0, 1}, x \in Int : x >= 1 + m /\ n <= m => x >= 1 + n
      OBVIOUS
    <3>5. permits' + Taken' + Inside >= 1 + One(UsedUp \/ StaleIndex)
      <4>1. /\ permits \in Int /\ Taken \in Int /\ Inside \in Int
            /\ permits' \in Int /\ Taken' \in Int
            /\ One(UsedUp \/ StaleIndex) \in Int
        BY <2>2, <3>2
      <4> QED BY <2>1, <2>3, <3>3, <4>1
    <3>6. permits' + Taken' + Inside \in Int
      BY <2>2
    <3> QED BY <1>2, <3>1, <3>2, <3>4, <3>5, <3>6
  <2>4. CASE permits' + Taken' >= permits + Taken - 1 /\ StaleIndex /\ ~StaleIndex'
    <3>1. ~UsedUp
      BY <2>4 DEF Flow, OneLost
    <3>2. One(UsedUp \/ StaleIndex) = 1 /\ One(UsedUp \/ StaleIndex)' = 0
      BY <1>2, <2>4, <3>1 DEF One
    <3>3. permits + Taken + Inside >= 2
      BY <2>1, <2>2, <3>2
    <3>4. permits' + Taken' + Inside >= 1
      <4>1. permits' + Taken' >= permits + Taken - 1 BY <2>4
      <4>2. /\ permits \in Int /\ Taken \in Int /\ Inside \in Int
            /\ permits' \in Int /\ Taken' \in Int
        BY <2>2
      <4>3. \A p, t, n, p1, t1 \in Int :
              p + t + n >= 2 /\ p1 + t1 >= p + t - 1 => p1 + t1 + n >= 1
        OBVIOUS
      <4> QED BY <3>3, <4>1, <4>2, <4>3
    <3> QED BY <1>2, <3>2, <3>4
  <2> QED BY <2>3, <2>4
<1> QED BY <1>1, <1>3, <1>4 DEF Flow

\* Every step keeps the permit, while only the surface disturbs the decoder.
LEMMA FlowStep ==
  ASSUME FlowTypes, FlowTypes', ReadyToStart, NetworkOnlyFeeds, Flow, ~late,
         [Next]_vars, ~ConfigChange
  PROVE  Flow'
<1>0. /\ pc \in [{"net", "ui"} ->
               [at : {"idle", "acquire", "poll", "queue", "failed"} \cup Building,
                to : {"nothing", "configure"}]]
      /\ codec \in 0..MaxCodec /\ (codec # 0 => codec \in Codecs)
      /\ state \in [Codecs -> {"none", "made", "started", "released"}]
      /\ callback \in [Codecs -> {"idle", "input", "output"}]
      /\ queued \in [Codecs -> Nat] /\ offered \in Seq(0..MaxCodec)
      /\ permits \in Nat /\ permits' \in Nat
  <2>1. codec # 0 => codec \in Codecs
    BY DecoderAssumption DEF FlowTypes, Types, Codecs, DecoderAssumption
  <2> QED BY <2>1 DEF FlowTypes, Types
<1>a. /\ Taken \in {0, 1} /\ Taken' \in {0, 1}
      /\ Inside \in Nat
      /\ One(UsedUp \/ StaleIndex) \in {0, 1} /\ One(UsedUp \/ StaleIndex)' \in {0, 1}
  BY FlowNumbers DEF Taken, One
<1>b. CodecState /\ QueueState /\ OneLost /\ PermitThere
  BY DEF Flow
<1>1. ~ThreadStep("net")
  BY DEF NetworkOnlyFeeds, ThreadStep, ReleaseCodec, Stop, Drop, Clear, Drain,
         Refill, ConfigureCodec, Make, Start, StartThrows, Goes, Releasing
<1>2. CASE Frame \/ AcquireTimesOut \/ Acquire \/ PollTimesOut
  <2>1. pc'["ui"] = pc["ui"] /\ UNCHANGED <<codec, state, callback, queued, offered>>
        /\ pc'["net"].at # "queue"
    BY <1>0, <1>2 DEF Frame, AcquireTimesOut, Acquire, PollTimesOut, Goes, shared, codecs
  <2>2. permits' + Taken' = permits + Taken
    BY <1>0, <1>2
       DEF Frame, AcquireTimesOut, Acquire, PollTimesOut, Goes, shared, Taken, One
  <2> QED BY <2>1, <2>2, FeedKeepsFlow DEF StaleIndex
<1>3. CASE QueueThrows
  <2>1. /\ pc'["ui"] = pc["ui"]
        /\ UNCHANGED <<codec, state, callback, queued, offered, permits>>
        /\ pc["net"].at = "queue" /\ pc'["net"].at = "idle"
        /\ StaleIndex
    BY <1>0, <1>3 DEF QueueThrows, Goes, shared, codecs, StaleIndex
  <2>2. ~StaleIndex' /\ permits' + Taken' >= permits + Taken - 1
    BY <1>0, <1>a, <2>1 DEF StaleIndex, Taken, One
  <2> QED BY <2>1, <2>2, FeedKeepsFlow
<1>4. CASE Poll
  <2>1. /\ pc'["ui"] = pc["ui"] /\ pc["net"].at = "poll" /\ pc'["net"].at = "queue"
        /\ UNCHANGED <<codec, state, callback, queued, permits>>
        /\ offered # <<>> /\ index' = offered[1] /\ offered' = Tail(offered)
    BY <1>0, <1>4 DEF Poll, Goes, codecs
  <2>2. /\ Len(offered') = Len(offered) - 1 /\ Len(offered) \in Nat \ {0}
        /\ \A i \in 1..Len(offered') : offered'[i] = offered[i + 1]
        /\ \A i \in 1..Len(offered') : i + 1 \in 1..Len(offered) /\ i + 1 # 1
        /\ 1 \in 1..Len(offered)
    BY <1>0, <2>1
  <2>3. CodecState'
    BY <1>b, <2>1 DEF CodecState, Running
  <2>4. QueueState'
    BY <1>b, <2>1, <2>2 DEF QueueState, Running
  <2>5. CASE pc["ui"].at \in {"idle", "stop"}
    <3>1. Running /\ Running' /\ offered[1] \in {0, codec}
      BY <1>b, <2>1, <2>2, <2>5 DEF QueueState, Running
    <3>2. StaleIndex' <=> offered[1] = 0
      BY <1>b, <2>1, <3>1 DEF StaleIndex, Running
    <3>3. ~StaleIndex /\ (UsedUp' => UsedUp) /\ (offered[1] = 0 => UsedUp /\ ~UsedUp')
      BY <1>b, <2>1, <2>2, <2>5 DEF StaleIndex, UsedUp, OneLost
    <3>4. OneLost'
      BY <1>b, <2>1, <2>2, <2>5, <3>2, <3>3 DEF OneLost
    <3>5. Inside' = Inside /\ Taken' = Taken
      BY <2>1 DEF Inside, Taken
    <3>6. One(UsedUp \/ StaleIndex)' <= One(UsedUp \/ StaleIndex)
      BY <3>2, <3>3 DEF One
    <3>7. PermitThere'
      BY <1>0, <1>a, <1>b, <2>1, <3>5, <3>6 DEF PermitThere
    <3> QED BY <2>3, <2>4, <3>4, <3>7 DEF Flow
  <2>6. CASE pc["ui"].at \notin {"idle", "stop"}
    <3>1. pc["ui"].at \in {"drop", "clear"}
      BY <1>b, <2>1, <2>6 DEF CodecState, QueueState, ReadyToStart, Building, Releasing
    <3>2. OneLost' /\ PermitThere'
      BY <2>1, <3>1 DEF OneLost, PermitThere
    <3> QED BY <2>3, <2>4, <3>2 DEF Flow
  <2> QED BY <2>5, <2>6
<1>5. CASE QueueInput
  <2>1. /\ pc'["ui"] = pc["ui"] /\ pc["net"].at = "queue" /\ pc'["net"].at = "idle"
        /\ UNCHANGED <<codec, state, callback, offered, permits>>
        /\ Running /\ index = codec
        /\ queued' = [queued EXCEPT ![codec] = @ + 1]
    BY <1>0, <1>5 DEF QueueInput, Fed, Goes, shared
  <2>2. codec # 0 /\ codec \in Codecs /\ state[codec] = "started"
    BY <1>0, <2>1 DEF Running
  <2>3. CodecState' /\ QueueState'
    BY <1>0, <1>b, <2>1, <2>2 DEF CodecState, QueueState, Running
  <2>4. ~StaleIndex /\ ~StaleIndex' /\ UsedUp' = UsedUp
    BY <2>1 DEF StaleIndex, UsedUp
  <2>5. OneLost'
    BY <1>b, <2>1, <2>4 DEF OneLost
  <2>6. Inside' = Inside + 1
    <3>1. queued'[codec] = queued[codec] + 1 /\ queued[codec] \in Nat
      BY <1>0, <2>1, <2>2
    <3>2. One(callback[codec] = "output") \in {0, 1}
      BY DEF One
    <3> QED BY <2>1, <2>2, <3>1, <3>2 DEF Inside
  <2>7. Taken = 1 /\ Taken' = 0 /\ One(UsedUp \/ StaleIndex)' = One(UsedUp \/ StaleIndex)
    BY <2>1, <2>4 DEF Taken, One
  <2>8. PermitThere'
    BY <1>0, <1>a, <1>b, <2>1, <2>6, <2>7 DEF PermitThere
  <2> QED BY <2>3, <2>5, <2>8 DEF Flow
<1>6. CASE QueueStaleInput
  <2>1. PICK k \in 1..Len(offered) :
          offered[k] = codec /\ offered' = [offered EXCEPT ![k] = 0]
    BY <1>6 DEF QueueStaleInput
  <2>2. /\ pc'["ui"] = pc["ui"] /\ pc["net"].at = "queue" /\ pc'["net"].at = "idle"
        /\ UNCHANGED <<codec, state, callback, permits>>
        /\ Running /\ index # codec
        /\ queued' = [queued EXCEPT ![codec] = @ + 1]
    BY <1>0, <1>6 DEF QueueStaleInput, Fed, Goes
  <2>3. codec # 0 /\ codec \in Codecs /\ state[codec] = "started"
    BY <1>0, <2>2 DEF Running
  <2>4. /\ Len(offered') = Len(offered) /\ offered # <<>>
        /\ \A i \in 1..Len(offered) : offered'[i] = IF i = k THEN 0 ELSE offered[i]
    BY <1>0, <2>1
  <2>5. CodecState' /\ QueueState'
    BY <1>0, <1>b, <2>2, <2>3, <2>4 DEF CodecState, QueueState, Running
  <2>6. StaleIndex /\ ~StaleIndex' /\ UsedUp'
    BY <2>2, <2>4 DEF StaleIndex, UsedUp
  <2>7. OneLost'
    BY <1>b, <2>2, <2>4, <2>6 DEF OneLost, UsedUp
  <2>8. Inside' = Inside + 1
    <3>1. queued'[codec] = queued[codec] + 1 /\ queued[codec] \in Nat
      BY <1>0, <2>2, <2>3
    <3>2. One(callback[codec] = "output") \in {0, 1}
      BY DEF One
    <3> QED BY <2>2, <2>3, <3>1, <3>2 DEF Inside
  <2>9. Taken = 1 /\ Taken' = 0 /\ One(UsedUp \/ StaleIndex)' = One(UsedUp \/ StaleIndex)
    BY <2>2, <2>6 DEF Taken, One
  <2>10. PermitThere'
    BY <1>0, <1>a, <1>b, <2>2, <2>8, <2>9 DEF PermitThere
  <2> QED BY <2>5, <2>7, <2>10 DEF Flow
<1>7. CASE SurfaceDestroyed
  <2>1. /\ pc["ui"].at = "idle" /\ pc'["ui"].at = "stop" /\ pc'["net"] = pc["net"]
        /\ UNCHANGED <<codec, state, callback, queued, offered, permits, index>>
    BY <1>0, <1>7 DEF SurfaceDestroyed, At, shared, codecs
  <2> QED
    BY <1>b, <2>1 DEF Building, Releasing, Flow, CodecState, QueueState, OneLost, PermitThere, Running,
                      UsedUp, StaleIndex
<1>8. CASE SurfaceCreated
  <2>1. /\ pc["ui"].at = "idle" /\ pc'["ui"].at = "stop" /\ pc'["net"] = pc["net"]
        /\ UNCHANGED <<codec, state, callback, queued, offered, permits, index>>
    BY <1>0, <1>8 DEF SurfaceCreated, At, shared, codecs
  <2> QED
    BY <1>b, <2>1 DEF Building, Releasing, Flow, CodecState, QueueState, OneLost, PermitThere, Running,
                      UsedUp, StaleIndex
<1>9. CASE ReleaseCodec("ui")
  <2>1. CASE Stop("ui")
    <3>1. /\ pc["ui"].at = "stop" /\ pc'["ui"].at = "drop" /\ pc'["net"] = pc["net"]
          /\ UNCHANGED <<codec, callback, queued, offered, permits, index>>
          /\ codec # 0 => callback[codec] = "idle"
          /\ state' = IF codec = 0 THEN state ELSE [state EXCEPT ![codec] = "released"]
      BY <1>0, <2>1 DEF Stop, Goes, shared
    <3>2. CodecState'
      BY <1>0, <1>b, <3>1 DEF Building, Releasing, CodecState, Running
    <3> QED BY <3>1, <3>2 DEF Flow, QueueState, OneLost, PermitThere
  <2>2. CASE Drop("ui")
    <3>1. /\ pc["ui"].at = "drop" /\ pc'["ui"].at = "clear" /\ codec' = 0
          /\ UNCHANGED <<state, callback, queued>>
      BY <1>0, <2>2 DEF Drop, Goes, codecs
    <3>2. CodecState'
      BY <1>0, <1>b, <3>1 DEF Building, Releasing, CodecState, Running, Codecs
    <3> QED BY <3>1, <3>2 DEF Flow, QueueState, OneLost, PermitThere
  <2>3. CASE Clear("ui")
    <3>1. /\ pc["ui"].at = "clear" /\ pc'["ui"].at = "drain" /\ offered' = <<>>
          /\ UNCHANGED <<codec, state, callback, queued>>
      BY <1>0, <2>3 DEF Clear, Goes, codecs
    <3>2. CodecState' /\ QueueState'
      BY <1>b, <3>1 DEF Building, Releasing, CodecState, QueueState
    <3> QED BY <3>1, <3>2 DEF Flow, OneLost, UsedUp, PermitThere
  <2>4. CASE Drain("ui")
    <3>1. /\ pc["ui"].at = "drain" /\ pc'["ui"].at = "refill" /\ pc'["net"] = pc["net"]
          /\ UNCHANGED <<codec, state, callback, queued, offered, index>>
      BY <1>0, <2>4 DEF Drain, Goes, codecs
    <3> QED
      BY <1>b, <3>1 DEF Building, Releasing, Flow, CodecState, QueueState, OneLost, PermitThere, UsedUp,
                        StaleIndex, Running
  <2>5. CASE Refill("ui")
    <3>1. /\ pc["ui"].at = "refill" /\ pc'["ui"].at \in {"make", "idle"}
          /\ pc'["net"] = pc["net"] /\ permits' = permits + 1
          /\ UNCHANGED <<codec, state, callback, queued, offered, index>>
      BY <1>0, <2>5 DEF Refill, codecs
    <3>2. codec = 0 /\ offered = <<>> /\ ~Running
      BY <1>b, <3>1 DEF CodecState, QueueState, Running
    <3>3. CodecState' /\ QueueState'
      BY <1>b, <3>1, <3>2 DEF Building, Releasing, CodecState, QueueState, Running
    <3>4. OneLost'
      BY <3>1, <3>2 DEF OneLost, UsedUp
    <3>5. Inside' = 0 /\ (One(UsedUp \/ StaleIndex)' = 1 => Taken' = 1)
      BY <3>1, <3>2 DEF Inside, UsedUp, StaleIndex, Taken, One
    <3>6. PermitThere'
      BY <1>0, <1>a, <3>1, <3>5 DEF PermitThere
    <3> QED BY <3>3, <3>4, <3>6 DEF Flow
  <2> QED BY <1>9, <2>1, <2>2, <2>3, <2>4, <2>5 DEF ReleaseCodec
<1>10. CASE ConfigureCodec("ui")
  <2>1. CASE Make("ui")
    <3>1. PICK c \in Codecs \ Created :
            codec' = c /\ state' = [state EXCEPT ![c] = "made"]
      BY <2>1 DEF Make
    <3>2. /\ pc["ui"].at = "make" /\ pc'["ui"].at = "start" /\ pc'["net"] = pc["net"]
          /\ UNCHANGED <<callback, queued, offered, permits, index>>
          /\ state[c] = "none" /\ c # 0
      BY <1>0, <2>1, <3>1 DEF Make, Goes, Created, Codecs
    <3>3. codec = 0 /\ offered = <<>>
      BY <1>b, <3>2 DEF CodecState, QueueState
    <3>4. \A d \in Codecs : state[d] # "started"
      BY <1>b, <3>3 DEF CodecState, Codecs
    <3>5. CodecState' /\ QueueState'
      BY <1>0, <1>b, <3>1, <3>2, <3>3, <3>4 DEF Building, Releasing, CodecState, QueueState, Running
    <3>6. OneLost'
      BY <3>2, <3>3 DEF OneLost, UsedUp
    <3>7. queued[c] = 0 /\ callback[c] = "idle"
      BY <1>b, <3>2, <3>4 DEF CodecState
    <3>8. Inside = 0 /\ Inside' = 0 /\ Taken' = Taken
      BY <3>1, <3>2, <3>3, <3>7 DEF Inside, Taken, One
    <3>9. One(UsedUp \/ StaleIndex)' <= One(UsedUp \/ StaleIndex)
      BY <3>2, <3>3 DEF UsedUp, StaleIndex, Running, One
    <3>10. PermitThere'
      BY <1>0, <1>a, <1>b, <3>2, <3>8, <3>9 DEF PermitThere
    <3> QED BY <3>5, <3>6, <3>10 DEF Flow
  <2>2. CASE Start("ui")
    <3>1. /\ pc["ui"].at = "start" /\ pc'["ui"].at = "idle" /\ pc'["net"] = pc["net"]
          /\ UNCHANGED <<codec, callback, queued, offered, permits, index>>
          /\ codec # 0 /\ codec \in Codecs
          /\ state' = [state EXCEPT ![codec] = "started"]
      BY <1>0, <2>2 DEF Start, Usable, Goes, shared
    <3>2. offered = <<>>
      BY <1>b, <3>1 DEF QueueState
    <3>3. CodecState' /\ QueueState'
      BY <1>0, <1>b, <3>1, <3>2 DEF CodecState, QueueState, Running
    <3>4. OneLost'
      BY <3>1, <3>2 DEF OneLost, UsedUp
    <3>5. Inside' = Inside /\ Taken' = Taken
      BY <3>1 DEF Inside, Taken
    <3>6. One(UsedUp \/ StaleIndex)' <= One(UsedUp \/ StaleIndex)
      BY <1>b, <3>1, <3>2 DEF UsedUp, StaleIndex, CodecState, One
    <3>7. PermitThere'
      BY <1>0, <1>a, <1>b, <3>1, <3>5, <3>6 DEF PermitThere
    <3> QED BY <3>3, <3>4, <3>7 DEF Flow
  <2>3. CASE StartThrows("ui")
    <3>1. /\ pc["ui"].at = "start" /\ pc'["ui"].at = "failed" /\ pc'["net"] = pc["net"]
          /\ UNCHANGED <<codec, state, callback, queued, offered, index>>
      BY <1>0, <2>3 DEF StartThrows, Goes, shared, codecs
    <3> QED
      BY <1>b, <3>1 DEF Flow, CodecState, QueueState, OneLost, PermitThere, UsedUp,
                        StaleIndex, Running
  <2> QED BY <1>10, <2>1, <2>2, <2>3 DEF ConfigureCodec
<1>11. ASSUME NEW c \in Codecs, Callback(c) PROVE Flow'
  <2>0. /\ UNCHANGED <<pc, codec, state, index>>
        /\ StaleIndex' = StaleIndex /\ Taken' = Taken
        /\ state[c] = "started" /\ c = codec /\ codec # 0
    <3>1. UNCHANGED <<pc, codec, state, index>>
      BY <1>11 DEF Callback, InputBegins, InputOffers, OutputBegins, OutputReleases,
                   shared
    <3>2. state[c] = "started"
      BY <1>b, <1>11 DEF Callback, InputBegins, InputOffers, OutputBegins,
                         OutputReleases, CodecState
    <3> QED BY <1>b, <3>1, <3>2 DEF CodecState, StaleIndex, Taken, Running, Codecs
  <2>1. CASE InputBegins(c)
    <3>1. UNCHANGED <<offered, queued, permits>> /\ callback[c] = "idle"
          /\ callback' = [callback EXCEPT ![c] = "input"]
      BY <2>1 DEF InputBegins, shared
    <3>2. CodecState' /\ QueueState' /\ OneLost'
      BY <1>0, <1>b, <2>0, <3>1
         DEF CodecState, QueueState, OneLost, UsedUp, Running
    <3>3. Inside' = Inside /\ UsedUp' = UsedUp
      BY <1>0, <2>0, <3>1 DEF Inside, UsedUp, One
    <3> QED BY <1>b, <2>0, <3>1, <3>2, <3>3 DEF Flow, PermitThere
  <2>2. CASE InputOffers(c)
    <3>1. UNCHANGED <<queued, permits>> /\ callback[c] = "input"
          /\ callback' = [callback EXCEPT ![c] = "idle"]
          /\ offered' = Append(offered, c)
      BY <2>2 DEF InputOffers
    <3>2. /\ Len(offered') = Len(offered) + 1 /\ Len(offered) \in Nat
          /\ \A i \in 1..Len(offered) : offered'[i] = offered[i]
          /\ offered'[Len(offered) + 1] = c
          /\ \A i \in 1..Len(offered') : i \in 1..Len(offered) \/ i = Len(offered) + 1
      BY <1>0, <2>0, <3>1
    <3>3. UsedUp' = UsedUp
      BY <2>0, <3>2 DEF UsedUp
    <3>4. Running
      BY <2>0 DEF Running
    <3>5. CodecState'
      BY <1>0, <1>b, <2>0, <3>1 DEF CodecState, Running
    <3>6. pc["ui"].at \in {"idle", "stop", "failed"}
      BY <1>b, <2>0, <3>4 DEF CodecState, Building, Releasing
    <3>7. QueueState'
      BY <1>b, <2>0, <3>2, <3>4, <3>6 DEF QueueState, Running
    <3>8. OneLost'
      BY <1>b, <2>0, <3>2, <3>3 DEF OneLost
    <3>9. Inside' = Inside
      BY <1>0, <2>0, <3>1 DEF Inside, One
    <3> QED BY <1>b, <2>0, <3>1, <3>3, <3>5, <3>7, <3>8, <3>9 DEF Flow, PermitThere
  <2>3. CASE OutputBegins(c)
    <3>1. UNCHANGED <<offered, permits>> /\ callback[c] = "idle"
          /\ callback' = [callback EXCEPT ![c] = "output"]
          /\ queued' = [queued EXCEPT ![c] = @ - 1]
      BY <2>3 DEF OutputBegins, shared
    <3>2. CodecState' /\ QueueState' /\ OneLost'
      BY <1>0, <1>b, <2>0, <3>1
         DEF CodecState, QueueState, OneLost, UsedUp, Running
    <3>3. Inside' = Inside
      <4>1. queued[c] \in Nat /\ queued'[c] = queued[c] - 1 /\ callback'[c] = "output"
        BY <1>0, <3>1
      <4> QED BY <2>0, <3>1, <4>1 DEF Inside, One
    <3>4. UsedUp' = UsedUp
      BY <3>1 DEF UsedUp
    <3> QED BY <1>b, <2>0, <3>1, <3>2, <3>3, <3>4 DEF Flow, PermitThere
  <2>4. CASE OutputReleases(c)
    <3>1. UNCHANGED <<offered, queued>> /\ callback[c] = "output"
          /\ callback' = [callback EXCEPT ![c] = "idle"]
          /\ permits' = permits + 1
      BY <2>4 DEF OutputReleases
    <3>2. CodecState' /\ QueueState' /\ OneLost'
      BY <1>0, <1>b, <2>0, <3>1
         DEF CodecState, QueueState, OneLost, UsedUp, Running
    <3>3. Inside = Inside' + 1 /\ Inside' \in Nat
      <4>1. queued[c] \in Nat /\ callback'[c] = "idle"
        BY <1>0, <3>1
      <4> QED BY <2>0, <3>1, <4>1 DEF Inside, One
    <3>4. UsedUp' = UsedUp
      BY <3>1 DEF UsedUp
    <3>5. PermitThere'
      BY <1>0, <1>a, <1>b, <2>0, <3>1, <3>3, <3>4 DEF PermitThere
    <3> QED BY <3>2, <3>5 DEF Flow
  <2> QED BY <1>11, <2>1, <2>2, <2>3, <2>4 DEF Callback
<1>12. CASE UNCHANGED vars
  <2>1. UNCHANGED <<pc, codec, state, callback, queued, offered, permits, index>>
    BY <1>12 DEF vars, shared, codecs
  <2>2. StaleIndex' = StaleIndex /\ permits' + Taken' = permits + Taken
    BY <2>1 DEF StaleIndex, Running, Taken
  <2> QED BY <2>1, <2>2, FeedKeepsFlow
<1> QED
  BY <1>1, <1>2, <1>3, <1>4, <1>5, <1>6, <1>7, <1>8, <1>9, <1>10, <1>11, <1>12
     DEF Next, FeedDecoder, ThreadStep

PInv == FlowTypes /\ HeldForEver /\ IInv /\ (Steady => Flow)

\* releaseCodec: no permit is lost that something would have to release.  At
\* rest, with no frame in the running decoder, the permit is there, as long as
\* no VideoConfig came in between and no callback outlived its codec.
THEOREM PermitsReturn == Spec => []NeverStalls
<1>1. Init => PInv
  <2> SUFFICES ASSUME Init PROVE PInv
    OBVIOUS
  <2>1. FlowTypes /\ HeldForEver
    BY InitFlowTypes, InitHeld
  <2>2. IInv
    BY InitIInv
  <2>3. /\ codec = 1 /\ 1 \in Codecs /\ permits = 1 /\ offered = <<>>
        /\ pc["ui"].at = "idle" /\ pc["net"].at = "idle"
        /\ \A c \in Codecs : state[c] = (IF c = 1 THEN "started" ELSE "none")
        /\ \A c \in Codecs : callback[c] = "idle" /\ queued[c] = 0
    BY DecoderAssumption DEF Init, Idle, Codecs, DecoderAssumption
  <2>4. CodecState /\ QueueState
    BY <2>3 DEF CodecState, QueueState, Running
  <2>5. ~UsedUp /\ ~StaleIndex /\ Taken = 0 /\ Inside = 0
    BY <2>3 DEF UsedUp, StaleIndex, Taken, Inside, One
  <2>6. OneLost /\ PermitThere
    BY <2>3, <2>5 DEF OneLost, PermitThere, One
  <2> QED BY <2>1, <2>2, <2>4, <2>6 DEF PInv, Flow
<1>2. PInv /\ [Next]_vars => PInv'
  <2> SUFFICES ASSUME PInv, [Next]_vars PROVE PInv'
    OBVIOUS
  <2>1. FlowTypes /\ FlowTypes' /\ HeldForEver' /\ IInv /\ IInv'
    BY FlowTypesStep, HeldStep, TypesStep, UndisturbedStep DEF PInv, IInv
  <2>2. ASSUME Steady' PROVE Flow'
    <3>1. config = 1 /\ ~ConfigChange /\ ~late
      BY <2>1, <2>2 DEF Steady, FlowTypes, Next, vars, screen, Frame, ConfigChange,
        FeedDecoder, Acquire, AcquireTimesOut, Poll, PollTimesOut, QueueInput,
        QueueStaleInput, QueueThrows, SurfaceDestroyed, SurfaceCreated, ThreadStep,
        ReleaseCodec, Stop, Drop, Clear, Drain, Refill, ConfigureCodec, Make, Start,
        StartThrows, Callback, InputBegins, InputOffers, OutputBegins, OutputReleases
    <3>2. ReadyToStart /\ NetworkOnlyFeeds /\ Flow
      BY <3>1 DEF PInv, IInv, Undisturbed, Steady
    <3> QED BY <2>1, <3>1, <3>2, FlowStep
  <2> QED BY <2>1, <2>2 DEF PInv
<1>3. PInv => NeverStalls
  <2> SUFFICES ASSUME PInv, ~late, config = 1, AtRest, Running, queued[codec] = 0
               PROVE  permits > 0
    BY DEF NeverStalls
  <2>1. /\ codec # 0 /\ codec \in Codecs /\ permits \in Nat
    BY DecoderAssumption
       DEF Running, PInv, FlowTypes, Types, Codecs, DecoderAssumption
  <2>2. callback[codec] = "idle" /\ pc["ui"].at = "idle" /\ pc["net"].at = "idle"
    BY <2>1 DEF AtRest
  <2>3. Inside = 0 /\ Taken = 0
    BY <2>1, <2>2 DEF Inside, Taken, One
  <2>4. permits + Taken + Inside >= 1 + One(UsedUp \/ StaleIndex)
    BY <2>2 DEF PInv, Steady, Flow, PermitThere
  <2>5. One(UsedUp \/ StaleIndex) \in {0, 1}
    BY DEF One
  <2> QED BY <2>1, <2>3, <2>4, <2>5
<1> QED BY <1>1, <1>2, <1>3, PTL DEF Spec

=============================================================================
