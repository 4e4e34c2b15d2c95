--------------------------- MODULE RemoteInputProofs ---------------------------
(***************************************************************************)
(* What is proved of the way from a finger to a key, for any number of     *)
(* modifiers, buttons, connections and events: the types, that no session  *)
(* injects what was typed for another, and that the first session leaves   *)
(* the laptop holding what the phone shows as held.                        *)
(***************************************************************************)
EXTENDS RemoteInput, FiniteSetTheorems, SequenceTheorems, TLAPS

\* What an event and a frame look like.
Events == [key : Keys \cup {"mode", "none"}, pressed : BOOLEAN,
           mods : SUBSET (Modifiers \cup {"shift"}), gen : 0..MaxGen]
Frames == [ev : Events, good : BOOLEAN]

\* The types, of the queues as well.
ScreenTypes ==
  /\ ui \in {"idle", "teardown"}
  /\ held \subseteq Modifiers \cup Buttons
  /\ ui # "idle" => held = {} /\ generation < MaxGen
  /\ generation \in Gen /\ done \in 0..MaxEvent /\ connected \in BOOLEAN
  /\ noise \in 0..generation /\ socket \in 0..generation
ThreadTypes ==
  /\ net \in [Gen -> {"off", "start", "shake", "hello", "refused", "config", "open",
                      "streaming", "ended", "failed"}]
  /\ writer \in [Gen -> {"off", "poll", "send", "done"}]
  /\ sock \in [Gen -> {"none", "open", "closed"}]
  /\ host \in [Gen -> {"none", "up", "ended"}]
  /\ spoiled \subseteq 1..generation
QueueTypes ==
  /\ outbox \in Seq(Events)
  /\ hand \in [Gen -> Events]
  /\ wire \in [Gen -> Seq(Frames)]
LaptopTypes ==
  /\ platform \in {"linux", "windows"}
  /\ down \subseteq Keys /\ depressed \subseteq Modifiers \cup {"shift"}
Types == ScreenTypes /\ ThreadTypes /\ QueueTypes /\ LaptopTypes

\* The threads start in order, and those of a connection to come not yet; what a
\* connection has on the host and in the fields it got on its way.
InOrder == \A g \in Gen :
  /\ net[g] # "off" => g <= generation
  /\ writer[g] # "off" => net[g] \in {"streaming", "ended", "failed"}
  /\ host[g] # "none" => net[g] \notin {"off", "start", "shake", "hello", "refused"}
  /\ wire[g] # <<>> => host[g] # "none"
  /\ net[g] \in {"off", "start"} => sock[g] = "none" /\ socket # g

-----------------------------------------------------------------------------
\* A set put in sequence has elements of the set.
LEMMA Sequenced ==
  ASSUME NEW S, IsFiniteSet(S)
  PROVE  SetToSeq(S) \in Seq(S)
<1>1. PICK f : f \in Bijection(1..Cardinality(S), S)
  BY FS_CardinalityType DEF ExistsBijection
<1>2. f \in [1..Cardinality(S) -> S] /\ IsInjective(f)
  BY <1>1 DEF Bijection, Injection
<1>3. SetToSeq(S) \in [1..Cardinality(S) -> S]
  BY <1>2 DEF SetToSeq
<1>4. Cardinality(S) \in Nat
  BY FS_CardinalityType
<1> QED BY <1>3, <1>4

\* The events of this model are events.
LEMMA EventType ==
  ASSUME ScreenTypes, NEW k \in Keys \cup {"mode", "none"}, NEW p, p \in BOOLEAN,
         NEW m \in SUBSET (Modifiers \cup {"shift"})
  PROVE  Event(k, p, m) \in Events
<1>1. generation \in 0..MaxGen
  BY InputAssumption DEF ScreenTypes, Gen, InputAssumption
<1> QED BY <1>1 DEF Event, Events

\* A release of each of some keys is a sequence of events.
LEMMA ReleasedType ==
  ASSUME ScreenTypes, NEW S \in SUBSET Keys, IsFiniteSet(S)
  PROVE  Released(S) \in Seq(Events)
<1> DEFINE s == SetToSeq(S)
<1>1. s \in Seq(S) /\ Len(s) \in Nat /\ DOMAIN s = 1..Len(s)
  BY Sequenced
<1>2. ASSUME NEW i \in 1..Len(s) PROVE Event(s[i], FALSE, {}) \in Events
  <2>1. s[i] \in Keys
    BY <1>1
  <2>2. FALSE \in BOOLEAN
    OBVIOUS
  <2> QED BY <2>1, <2>2, EventType
<1>3. Released(S) = [i \in 1..Len(s) |-> Event(s[i], FALSE, {})]
  BY <1>1 DEF Released
<1> HIDE DEF s
<1>4. Released(S) \in [1..Len(s) -> Events]
  BY <1>2, <1>3
<1> QED BY <1>1, <1>4, SeqDef

\* What is held is finite.
LEMMA HeldFinite ==
  /\ held \cap Buttons \in SUBSET Keys /\ IsFiniteSet(held \cap Buttons)
  /\ Mask \in SUBSET Keys /\ IsFiniteSet(Mask)
<1>1. held \cap Buttons \subseteq Buttons /\ Mask \subseteq Modifiers
  BY DEF Mask
<1>2. IsFiniteSet(Buttons) /\ IsFiniteSet(Modifiers)
  BY InputAssumption DEF InputAssumption
<1> QED BY <1>1, <1>2, FS_Subset DEF Keys

\* The releases are events.
LEMMA ReleasesType == ScreenTypes => Releases \in Seq(Events)
BY ReleasedType, HeldFinite DEF Releases

\* The types hold initially.
LEMMA TypesInit == Init => Types /\ InOrder
<1> SUFFICES ASSUME Init PROVE Types /\ InOrder
  OBVIOUS
<1> USE DEF Init
<1>1. MaxGen \in Nat \ {0} /\ MaxEvent \in Nat
  BY InputAssumption DEF InputAssumption
<1>2. ScreenTypes
  <2>1. connected \in BOOLEAN
    OBVIOUS
  <2>2. generation \in Gen /\ done \in 0..MaxEvent
    BY <1>1 DEF Gen
  <2> QED BY <2>1, <2>2 DEF ScreenTypes
<1>3. ThreadTypes
  BY DEF ThreadTypes
<1>4. Nothing \in Events
  <2>1. 0 \in 0..MaxGen /\ FALSE \in BOOLEAN
    BY <1>1
  <2> QED BY <2>1 DEF Nothing, Events
<1>5. QueueTypes
  BY <1>4 DEF QueueTypes
<1>6. LaptopTypes
  BY DEF LaptopTypes
<1>7. InOrder
  BY DEF InOrder, Gen
<1> QED BY <1>2, <1>3, <1>5, <1>6, <1>7 DEF Types

\* What a connection encrypts with is its own state or that of another.
LEMMA SpoiledType ==
  ASSUME ScreenTypes, spoiled \subseteq 1..generation, NEW g
  PROVE  Spoiled(g) \subseteq 1..generation
BY DEF Spoiled, ScreenTypes, Gen

\* Every step keeps the types: a thread that runs is of a connection begun.
LEMMA TypesStep == Types /\ InOrder /\ [Next]_vars => Types'
<1> SUFFICES ASSUME Types, InOrder, [Next]_vars PROVE Types'
  OBVIOUS
<1>0. /\ MaxGen \in Nat /\ MaxEvent \in Nat /\ Gen \subseteq Nat /\ Mask \subseteq Modifiers
      /\ Keys = Modifiers \cup Buttons \cup {"a"}
      /\ TRUE \in BOOLEAN /\ FALSE \in BOOLEAN
  BY InputAssumption DEF InputAssumption, Gen, Mask, Keys
<1>a. ScreenTypes /\ ThreadTypes /\ QueueTypes /\ LaptopTypes
  BY DEF Types
<1>b. ASSUME Acts PROVE done' \in 0..MaxEvent
  BY <1>0, <1>a, <1>b DEF Acts, ScreenTypes
<1>1. ASSUME NEW k \in Modifiers \cup Buttons, Toggle(k) PROVE Types'
  <2>1. Event(k, k \in held', held' \cap Modifiers) \in Events
    <3>1. (k \in held') \in BOOLEAN
      OBVIOUS
    <3> QED BY <1>0, <1>a, <3>1, EventType
  <2>2. QueueTypes'
    BY <1>1, <1>a, <2>1 DEF Toggle, QueueTypes, threads, link
  <2>3. ScreenTypes'
    BY <1>1, <1>a, <1>b DEF Toggle, Acts, ScreenTypes
  <2>4. ThreadTypes' /\ LaptopTypes'
    BY <1>1, <1>a DEF Toggle, ThreadTypes, LaptopTypes, threads, link, laptop
  <2> QED BY <2>2, <2>3, <2>4 DEF Types
<1>2. ASSUME NEW mods \in {{}, {"shift"}}, Tap(mods) PROVE Types'
  <2>1. Event("a", TRUE, Mask \cup mods) \in Events
        /\ Event("a", FALSE, Mask \cup mods) \in Events
    BY <1>0, <1>a, EventType
  <2>2. outbox' \in Seq(Events)
    <3> DEFINE t == <<Event("a", TRUE, Mask \cup mods), Event("a", FALSE, Mask \cup mods)>>
    <3>1. t \in Seq(Events)
      <4> DEFINE e1 == Event("a", TRUE, Mask \cup mods)
                 e2 == Event("a", FALSE, Mask \cup mods)
      <4> HIDE DEF e1, e2
      <4>1. e1 \in Events /\ e2 \in Events
        BY <2>1 DEF e1, e2
      <4>2. <<e1, e2>> \in Seq(Events)
        BY <4>1
      <4> QED BY <4>2 DEF e1, e2
    <3>2. outbox' = outbox \o t
      BY <1>2 DEF Tap
    <3> HIDE DEF t
    <3> QED BY <1>a, <3>1, <3>2 DEF QueueTypes
  <2>3. QueueTypes'
    BY <1>2, <1>a, <2>2 DEF Tap, QueueTypes, threads, link
  <2>4. ScreenTypes'
    BY <1>2, <1>a, <1>b DEF Tap, Acts, ScreenTypes
  <2>5. ThreadTypes' /\ LaptopTypes'
    BY <1>2, <1>a DEF Tap, ThreadTypes, LaptopTypes, threads, link, laptop
  <2> QED BY <2>3, <2>4, <2>5 DEF Types
<1>3. CASE Teardown
  <2>1. QueueTypes'
    BY <1>3, <1>a, ReleasesType DEF Teardown, QueueTypes, threads, link
  <2>2. ScreenTypes'
    BY <1>3, <1>a DEF Teardown, ScreenTypes
  <2>3. ThreadTypes' /\ LaptopTypes'
    BY <1>3, <1>a DEF Teardown, ThreadTypes, LaptopTypes, threads, link, laptop
  <2> QED BY <2>1, <2>2, <2>3 DEF Types
<1>4. CASE TornDown
  <2>1. QueueTypes'
    BY <1>4, <1>a DEF TornDown, Cleared, QueueTypes, laptop
  <2>2. /\ generation \in 1..MaxGen /\ generation < MaxGen
        /\ generation' = generation + 1 /\ socket' = 0 /\ ui' = "idle"
        /\ noise' = 0 /\ connected' = FALSE /\ held' = held /\ done' = done
    BY <1>4, <1>a DEF TornDown, ScreenTypes, Gen
  <2>3. generation' \in 1..MaxGen /\ noise' \in 0..generation'
        /\ socket' \in 0..generation'
    BY <1>0, <2>2
  <2>4. ScreenTypes'
    BY <1>a, <2>2, <2>3 DEF ScreenTypes, Gen
  <2>5. spoiled' \subseteq 1..generation'
    BY <1>0, <1>4, <1>a, <2>2, <2>3 DEF TornDown, ThreadTypes
  <2>6. /\ net' \in [Gen -> {"off", "start", "shake", "hello", "refused", "config",
                             "open", "streaming", "ended", "failed"}]
        /\ sock' \in [Gen -> {"none", "open", "closed"}]
        /\ UNCHANGED <<writer, host, down, depressed, platform>>
    BY <1>4, <1>a DEF TornDown, ThreadTypes, laptop
  <2>7. ThreadTypes' /\ LaptopTypes'
    BY <1>a, <2>5, <2>6 DEF ThreadTypes, LaptopTypes
  <2> QED BY <2>1, <2>4, <2>7 DEF Types
<1>5. ASSUME NEW g \in Gen, Net(g) PROVE Types'
  <2>1. CASE NetConnects(g) \/ NetShakes(g)
    <3>1. ThreadTypes' /\ QueueTypes' /\ LaptopTypes'
      BY <1>a, <2>1 DEF NetConnects, NetShakes, Goes, ThreadTypes, QueueTypes,
                        LaptopTypes, link, laptop
    <3>2. g \in 0..generation
      BY <1>0, <1>a, <2>1 DEF InOrder, NetConnects, NetShakes, Goes, ScreenTypes
    <3>3. ScreenTypes'
      BY <1>a, <2>1, <3>2 DEF NetConnects, NetShakes, ScreenTypes
    <3> QED BY <3>1, <3>3 DEF Types
  <2>2. CASE NetSaysHello(g)
    <3>1. ScreenTypes' /\ LaptopTypes'
      BY <1>a, <2>2 DEF NetSaysHello, ScreenTypes, LaptopTypes, phone
    <3>2. Spoiled(g) \subseteq 1..generation
      BY <1>a, SpoiledType DEF ThreadTypes
    <3>3. ThreadTypes'
      BY <1>a, <2>2, <3>2 DEF NetSaysHello, ThreadTypes, phone
    <3>4. QueueTypes'
      <4>1. <<>> \in Seq(Frames)
        OBVIOUS
      <4> QED BY <1>a, <2>2, <4>1 DEF NetSaysHello, QueueTypes, phone
    <3> QED BY <3>1, <3>3, <3>4 DEF Types
  <2>3. CASE NetOpens(g)
    <3>1. SetMode \in Events
      <4>1. Event("mode", FALSE, {}) \in Events
        BY <1>0, <1>a, EventType
      <4> QED BY <4>1 DEF SetMode, Event, Events
    <3>2. outbox' \in Seq(Events) /\ done' \in 0..MaxEvent
      <4>1. Append(outbox, SetMode) \in Seq(Events)
        BY <1>a, <3>1 DEF QueueTypes
      <4>2. done < MaxEvent => done + 1 \in 0..MaxEvent
        BY <1>0, <1>a DEF ScreenTypes
      <4> QED BY <1>a, <2>3, <4>1, <4>2 DEF NetOpens, QueueTypes, ScreenTypes
    <3>3. ScreenTypes'
      BY <1>a, <2>3, <3>2 DEF NetOpens, ScreenTypes
    <3>4. ThreadTypes' /\ LaptopTypes'
      BY <1>a, <2>3 DEF NetOpens, Goes, ThreadTypes, LaptopTypes, link, laptop
    <3>5. QueueTypes'
      BY <1>a, <2>3, <3>2 DEF NetOpens, QueueTypes, link
    <3> QED BY <3>3, <3>4, <3>5 DEF Types
  <2>4. CASE NetEnds(g)
    <3>1. connected' \in BOOLEAN
      BY <2>4, Zenon DEF NetEnds
    <3>2. ScreenTypes' /\ LaptopTypes'
      BY <1>a, <2>4, <3>1 DEF NetEnds, ScreenTypes, LaptopTypes, laptop
    <3>3. ThreadTypes' /\ QueueTypes'
      BY <1>a, <2>4 DEF NetEnds, Goes, ThreadTypes, QueueTypes, laptop
    <3> QED BY <3>2, <3>3 DEF Types
  <2>5. CASE NetReadsConfig(g)
    BY <1>a, <2>5 DEF NetReadsConfig, Goes, Types, ScreenTypes, ThreadTypes, QueueTypes,
                      LaptopTypes, phone, link, laptop
  <2> QED BY <1>5, <2>1, <2>2, <2>3, <2>4, <2>5 DEF Net
<1>6. ASSUME NEW g \in Gen, Writer(g) PROVE Types'
  <2>0. ScreenTypes' /\ LaptopTypes'
    BY <1>a, <1>6 DEF Writer, WriterChecks, WriterPolls, WriterSends, ScreenTypes,
                      LaptopTypes, phone, laptop
  <2>1. CASE WriterChecks(g)
    BY <1>a, <2>0, <2>1
       DEF WriterChecks, Types, ThreadTypes, QueueTypes, phone, link, laptop
  <2>2. CASE WriterPolls(g)
    <3>1. ThreadTypes'
      BY <1>a, <2>2 DEF WriterPolls, ThreadTypes, ScreenTypes, link, laptop
    <3>2. outbox # <<>> => Head(outbox) \in Events /\ Tail(outbox) \in Seq(Events)
      BY <1>a DEF QueueTypes
    <3>3. outbox' \in Seq(Events) /\ hand' \in [Gen -> Events] /\ wire' = wire
      BY <1>a, <2>2, <3>2 DEF WriterPolls, QueueTypes, link
    <3> QED BY <1>a, <2>0, <3>1, <3>3 DEF QueueTypes, Types
  <2>3. CASE WriterSends(g)
    <3>1. Spoiled(g) \subseteq 1..generation
      BY <1>a, SpoiledType DEF ThreadTypes
    <3>2. ThreadTypes'
      BY <1>a, <2>3, <3>1 DEF WriterSends, ThreadTypes, phone, laptop
    <3>3. [ev |-> hand[g], good |-> IsGood(g)] \in Frames
      <4>1. IsGood(g) \in BOOLEAN
        BY DEF IsGood
      <4>2. hand[g] \in Events
        BY <1>a DEF QueueTypes
      <4> QED BY <4>1, <4>2 DEF Frames
    <3>4. wire' \in [Gen -> Seq(Frames)]
      <4> DEFINE fr == [ev |-> hand[g], good |-> IsGood(g)]
      <4>1. Append(wire[g], fr) \in Seq(Frames)
        BY <1>a, <3>3 DEF QueueTypes
      <4>2. wire' = wire \/ wire' = [wire EXCEPT ![g] = Append(wire[g], fr)]
        BY <2>3 DEF WriterSends
      <4> HIDE DEF fr
      <4> QED BY <1>a, <4>1, <4>2 DEF QueueTypes
    <3>5. Nothing \in Events
      BY <1>0 DEF Nothing, Events
    <3>6. hand' \in [Gen -> Events] /\ outbox' = outbox
      BY <1>a, <2>3, <3>5 DEF WriterSends, QueueTypes, phone
    <3> QED BY <1>a, <2>0, <3>2, <3>4, <3>6 DEF QueueTypes, Types
  <2> QED BY <1>6, <2>1, <2>2, <2>3 DEF Writer
<1>7. ASSUME NEW g \in Gen, Host(g) PROVE Types'
  <2>0. ScreenTypes'
    BY <1>a, <1>7 DEF Host, HostReads, HostEnds, ScreenTypes, phone
  <2>1. CASE HostReads(g)
    <3>1. wire[g] \in Seq(Frames) /\ wire[g] # <<>>
      BY <1>a, <2>1 DEF HostReads, MayRead, QueueTypes
    <3>2. Head(wire[g]) \in Frames /\ Tail(wire[g]) \in Seq(Frames)
      BY <3>1
    <3>3. QueueTypes'
      BY <1>a, <2>1, <3>2 DEF HostReads, QueueTypes, phone, threads
    <3>4. ThreadTypes'
      BY <1>a, <2>1 DEF HostReads, ThreadTypes, phone, threads
    <3>5. ASSUME NEW e \in Events, e.key \in Keys, InjectLinux(e) \/ InjectWindows(e)
          PROVE  down' \subseteq Keys /\ depressed' \subseteq Modifiers \cup {"shift"}
      <4>1. Moved(e) \subseteq Keys
        BY <1>a, <3>5 DEF Moved, LaptopTypes
      <4>2. e.mods \subseteq Modifiers \cup {"shift"}
        BY <3>5 DEF Events
      <4> QED BY <1>a, <3>5, <4>1, <4>2 DEF InjectLinux, InjectWindows, LaptopTypes
    <3>6. Head(wire[g]).ev \in Events
      BY <3>2 DEF Frames
    <3>7. LaptopTypes'
      BY <1>a, <2>1, <3>5, <3>6 DEF HostReads, LaptopTypes
    <3> QED BY <2>0, <3>3, <3>4, <3>7 DEF Types
  <2>2. CASE HostEnds(g)
    <3>1. <<>> \in Seq(Frames)
      OBVIOUS
    <3> QED
      BY <1>a, <2>0, <2>2, <3>1
         DEF HostEnds, Types, ThreadTypes, QueueTypes, LaptopTypes, phone, threads
  <2> QED BY <1>7, <2>1, <2>2 DEF Host
<1>8. ASSUME NEW g \in Gen, NetworkFails(g) PROVE Types'
  BY <1>a, <1>8 DEF NetworkFails, Types, ScreenTypes, ThreadTypes, QueueTypes,
                    LaptopTypes, phone, threads, laptop
<1>9. CASE UNCHANGED vars
  BY <1>a, <1>9 DEF vars, phone, threads, link, laptop, Types, ScreenTypes,
                    ThreadTypes, QueueTypes, LaptopTypes
<1> QED BY <1>1, <1>2, <1>3, <1>4, <1>5, <1>6, <1>7, <1>8, <1>9 DEF Next

\* Every step keeps the order of the threads.
LEMMA InOrderStep == Types /\ InOrder /\ [Next]_vars => InOrder'
<1> SUFFICES ASSUME Types, InOrder, [Next]_vars PROVE InOrder'
  OBVIOUS
<1>a. ScreenTypes /\ ThreadTypes /\ QueueTypes
  BY DEF Types
<1>1. ASSUME \/ \E k \in Modifiers \cup Buttons : Toggle(k)
             \/ \E mods \in {{}, {"shift"}} : Tap(mods)
             \/ Teardown
             \/ UNCHANGED vars
      PROVE  UNCHANGED <<net, writer, host, wire, generation, sock, socket>>
  BY <1>1 DEF Toggle, Tap, Teardown, vars, phone, threads, link, laptop
<1>2. CASE TornDown
  <2>1. /\ UNCHANGED <<writer, host, wire>> /\ generation \in Nat
        /\ generation' = generation + 1 /\ socket' = 0
        /\ net' = [net EXCEPT ![generation'] = "start"]
        /\ \A h \in Gen : h # socket => sock'[h] = sock[h]
    BY <1>2, <1>a, InputAssumption
       DEF TornDown, ScreenTypes, ThreadTypes, Gen, laptop, InputAssumption
  <2> SUFFICES ASSUME NEW h \in Gen
               PROVE  /\ net'[h] # "off" => h <= generation'
                      /\ writer[h] # "off" =>
                           net'[h] \in {"streaming", "ended", "failed"}
                      /\ host[h] # "none" =>
                           net'[h] \notin {"off", "start", "shake", "hello", "refused"}
                      /\ wire[h] # <<>> => host[h] # "none"
                      /\ net'[h] \in {"off", "start"} => sock'[h] = "none" /\ socket' # h
    BY <2>1 DEF InOrder
  <2>2. h \in Nat \ {0}
    BY DEF Gen
  <2>3. CASE h = generation'
    <3>1. net[h] = "off"
      BY <2>1, <2>2, <2>3 DEF InOrder
    <3> QED BY <1>a, <2>1, <2>2, <2>3, <3>1 DEF InOrder, ThreadTypes
  <2>4. CASE h # generation'
    <3>1. net'[h] = net[h]
      BY <1>a, <2>1, <2>4 DEF ThreadTypes
    <3> QED BY <2>1, <2>2, <3>1 DEF InOrder
  <2> QED BY <2>3, <2>4
<1>3. ASSUME NEW g \in Gen, Net(g) PROVE InOrder'
  <2>0. g # 0 /\ (net[g] # "off" => g <= generation)
    BY DEF Gen, InOrder
  <2>1. CASE NetConnects(g)
    BY <1>a, <2>0, <2>1 DEF NetConnects, Goes, InOrder, ThreadTypes, laptop
  <2>2. CASE NetSaysHello(g)
    BY <1>a, <2>2 DEF NetSaysHello, InOrder, ThreadTypes, phone
  <2>3. CASE NetOpens(g)
    BY <1>a, <2>3 DEF NetOpens, Goes, InOrder, ThreadTypes, link, laptop
  <2>4. CASE NetEnds(g)
    <3>1. /\ net' = [net EXCEPT ![g] = "ended"] \/ net' = [net EXCEPT ![g] = "failed"]
          /\ net[g] \in {"refused", "shake", "config", "streaming"}
          /\ net[g] = "refused" \/ writer[g] = "off" \/ net[g] = "streaming"
      BY <2>4 DEF NetEnds, Throws, Goes, InOrder
    <3>2. /\ UNCHANGED <<writer, host, wire, generation, socket>>
          /\ sock' = [sock EXCEPT ![g] = "closed"]
      BY <2>4 DEF NetEnds, laptop
    <3> QED BY <1>a, <2>0, <3>1, <3>2 DEF InOrder, ThreadTypes
  <2>5. CASE NetShakes(g) \/ NetReadsConfig(g)
    <3>1. /\ net' = [net EXCEPT ![g] = "hello"] \/ net' = [net EXCEPT ![g] = "open"]
          /\ net' = [net EXCEPT ![g] = "hello"] => net[g] = "shake"
          /\ net' = [net EXCEPT ![g] = "open"] => net[g] = "config"
          /\ UNCHANGED <<writer, host, wire, generation, socket, sock>>
      BY <1>a, <2>5 DEF NetShakes, NetReadsConfig, Goes, ThreadTypes, phone, link, laptop
    <3> QED BY <1>a, <2>0, <3>1 DEF InOrder, ThreadTypes
  <2> QED BY <1>3, <2>1, <2>2, <2>3, <2>4, <2>5 DEF Net
<1>4. ASSUME NEW g \in Gen, Writer(g) PROVE InOrder'
  <2>1. CASE WriterChecks(g)
    BY <1>a, <2>1 DEF WriterChecks, InOrder, ThreadTypes, phone, link, laptop
  <2>2. CASE WriterPolls(g)
    BY <1>a, <2>2 DEF WriterPolls, InOrder, ThreadTypes, link, laptop
  <2>3. CASE WriterSends(g)
    BY <1>a, <2>3 DEF WriterSends, InOrder, ThreadTypes, QueueTypes, phone, laptop
  <2> QED BY <1>4, <2>1, <2>2, <2>3 DEF Writer
<1>5. ASSUME NEW g \in Gen, Host(g) PROVE InOrder'
  <2>1. CASE HostReads(g)
    BY <1>a, <2>1
       DEF HostReads, MayRead, InOrder, ThreadTypes, QueueTypes, phone, threads
  <2>2. CASE HostEnds(g)
    BY <1>a, <2>2 DEF HostEnds, InOrder, ThreadTypes, QueueTypes, phone, threads
  <2> QED BY <1>5, <2>1, <2>2 DEF Host
<1>6. ASSUME NEW g \in Gen, NetworkFails(g) PROVE InOrder'
  BY <1>6 DEF NetworkFails, InOrder, phone, threads, laptop
<1> QED BY <1>1, <1>2, <1>3, <1>4, <1>5, <1>6 DEF Next, InOrder

\* Types hold throughout, and a writer, a session or a frame under way belongs to
\* a connection that has come that far.
THEOREM TypeCorrect == Spec => []TypeOK
<1>1. Types /\ InOrder /\ [Next]_vars => (Types /\ InOrder)'
  BY TypesStep, InOrderStep
<1>2. Types /\ InOrder => TypeOK
  BY DEF Types, ScreenTypes, ThreadTypes, LaptopTypes, InOrder, TypeOK
<1> QED BY TypesInit, <1>1, <1>2, PTL DEF Spec

-----------------------------------------------------------------------------
(* What was typed for one connection stays with it.                           *)

\* A writer that runs still when a newer connection has begun never again finds the
\* state of its own connection in the field.
OldWriters == \A g \in Gen :
  writer[g] \in {"poll", "send"} => generation = g \/ noise # g

\* What is in the outbox, and in the hand of the writer of the newest
\* connection, was typed for that one; so were the frames under way.
Own ==
  /\ \A i \in 1..Len(outbox) : outbox[i].gen = generation
  /\ writer[generation] = "send" => hand[generation].gen = generation
  /\ NothingCrossesOver

\* Every step keeps it so.
LEMMA OldWritersStep == Types /\ InOrder /\ OldWriters /\ [Next]_vars => OldWriters'
<1> SUFFICES ASSUME Types, InOrder, OldWriters, [Next]_vars PROVE OldWriters'
  OBVIOUS
<1>a. ThreadTypes
  BY DEF Types
<1>1. ASSUME UNCHANGED <<noise, generation>>,
             \A g \in Gen : writer'[g] \in {"poll", "send"} =>
                            writer[g] \in {"poll", "send"} \/ generation = g
      PROVE  OldWriters'
  BY <1>1 DEF OldWriters
<1>2. ASSUME \/ \E k \in Modifiers \cup Buttons : Toggle(k)
             \/ \E mods \in {{}, {"shift"}} : Tap(mods)
             \/ Teardown \/ UNCHANGED vars
      PROVE  OldWriters'
  BY <1>1, <1>2 DEF Toggle, Tap, Acts, Teardown, vars, phone, threads
<1>3. CASE TornDown
  BY <1>3 DEF TornDown, OldWriters, Gen
<1>4. ASSUME NEW g \in Gen, NetShakes(g) PROVE OldWriters'
  <2>1. writer[g] = "off"
    BY <1>a, <1>4 DEF NetShakes, Goes, InOrder, ThreadTypes
  <2>2. noise' = g /\ UNCHANGED <<generation, writer>>
    BY <1>4 DEF NetShakes
  <2> QED BY <2>1, <2>2 DEF OldWriters
<1>5. ASSUME NEW g \in Gen, NetOpens(g) PROVE OldWriters'
  BY <1>1, <1>5, <1>a DEF NetOpens, ThreadTypes
<1>6. ASSUME NEW g \in Gen, Writer(g) PROVE OldWriters'
  BY <1>1, <1>6, <1>a DEF Writer, WriterChecks, WriterPolls, WriterSends, ThreadTypes,
                          phone
<1>7. ASSUME NEW g \in Gen,
             \/ NetConnects(g) \/ NetSaysHello(g) \/ NetReadsConfig(g) \/ NetEnds(g)
             \/ Host(g) \/ NetworkFails(g)
      PROVE  OldWriters'
  BY <1>1, <1>7 DEF NetConnects, NetSaysHello, NetReadsConfig, NetEnds, Host, HostReads,
                    HostEnds, NetworkFails, phone, threads
<1> QED BY <1>2, <1>3, <1>4, <1>5, <1>6, <1>7 DEF Next, Net

\* The releases are typed for the present connection.
LEMMA ReleasesOwn ==
  ASSUME ScreenTypes
  PROVE  \A i \in 1..Len(Releases) : Releases[i].gen = generation
<1>1. ASSUME NEW S \in SUBSET Keys, IsFiniteSet(S)
      PROVE  /\ Released(S) \in Seq(Events)
             /\ \A i \in 1..Len(Released(S)) : Released(S)[i].gen = generation
  <2> DEFINE s == SetToSeq(S)
  <2>1. s \in Seq(S) /\ Len(s) \in Nat /\ DOMAIN s = 1..Len(s)
    BY <1>1, Sequenced
  <2>2. Released(S) \in Seq(Events)
    BY <1>1, ReleasedType
  <2>3. Released(S) = [i \in 1..Len(s) |-> Event(s[i], FALSE, {})]
    BY <2>1 DEF Released
  <2>4. DOMAIN Released(S) = 1..Len(Released(S))
    BY <2>2
  <2> HIDE DEF s
  <2>5. \A i \in 1..Len(s) : Released(S)[i].gen = generation
    BY <2>3 DEF Event
  <2> QED BY <2>2, <2>3, <2>4, <2>5
<1>2. /\ held \cap Buttons \in SUBSET Keys /\ IsFiniteSet(held \cap Buttons)
      /\ Mask \in SUBSET Keys /\ IsFiniteSet(Mask)
  BY HeldFinite
<1> DEFINE a == Released(held \cap Buttons)
           b == Released(Mask)
<1>3. /\ a \in Seq(Events) /\ \A i \in 1..Len(a) : a[i].gen = generation
      /\ b \in Seq(Events) /\ \A i \in 1..Len(b) : b[i].gen = generation
  BY <1>1, <1>2
<1>4. Releases = a \o b
  BY DEF Releases
<1> HIDE DEF a, b
<1>5. /\ Len(a \o b) = Len(a) + Len(b) /\ Len(a) \in Nat /\ Len(b) \in Nat
      /\ \A i \in 1..Len(a) + Len(b) :
           (a \o b)[i] = IF i <= Len(a) THEN a[i] ELSE b[i - Len(a)]
  BY <1>3, ConcatProperties
<1>6. ASSUME NEW i \in 1..Len(a) + Len(b) PROVE (a \o b)[i].gen = generation
  <2>1. i <= Len(a) => i \in 1..Len(a)
    BY <1>5
  <2>2. ~(i <= Len(a)) => i - Len(a) \in 1..Len(b)
    BY <1>5
  <2> QED BY <1>3, <1>5, <2>1, <2>2
<1> QED BY <1>4, <1>5, <1>6

\* Every step keeps it so.
LEMMA OwnStep == Types /\ InOrder /\ OldWriters /\ Own /\ [Next]_vars => Own'
<1> SUFFICES ASSUME Types, InOrder, OldWriters, Own, [Next]_vars PROVE Own'
  OBVIOUS
<1>a. /\ ScreenTypes /\ ThreadTypes /\ QueueTypes
      /\ MaxGen \in Nat /\ generation \in 1..MaxGen
  BY InputAssumption DEF Types, ScreenTypes, Gen, InputAssumption
<1>0. ASSUME UNCHANGED <<generation, writer, hand, wire>>,
             NEW t \in Seq(Events), outbox' = outbox \o t,
             \A i \in 1..Len(t) : t[i].gen = generation
      PROVE  Own'
  <2>1. /\ Len(outbox \o t) = Len(outbox) + Len(t) /\ Len(outbox) \in Nat /\ Len(t) \in Nat
        /\ \A i \in 1..Len(outbox) + Len(t) :
             (outbox \o t)[i] = IF i <= Len(outbox) THEN outbox[i] ELSE t[i - Len(outbox)]
    BY <1>a, <1>0, ConcatProperties DEF QueueTypes
  <2>2. ASSUME NEW i \in 1..Len(outbox) + Len(t)
        PROVE  (outbox \o t)[i].gen = generation
    <3>1. i <= Len(outbox) => i \in 1..Len(outbox)
      BY <2>1
    <3>2. ~(i <= Len(outbox)) => i - Len(outbox) \in 1..Len(t)
      BY <2>1
    <3> QED BY <1>0, <2>1, <3>1, <3>2 DEF Own
  <2> QED BY <1>0, <2>1, <2>2 DEF Own, NothingCrossesOver
<1>1. ASSUME NEW k \in Modifiers \cup Buttons, Toggle(k) PROVE Own'
  <2> DEFINE e == Event(k, k \in held', held' \cap Modifiers)
  <2>1. /\ UNCHANGED <<generation, writer, hand, wire>> /\ outbox' = Append(outbox, e)
        /\ e.gen = generation
    BY <1>1 DEF Toggle, Event, threads, link
  <2> HIDE DEF e
  <2>2. /\ Len(outbox') = Len(outbox) + 1 /\ Len(outbox) \in Nat
        /\ \A i \in 1..Len(outbox) : outbox'[i] = outbox[i]
        /\ outbox'[Len(outbox) + 1] = e
    BY <1>a, <2>1 DEF QueueTypes
  <2>3. \A i \in 1..Len(outbox') : outbox'[i].gen = generation
    BY <2>1, <2>2 DEF Own
  <2> QED BY <2>1, <2>3 DEF Own, NothingCrossesOver
<1>2. ASSUME NEW mods \in {{}, {"shift"}}, Tap(mods) PROVE Own'
  <2> DEFINE e1 == Event("a", TRUE, Mask \cup mods)
             e2 == Event("a", FALSE, Mask \cup mods)
  <2>1. /\ UNCHANGED <<generation, writer, hand, wire>> /\ outbox' = outbox \o <<e1, e2>>
        /\ e1.gen = generation /\ e2.gen = generation
    BY <1>2 DEF Tap, Event, threads, link
  <2>2. e1 \in Events /\ e2 \in Events
    BY <1>a, EventType DEF Keys, Mask
  <2> HIDE DEF e1, e2
  <2>3. <<e1, e2>> \in Seq(Events) /\ \A i \in 1..Len(<<e1, e2>>) :
                                        <<e1, e2>>[i].gen = generation
    BY <2>1, <2>2
  <2> QED BY <1>0, <2>1, <2>3
<1>3. CASE Teardown
  <2>1. CASE connected
    BY <1>0, <1>3, <1>a, <2>1, ReleasesType, ReleasesOwn DEF Teardown, threads, link
  <2>2. CASE ~connected
    BY <1>3, <2>2 DEF Teardown, Own, NothingCrossesOver, threads, link
  <2> QED BY <2>1, <2>2
<1>4. CASE TornDown
  <2>1. /\ outbox' = <<>> /\ UNCHANGED <<writer, hand, wire>>
        /\ generation' = generation + 1 /\ generation < MaxGen
    BY <1>4, <1>a DEF TornDown, Cleared, ScreenTypes
  <2>2. generation' \in Gen /\ generation' > generation
    BY <1>a, <2>1 DEF Gen
  <2>3. writer[generation'] = "off"
    BY <1>a, <2>2 DEF InOrder, ThreadTypes, Gen
  <2> QED BY <2>1, <2>3 DEF Own, NothingCrossesOver
<1>5. ASSUME NEW g \in Gen,
             \/ NetConnects(g) \/ NetShakes(g) \/ NetReadsConfig(g) \/ NetEnds(g)
             \/ NetworkFails(g)
      PROVE  Own'
  BY <1>5 DEF NetConnects, NetShakes, NetReadsConfig, NetEnds, NetworkFails, Own,
              NothingCrossesOver, phone, threads, link
<1>6. ASSUME NEW g \in Gen, NetSaysHello(g) PROVE Own'
  <2>1. /\ UNCHANGED <<generation, writer, hand, outbox>>
        /\ wire' = wire \/ wire' = [h \in Gen |-> <<>>]
    BY <1>6 DEF NetSaysHello, phone
  <2> QED BY <2>1 DEF Own, NothingCrossesOver
<1>7. ASSUME NEW g \in Gen, NetOpens(g) PROVE Own'
  <2>1. /\ UNCHANGED <<generation, hand, wire>>
        /\ outbox' = outbox \/ outbox' = Append(outbox, SetMode)
        /\ writer' = [writer EXCEPT ![g] = writer'[g]] /\ writer'[g] # "send"
    BY <1>7, <1>a DEF NetOpens, ThreadTypes, link
  <2>2. SetMode.gen = generation
    BY DEF SetMode, Event
  <2>3. \A i \in 1..Len(outbox') : outbox'[i].gen = generation
    <3>1. CASE outbox' = outbox
      BY <3>1 DEF Own
    <3>2. CASE outbox' = Append(outbox, SetMode)
      <4> HIDE DEF SetMode
      <4>1. /\ Len(outbox') = Len(outbox) + 1 /\ Len(outbox) \in Nat
            /\ \A i \in 1..Len(outbox) : outbox'[i] = outbox[i]
            /\ outbox'[Len(outbox) + 1] = SetMode
        BY <1>a, <3>2 DEF QueueTypes
      <4> QED BY <2>2, <4>1 DEF Own
    <3> QED BY <2>1, <3>1, <3>2
  <2>4. writer'[generation] = "send" => writer[generation] = "send"
    BY <1>a, <2>1 DEF ThreadTypes, Gen
  <2> QED BY <2>1, <2>3, <2>4 DEF Own, NothingCrossesOver
<1>8. ASSUME NEW g \in Gen, Writer(g) PROVE Own'
  <2>1. CASE WriterChecks(g)
    BY <1>a, <2>1
       DEF WriterChecks, Own, NothingCrossesOver, ThreadTypes, Gen, phone, link
  <2>2. CASE WriterPolls(g)
    <3>1. CASE net[g] = "ended"
      BY <1>a, <2>2, <3>1
         DEF WriterPolls, Own, NothingCrossesOver, ThreadTypes, Gen, link
    <3>2. CASE net[g] # "ended"
      <4>1. /\ UNCHANGED <<generation, wire>> /\ outbox # <<>>
            /\ hand' = [hand EXCEPT ![g] = outbox[1]] /\ outbox' = Tail(outbox)
            /\ writer' = [writer EXCEPT ![g] = "send"]
        BY <1>a, <2>2, <3>2 DEF WriterPolls, QueueTypes, link
      <4>2. /\ Len(outbox') = Len(outbox) - 1 /\ Len(outbox) \in Nat \ {0}
            /\ \A i \in 1..Len(outbox') : outbox'[i] = outbox[i + 1]
        BY <1>a, <4>1 DEF QueueTypes
      <4>3. \A i \in 1..Len(outbox') : outbox'[i].gen = generation
        BY <4>2 DEF Own
      <4>4. outbox[1].gen = generation
        BY <4>2 DEF Own
      <4>5. writer'[generation] = "send" => hand'[generation].gen = generation
        BY <1>a, <4>1, <4>4 DEF Own, ThreadTypes, QueueTypes, Gen
      <4> QED BY <4>1, <4>3, <4>5 DEF Own, NothingCrossesOver
    <3> QED BY <3>1, <3>2
  <2>3. CASE WriterSends(g)
    <3> DEFINE fr == [ev |-> hand[g], good |-> IsGood(g)]
    <3>1. /\ UNCHANGED <<generation, outbox>>
          /\ hand' = [hand EXCEPT ![g] = Nothing]
          /\ writer[g] = "send" /\ writer'[g] # "send"
          /\ writer' = [writer EXCEPT ![g] = writer'[g]]
          /\ wire' = wire \/ wire' = [wire EXCEPT ![g] = Append(wire[g], fr)]
      BY <1>a, <2>3 DEF WriterSends, ThreadTypes, phone
    <3>2. fr.good => fr.ev.gen = g
      <4>1. noise = g => g = generation
        BY <3>1 DEF OldWriters
      <4> QED BY <3>1, <4>1 DEF IsGood, Own
    <3>3. wire[g] \in Seq(Frames) /\ Len(wire[g]) \in Nat
      BY <1>a DEF QueueTypes
    <3> HIDE DEF fr
    <3>4. NothingCrossesOver'
      <4>1. CASE wire' = wire
        BY <4>1 DEF Own, NothingCrossesOver
      <4>2. CASE wire' = [wire EXCEPT ![g] = Append(wire[g], fr)]
        <5>1. /\ wire'[g] = Append(wire[g], fr)
              /\ \A h \in Gen \ {g} : wire'[h] = wire[h]
          BY <1>a, <4>2 DEF QueueTypes
        <5>2. /\ Len(wire'[g]) = Len(wire[g]) + 1
              /\ \A i \in 1..Len(wire[g]) : wire'[g][i] = wire[g][i]
              /\ wire'[g][Len(wire[g]) + 1] = fr
          BY <3>3, <5>1
        <5> SUFFICES ASSUME NEW h \in Gen, NEW i \in 1..Len(wire'[h]),
                            wire'[h][i].good, wire'[h][i].ev.key \in Keys
                     PROVE  wire'[h][i].ev.gen = h
          BY DEF NothingCrossesOver
        <5>3. CASE h # g
          BY <5>1, <5>3 DEF Own, NothingCrossesOver
        <5>4. CASE h = g /\ i = Len(wire[g]) + 1
          BY <3>2, <5>2, <5>4
        <5>5. CASE h = g /\ i # Len(wire[g]) + 1
          <6>1. i \in 1..Len(wire[g])
            BY <3>3, <5>2, <5>5
          <6> QED BY <5>2, <5>5, <6>1 DEF Own, NothingCrossesOver
        <5> QED BY <5>3, <5>4, <5>5
      <4> QED BY <3>1, <4>1, <4>2
    <3>5. writer'[generation] = "send" => hand'[generation].gen = generation
      BY <1>a, <3>1 DEF Own, ThreadTypes, QueueTypes, Gen
    <3> QED BY <3>1, <3>4, <3>5 DEF Own
  <2> QED BY <1>8, <2>1, <2>2, <2>3 DEF Writer
<1>9. ASSUME NEW g \in Gen, Host(g) PROVE Own'
  <2>1. UNCHANGED <<generation, outbox, hand, writer>>
    BY <1>9 DEF Host, HostReads, HostEnds, phone, threads
  <2>2. CASE HostReads(g)
    <3>1. /\ wire' = [wire EXCEPT ![g] = Tail(wire[g])]
          /\ wire[g] # <<>> /\ wire[g] \in Seq(Frames)
      BY <1>a, <2>2 DEF HostReads, MayRead, QueueTypes
    <3>2. /\ wire'[g] = Tail(wire[g])
          /\ \A h \in Gen \ {g} : wire'[h] = wire[h]
      BY <1>a, <3>1 DEF QueueTypes
    <3>3. /\ Len(wire'[g]) = Len(wire[g]) - 1 /\ Len(wire[g]) \in Nat \ {0}
          /\ \A i \in 1..Len(wire'[g]) : wire'[g][i] = wire[g][i + 1]
      <4> DEFINE w == wire[g]
      <4>1. w \in Seq(Frames) /\ w # <<>> /\ wire'[g] = Tail(w)
        BY <3>1, <3>2
      <4> HIDE DEF w
      <4>2. /\ Len(Tail(w)) = Len(w) - 1 /\ Len(w) \in Nat \ {0}
            /\ \A i \in 1..Len(Tail(w)) : Tail(w)[i] = w[i + 1]
        BY <4>1
      <4>3. /\ Len(wire'[g]) = Len(w) - 1 /\ Len(w) \in Nat \ {0}
            /\ \A i \in 1..Len(wire'[g]) : wire'[g][i] = w[i + 1]
        BY <4>1, <4>2
      <4> QED BY <4>3 DEF w
    <3>4. NothingCrossesOver'
      <4> SUFFICES ASSUME NEW h \in Gen, NEW i \in 1..Len(wire'[h]),
                          wire'[h][i].good, wire'[h][i].ev.key \in Keys
                   PROVE  wire'[h][i].ev.gen = h
        BY DEF NothingCrossesOver
      <4>1. CASE h # g
        BY <3>2, <4>1 DEF Own, NothingCrossesOver
      <4>2. CASE h = g
        <5>1. i + 1 \in 1..Len(wire[g]) /\ wire'[g][i] = wire[g][i + 1]
          BY <3>3, <4>2
        <5> QED BY <4>2, <5>1 DEF Own, NothingCrossesOver
      <4> QED BY <4>1, <4>2
    <3> QED BY <2>1, <3>4 DEF Own
  <2>3. CASE HostEnds(g)
    BY <1>a, <2>1, <2>3 DEF HostEnds, Own, NothingCrossesOver, QueueTypes
  <2> QED BY <1>9, <2>2, <2>3 DEF Host
<1>10. CASE UNCHANGED vars
  BY <1>10 DEF vars, phone, threads, link, Own, NothingCrossesOver
<1> QED
  BY <1>1, <1>2, <1>3, <1>4, <1>5, <1>6, <1>7, <1>8, <1>9, <1>10 DEF Next, Net

\* Older writers are without their state, and events are those of the newest
\* connection, in every behaviour.
IInv == Types /\ InOrder /\ OldWriters /\ Own

LEMMA IInvInit == Init => IInv
BY TypesInit, InputAssumption
   DEF Init, IInv, OldWriters, Own, NothingCrossesOver, Gen, InputAssumption

\* The inductive invariant holds throughout.
THEOREM Invariance == Spec => []IInv
<1>1. IInv /\ [Next]_vars => IInv'
  BY TypesStep, InOrderStep, OldWritersStep, OwnStep DEF IInv
<1> QED BY IInvInit, <1>1, PTL DEF Spec

\* startConnection: what was typed for one connection is never injected by the
\* session of another.
THEOREM InputStaysWithItsSession == Spec => []NothingCrossesOver
<1>1. IInv => NothingCrossesOver
  BY DEF IInv, Own
<1> QED BY Invariance, <1>1, PTL

-----------------------------------------------------------------------------
(* What is on its way from the phone to the laptop's keyboard settles what    *)
(* will be down: the last event about a key, or the key as it is if none is.  *)

NonButtons == Modifiers \cup {"a"}

\* No event of s is about one of the keys K; the i-th is the last that is.
Silent(s, K) == \A i \in 1..Len(s) : s[i].key \notin K
IsLast(s, K, i) ==
  /\ s[i].key \in K
  /\ \A j \in 1..Len(s) : j > i => s[j].key \notin K

\* Once the events of s are injected on keys d, the keys h are down.
KeysSettle(s, d, h) == \A k \in Keys :
  /\ Silent(s, {k}) => (k \in d <=> k \in h)
  /\ \A i \in 1..Len(s) : IsLast(s, {k}, i) => (s[i].pressed <=> k \in h)

\* On Linux programs then see the modifiers m, up to Shift.
MaskSettles(s, d, m) ==
  /\ Silent(s, NonButtons) => d \ {"shift"} = m \ {"shift"}
  /\ \A i \in 1..Len(s) :
       IsLast(s, NonButtons, i) => s[i].mods \ {"shift"} = m \ {"shift"}

\* An event that comes last settles the matter for its own keys only.
LEMMA LastOfAppend ==
  ASSUME NEW s \in Seq(Events), NEW e \in Events, NEW K
  PROVE  /\ Silent(Append(s, e), K) <=> Silent(s, K) /\ e.key \notin K
         /\ \A i \in 1..Len(Append(s, e)) : IsLast(Append(s, e), K, i) =>
              \/ e.key \in K /\ Append(s, e)[i] = e
              \/ /\ e.key \notin K /\ i \in 1..Len(s)
                 /\ Append(s, e)[i] = s[i] /\ IsLast(s, K, i)
<1> DEFINE t == Append(s, e)
           n == Len(s) + 1
<1>1. /\ Len(t) = n /\ Len(s) \in Nat /\ t[n] = e
      /\ \A i \in 1..Len(s) : t[i] = s[i] /\ i \in 1..n
      /\ \A i \in 1..n : i \in 1..Len(s) \/ i = n
      /\ n \in 1..n
  OBVIOUS
<1> HIDE DEF t, n
<1>2. Silent(t, K) <=> Silent(s, K) /\ e.key \notin K
  BY <1>1 DEF Silent
<1>3. ASSUME NEW i \in 1..n, IsLast(t, K, i)
      PROVE  \/ e.key \in K /\ t[i] = e
             \/ e.key \notin K /\ i \in 1..Len(s) /\ t[i] = s[i] /\ IsLast(s, K, i)
  <2>1. CASE i = n
    BY <1>1, <1>3, <2>1 DEF IsLast
  <2>2. CASE i # n
    <3>1. i \in 1..Len(s) /\ t[i] = s[i] /\ i < n
      BY <1>1, <2>2 DEF n
    <3>2. e.key \notin K
      BY <1>1, <1>3, <3>1 DEF IsLast
    <3>3. IsLast(s, K, i)
      BY <1>1, <1>3, <3>1 DEF IsLast
    <3> QED BY <3>1, <3>2, <3>3
  <2> QED BY <2>1, <2>2
<1> QED BY <1>1, <1>2, <1>3 DEF t

\* What the rest of a queue says of K the queue says too, and the first event if
\* the rest says nothing.
LEMMA LastOfTail ==
  ASSUME NEW s \in Seq(Events), s # <<>>, NEW K
  PROVE  /\ 1 \in 1..Len(s)
         /\ Silent(s, K) <=> Silent(Tail(s), K) /\ s[1].key \notin K
         /\ Silent(Tail(s), K) /\ s[1].key \in K => IsLast(s, K, 1)
         /\ \A i \in 1..Len(Tail(s)) :
              /\ i + 1 \in 1..Len(s) /\ Tail(s)[i] = s[i + 1]
              /\ IsLast(Tail(s), K, i) => IsLast(s, K, i + 1)
<1> DEFINE t == Tail(s)
<1>1. /\ Len(t) = Len(s) - 1 /\ Len(s) \in Nat \ {0}
      /\ \A i \in 1..Len(t) : t[i] = s[i + 1]
  BY HeadTailProperties
<1> HIDE DEF t
<1>2. 1 \in 1..Len(s) /\ \A i \in 1..Len(t) : i + 1 \in 1..Len(s)
  BY <1>1
<1>3. ASSUME NEW j \in 1..Len(s), j # 1
      PROVE  j - 1 \in 1..Len(t) /\ s[j] = t[j - 1]
  BY <1>1, <1>3
<1>4. Silent(s, K) <=> Silent(t, K) /\ s[1].key \notin K
  BY <1>1, <1>2, <1>3 DEF Silent
<1>5. Silent(t, K) /\ s[1].key \in K => IsLast(s, K, 1)
  BY <1>2, <1>3 DEF Silent, IsLast
<1>6. ASSUME NEW i \in 1..Len(t), IsLast(t, K, i) PROVE IsLast(s, K, i + 1)
  <2>1. s[i + 1].key \in K
    BY <1>1, <1>6 DEF IsLast
  <2>2. ASSUME NEW j \in 1..Len(s), j > i + 1 PROVE s[j].key \notin K
    <3>1. j - 1 \in 1..Len(t) /\ s[j] = t[j - 1] /\ j - 1 > i
      BY <1>1, <1>3, <2>2
    <3> QED BY <1>6, <3>1 DEF IsLast
  <2> QED BY <2>1, <2>2 DEF IsLast
<1> QED BY <1>1, <1>2, <1>4, <1>5, <1>6 DEF t

\* An event of which the phone shows the outcome keeps what is settled true.
LEMMA AppendSettles ==
  ASSUME NEW s \in Seq(Events), NEW e \in Events, NEW d, NEW h, NEW g
  PROVE  /\ /\ KeysSettle(s, d, h)
            /\ \A k \in Keys \ {e.key} : k \in g <=> k \in h
            /\ e.key \in Keys => (e.pressed <=> e.key \in g)
            => KeysSettle(Append(s, e), d, g)
         /\ /\ MaskSettles(s, d, h)
            /\ IF e.key \in NonButtons THEN e.mods \ {"shift"} = g \ {"shift"} ELSE g = h
            => MaskSettles(Append(s, e), d, g)
<1>1. ASSUME KeysSettle(s, d, h),
             \A k \in Keys \ {e.key} : k \in g <=> k \in h,
             e.key \in Keys => (e.pressed <=> e.key \in g)
      PROVE  KeysSettle(Append(s, e), d, g)
  <2> DEFINE t == Append(s, e)
  <2> SUFFICES ASSUME NEW k \in Keys
               PROVE  /\ Silent(t, {k}) => (k \in d <=> k \in g)
                      /\ \A i \in 1..Len(t) : IsLast(t, {k}, i) => (t[i].pressed <=> k \in g)
    BY DEF KeysSettle
  <2>1. /\ Silent(t, {k}) <=> Silent(s, {k}) /\ e.key # k
        /\ \A i \in 1..Len(t) : IsLast(t, {k}, i) =>
             \/ e.key = k /\ t[i] = e
             \/ e.key # k /\ i \in 1..Len(s) /\ t[i] = s[i] /\ IsLast(s, {k}, i)
    <3> DEFINE K == {k}
    <3>1. /\ Silent(t, K) <=> Silent(s, K) /\ e.key \notin K
          /\ \A i \in 1..Len(t) : IsLast(t, K, i) =>
               \/ e.key \in K /\ t[i] = e
               \/ e.key \notin K /\ i \in 1..Len(s) /\ t[i] = s[i] /\ IsLast(s, K, i)
      <4> HIDE DEF K
      <4> QED BY LastOfAppend
    <3>2. e.key \in K <=> e.key = k
      OBVIOUS
    <3> HIDE DEF t
    <3> QED BY <3>1, <3>2
  <2>2. /\ Silent(s, {k}) => (k \in d <=> k \in h)
        /\ \A i \in 1..Len(s) : IsLast(s, {k}, i) => (s[i].pressed <=> k \in h)
    BY <1>1 DEF KeysSettle
  <2> HIDE DEF t
  <2> QED BY <1>1, <2>1, <2>2
<1>2. ASSUME MaskSettles(s, d, h),
             IF e.key \in NonButtons THEN e.mods \ {"shift"} = g \ {"shift"} ELSE g = h
      PROVE  MaskSettles(Append(s, e), d, g)
  BY <1>2, LastOfAppend DEF MaskSettles
<1> QED BY <1>1, <1>2

\* Injecting the first event keeps what is settled true.
LEMMA InjectSettles ==
  ASSUME NEW s \in Seq(Events), s # <<>>, NEW d, NEW c, NEW h
  PROVE  /\ /\ KeysSettle(s, d, h)
            /\ \A k \in Keys \ {s[1].key} : k \in c <=> k \in d
            /\ s[1].key \in Keys => (s[1].pressed <=> s[1].key \in c)
            => KeysSettle(Tail(s), c, h)
         /\ /\ MaskSettles(s, d, h)
            /\ IF s[1].key \in NonButtons THEN c = s[1].mods ELSE c = d
            => MaskSettles(Tail(s), c, h)
<1>1. ASSUME KeysSettle(s, d, h),
             \A k \in Keys \ {s[1].key} : k \in c <=> k \in d,
             s[1].key \in Keys => (s[1].pressed <=> s[1].key \in c)
      PROVE  KeysSettle(Tail(s), c, h)
  BY <1>1, LastOfTail DEF KeysSettle
<1>2. ASSUME MaskSettles(s, d, h),
             IF s[1].key \in NonButtons THEN c = s[1].mods ELSE c = d
      PROVE  MaskSettles(Tail(s), c, h)
  BY <1>2, LastOfTail DEF MaskSettles
<1> QED BY <1>1, <1>2

\* What is on its way: in frames, in the writer's hand and in the outbox.
Carried(w) == [i \in 1..Len(w) |-> w[i].ev]
InHand == IF writer[1] = "send" THEN <<hand[1]>> ELSE <<>>
Pending == (Carried(wire[1]) \o InHand) \o outbox

\* Frames carry events.
LEMMA CarriedType ==
  ASSUME NEW w \in Seq(Frames)
  PROVE  /\ Carried(w) \in Seq(Events) /\ Len(Carried(w)) = Len(w)
         /\ \A i \in 1..Len(w) : Carried(w)[i] = w[i].ev
<1>1. Len(w) \in Nat /\ \A i \in 1..Len(w) : w[i].ev \in Events
  <2>1. \A i \in 1..Len(w) : w[i] \in Frames
    OBVIOUS
  <2>2. \A f \in Frames : f.ev \in Events
    BY DEF Frames
  <2> QED BY <2>1, <2>2
<1>2. Carried(w) \in [1..Len(w) -> Events]
  BY <1>1 DEF Carried
<1>3. Carried(w) \in Seq(Events)
  BY <1>1, <1>2, SeqDef
<1>4. Len(Carried(w)) = Len(w)
  BY <1>1, <1>2, <1>3
<1> QED BY <1>3, <1>4 DEF Carried

\* A frame sent carries its event last, a frame read carried it first.
LEMMA CarriedMoves ==
  ASSUME NEW w \in Seq(Frames)
  PROVE  /\ \A f \in Frames : Carried(Append(w, f)) = Carried(w) \o <<f.ev>>
         /\ w # <<>> => /\ Carried(w) # <<>> /\ Carried(w)[1] = w[1].ev
                        /\ Carried(Tail(w)) = Tail(Carried(w))
<1>1. ASSUME NEW f \in Frames PROVE Carried(Append(w, f)) = Carried(w) \o <<f.ev>>
  <2> DEFINE t == Append(w, f)
             e == f.ev
             c == Carried(w)
             u == Carried(t)
  <2>1. t \in Seq(Frames) /\ Len(t) = Len(w) + 1 /\ t[Len(w) + 1] = f
        /\ Len(w) \in Nat /\ \A i \in 1..Len(w) : t[i] = w[i]
    OBVIOUS
  <2>2. e \in Events
    BY DEF Frames
  <2>3. /\ c \in Seq(Events) /\ Len(c) = Len(w) /\ \A i \in 1..Len(w) : c[i] = w[i].ev
    BY CarriedType
  <2>4. /\ u \in Seq(Events) /\ Len(u) = Len(w) + 1
        /\ \A i \in 1..Len(w) + 1 : u[i] = t[i].ev
    BY <2>1, CarriedType
  <2>5. \A i \in 1..Len(w) : u[i] = c[i]
    BY <2>1, <2>3, <2>4
  <2>6. u[Len(w) + 1] = e
    BY <2>1, <2>4
  <2> HIDE DEF e, c, u
  <2>7. /\ c \o <<e>> \in Seq(Events) /\ Len(c \o <<e>>) = Len(w) + 1
        /\ \A i \in 1..Len(w) : (c \o <<e>>)[i] = c[i]
        /\ (c \o <<e>>)[Len(w) + 1] = e
    BY <2>1, <2>2, <2>3
  <2>8. u = c \o <<e>>
    BY <2>1, <2>4, <2>5, <2>6, <2>7, SeqEqual
  <2> QED BY <2>8 DEF e, c, u
<1>2. ASSUME w # <<>>
      PROVE  /\ Carried(w) # <<>> /\ Carried(w)[1] = w[1].ev
             /\ Carried(Tail(w)) = Tail(Carried(w))
  <2> DEFINE t == Tail(w)
             c == Carried(w)
             u == Carried(t)
  <2>1. t \in Seq(Frames) /\ Len(t) = Len(w) - 1 /\ Len(w) \in Nat \ {0}
        /\ \A i \in 1..Len(t) : t[i] = w[i + 1]
    BY <1>2, HeadTailProperties
  <2>2. /\ c \in Seq(Events) /\ Len(c) = Len(w) /\ \A i \in 1..Len(w) : c[i] = w[i].ev
    BY CarriedType
  <2>3. /\ u \in Seq(Events) /\ Len(u) = Len(t) /\ \A i \in 1..Len(t) : u[i] = t[i].ev
    BY <2>1, CarriedType
  <2>4. c # <<>> /\ c[1] = w[1].ev
    BY <2>1, <2>2
  <2>5. \A i \in 1..Len(t) : u[i] = c[i + 1]
    BY <2>1, <2>2, <2>3
  <2> HIDE DEF c, u, t
  <2>6. /\ Tail(c) \in Seq(Events) /\ Len(Tail(c)) = Len(t)
        /\ \A i \in 1..Len(t) : Tail(c)[i] = c[i + 1]
    BY <2>1, <2>2, <2>4, HeadTailProperties
  <2>7. u = Tail(c)
    BY <2>1, <2>3, <2>5, <2>6, SeqEqual
  <2> QED BY <2>4, <2>7 DEF c, u, t
<1> QED BY <1>1, <1>2

\* An event goes from hand to hand without overtaking another.
LEMMA PendingMoves ==
  ASSUME NEW w \in Seq(Events), NEW o \in Seq(Events)
  PROVE  /\ o # <<>> => (w \o <<>>) \o o = (w \o <<Head(o)>>) \o Tail(o)
         /\ \A e \in Events : (w \o <<e>>) \o o = ((w \o <<e>>) \o <<>>) \o o
<1>1. ASSUME o # <<>> PROVE (w \o <<>>) \o o = (w \o <<Head(o)>>) \o Tail(o)
  <2> DEFINE e == Head(o)
             t == Tail(o)
  <2>1. /\ e \in Events /\ t \in Seq(Events) /\ e = o[1]
        /\ Len(t) = Len(o) - 1 /\ Len(o) \in Nat \ {0}
        /\ \A i \in 1..Len(t) : t[i] = o[i + 1]
    BY <1>1, HeadTailProperties
  <2> HIDE DEF e, t
  <2>2. <<e>> \in Seq(Events) /\ Len(<<e>>) = 1 /\ <<e>>[1] = e
    BY <2>1
  <2>3. /\ <<e>> \o t \in Seq(Events) /\ Len(<<e>> \o t) = Len(o)
        /\ \A i \in 1..Len(o) : (<<e>> \o t)[i] = IF i <= 1 THEN e ELSE t[i - 1]
    BY <2>1, <2>2, ConcatProperties
  <2>4. \A i \in 1..Len(o) : (<<e>> \o t)[i] = o[i]
    BY <2>1, <2>3
  <2>5. <<e>> \o t = o
    BY <2>3, <2>4, SeqEqual
  <2>6. (w \o <<e>>) \o t = w \o (<<e>> \o t)
    BY <2>1, <2>2, ConcatAssociative
  <2> QED BY <2>5, <2>6, ConcatEmptySeq DEF e, t
<1>2. ASSUME NEW e \in Events PROVE (w \o <<e>>) \o o = ((w \o <<e>>) \o <<>>) \o o
  <2>1. w \o <<e>> \in Seq(Events)
    OBVIOUS
  <2> QED BY <2>1, ConcatEmptySeq
<1> QED BY <1>1, <1>2

\* What is enqueued comes last; what is read came first.
LEMMA PendingEnds ==
  ASSUME NEW w \in Seq(Events), NEW t \in Seq(Events), NEW o \in Seq(Events)
  PROVE  /\ \A e \in Events : (w \o t) \o Append(o, e) = Append((w \o t) \o o, e)
         /\ w # <<>> => /\ (w \o t) \o o # <<>> /\ ((w \o t) \o o)[1] = w[1]
                        /\ (Tail(w) \o t) \o o = Tail((w \o t) \o o)
<1>0. w \o t \in Seq(Events)
  OBVIOUS
<1>1. ASSUME NEW e \in Events
      PROVE  (w \o t) \o Append(o, e) = Append((w \o t) \o o, e)
  <2> DEFINE x == w \o t
  <2>1. x \in Seq(Events)
    BY <1>0
  <2> HIDE DEF x
  <2>2. /\ Append(o, e) = o \o <<e>> /\ <<e>> \in Seq(Events)
        /\ x \o o \in Seq(Events)
    BY <2>1, AppendIsConcat
  <2>3. Append(x \o o, e) = (x \o o) \o <<e>>
    BY <2>2, AppendIsConcat
  <2>4. (x \o o) \o <<e>> = x \o (o \o <<e>>)
    BY <2>1, <2>2, ConcatAssociative
  <2> QED BY <2>2, <2>3, <2>4 DEF x
<1>2. ASSUME w # <<>>
      PROVE  /\ (w \o t) \o o # <<>> /\ ((w \o t) \o o)[1] = w[1]
             /\ (Tail(w) \o t) \o o = Tail((w \o t) \o o)
  <2> DEFINE x == t \o o
             v == Tail(w)
             y == w \o x
  <2>1. x \in Seq(Events) /\ v \in Seq(Events)
    BY <1>2
  <2>2. (w \o t) \o o = y /\ (v \o t) \o o = v \o x
    <3> HIDE DEF v
    <3>1. (w \o t) \o o = w \o (t \o o)
      BY ConcatAssociative
    <3>2. (v \o t) \o o = v \o (t \o o)
      BY <2>1, ConcatAssociative
    <3> QED BY <3>1, <3>2
  <2> HIDE DEF x
  <2>3. /\ y \in Seq(Events) /\ Len(y) = Len(w) + Len(x)
        /\ \A i \in 1..Len(w) + Len(x) : y[i] = IF i <= Len(w) THEN w[i] ELSE x[i - Len(w)]
        /\ Len(w) \in Nat \ {0} /\ Len(x) \in Nat
    BY <1>2, <2>1, ConcatProperties
  <2>4. /\ Len(v) = Len(w) - 1 /\ \A i \in 1..Len(v) : v[i] = w[i + 1]
    BY <1>2, HeadTailProperties
  <2>5. y # <<>> /\ y[1] = w[1]
    BY <2>3
  <2> HIDE DEF v
  <2>6. /\ v \o x \in Seq(Events) /\ Len(v \o x) = Len(v) + Len(x)
        /\ \A i \in 1..Len(v) + Len(x) :
             (v \o x)[i] = IF i <= Len(v) THEN v[i] ELSE x[i - Len(v)]
    BY <2>1, ConcatProperties
  <2> HIDE DEF y
  <2>7. /\ Tail(y) \in Seq(Events) /\ Len(Tail(y)) = Len(y) - 1
        /\ \A i \in 1..Len(Tail(y)) : Tail(y)[i] = y[i + 1]
    BY <2>3, <2>5, HeadTailProperties
  <2>8. ASSUME NEW i \in 1..Len(v) + Len(x) PROVE (v \o x)[i] = y[i + 1]
    <3>1. CASE i <= Len(v)
      <4>1. i \in 1..Len(v) /\ i + 1 \in 1..Len(w) + Len(x) /\ i + 1 <= Len(w)
        BY <2>3, <2>4, <3>1
      <4> QED BY <2>3, <2>4, <2>6, <3>1, <4>1
    <3>2. CASE ~(i <= Len(v))
      <4>1. /\ i + 1 \in 1..Len(w) + Len(x) /\ ~(i + 1 <= Len(w))
            /\ (i + 1) - Len(w) = i - Len(v)
        BY <2>3, <2>4, <3>2
      <4> QED BY <2>3, <2>6, <3>2, <4>1
    <3> QED BY <3>1, <3>2
  <2>9. v \o x = Tail(y)
    <3>1. Len(Tail(y)) = Len(v) + Len(x)
      BY <2>3, <2>4, <2>7
    <3>2. \A i \in 1..Len(v) + Len(x) : Tail(y)[i] = (v \o x)[i]
      BY <2>7, <2>8, <3>1
    <3> QED BY <2>6, <2>7, <3>1, <3>2, SeqEqual
  <2> QED BY <2>2, <2>5, <2>9 DEF v
<1> QED BY <1>1, <1>2

-----------------------------------------------------------------------------
(* The first session.                                                         *)

\* The connection is the first, it has not been lost, and the user stays.
First == generation = 1 /\ ui = "idle" /\ sock[1] # "closed" /\ host[1] # "ended"

\* Nobody else has used its Noise state, so no event is lost.
Fresh ==
  /\ spoiled = {}
  /\ host[1] = "up" => noise = 1 /\ sock[1] = "open"
  /\ net[1] = "open" \/ writer[1] # "off" => host[1] = "up"
  /\ net[1] # "ended"
  /\ \A i \in 1..Len(wire[1]) : wire[1][i].good

Settled ==
  /\ KeysSettle(Pending, down, held)
  /\ platform = "linux" => MaskSettles(Pending, depressed, Mask)

\* Windows takes the modifiers from the keys.
WindowsMask == platform = "windows" => depressed = down \cap Modifiers

\* What is on its way are events.
LEMMA PendingType ==
  ASSUME QueueTypes, 1 \in Gen
  PROVE  /\ Carried(wire[1]) \in Seq(Events) /\ InHand \in Seq(Events)
         /\ Carried(wire[1]) \o InHand \in Seq(Events) /\ Pending \in Seq(Events)
<1>1. wire[1] \in Seq(Frames) /\ hand[1] \in Events /\ outbox \in Seq(Events)
  BY DEF QueueTypes
<1>2. Carried(wire[1]) \in Seq(Events)
  BY <1>1, CarriedType
<1>3. InHand \in Seq(Events)
  BY <1>1 DEF InHand
<1>4. Carried(wire[1]) \o InHand \in Seq(Events)
  BY <1>2, <1>3
<1> QED BY <1>1, <1>2, <1>3, <1>4 DEF Pending

\* While the first connection is up, it came from being so, and no other acts.
LEMMA FirstBefore ==
  ASSUME Types, InOrder, [Next]_vars, First'
  PROVE  /\ First /\ ~TornDown /\ ~Teardown
         /\ \A g \in Gen :
              Net(g) \/ Writer(g) \/ Host(g) \/ NetworkFails(g) => g = 1
<1>a. ScreenTypes /\ ThreadTypes /\ generation \in Nat \ {0} /\ 1 \in Gen
  BY InputAssumption DEF Types, ScreenTypes, Gen, InputAssumption
<1>1. ~TornDown /\ ~Teardown
  BY <1>a DEF TornDown, Teardown, First
<1>2. generation = 1 /\ ui = "idle"
  <2>1. ASSUME NEW g \in Gen, Net(g) \/ Writer(g) \/ Host(g) \/ NetworkFails(g)
        PROVE  UNCHANGED <<generation, ui>>
    BY <2>1 DEF Net, NetConnects, NetShakes, NetSaysHello, NetReadsConfig, NetOpens,
                NetEnds, Throws, Goes, Writer, WriterChecks, WriterPolls, WriterSends,
                Host, HostReads, HostEnds,
                NetworkFails, phone
  <2>2. ASSUME NEW k \in Modifiers \cup Buttons, Toggle(k)
        PROVE  UNCHANGED <<generation, ui>>
    BY <2>2 DEF Toggle
  <2>3. ASSUME NEW mods \in {{}, {"shift"}}, Tap(mods)
        PROVE  UNCHANGED <<generation, ui>>
    BY <2>3 DEF Tap
  <2>4. CASE UNCHANGED vars
    BY <2>4 DEF vars, phone, First
  <2> QED BY <1>1, <2>1, <2>2, <2>3, <2>4 DEF Next, First
<1>3. ASSUME NEW g \in Gen, Net(g) \/ Writer(g) \/ Host(g) \/ NetworkFails(g)
      PROVE  g = 1
  <2>1. net[g] # "off"
    BY <1>a, <1>3 DEF Net, NetConnects, NetShakes, NetSaysHello, NetReadsConfig, NetOpens,
                NetEnds, Throws, Goes, Writer, WriterChecks, WriterPolls, WriterSends,
                Host, HostReads, HostEnds,
                MayRead, NetworkFails, InOrder, ThreadTypes
  <2> QED BY <1>2, <2>1 DEF InOrder, Gen
<1>4. sock[1] # "closed" /\ host[1] # "ended"
  <2>1. ASSUME NEW g \in Gen, Net(g)
        PROVE  /\ sock[1] = "closed" => sock'[1] = "closed"
               /\ host[1] = "ended" => host'[1] = "ended"
    <3>1. g = 1
      BY <1>3, <2>1
    <3>2. CASE NetConnects(g) \/ NetShakes(g) \/ NetReadsConfig(g)
      BY <1>a, <3>1, <3>2 DEF NetConnects, NetShakes, NetReadsConfig, Goes, InOrder,
                              ThreadTypes, link, laptop
    <3>3. CASE NetSaysHello(g)
      BY <1>a, <3>1, <3>3 DEF NetSaysHello, InOrder
    <3>4. CASE NetOpens(g)
      BY <3>4 DEF NetOpens, link, laptop
    <3>5. CASE NetEnds(g)
      BY <1>a, <3>1, <3>5 DEF NetEnds, ThreadTypes, laptop
    <3> QED BY <2>1, <3>2, <3>3, <3>4, <3>5 DEF Net
  <2>2. ASSUME NEW g \in Gen, Writer(g) \/ Host(g) \/ NetworkFails(g)
        PROVE  /\ sock[1] = "closed" => sock'[1] = "closed"
               /\ host[1] = "ended" => host'[1] = "ended"
    BY <1>a, <2>2 DEF Writer, WriterChecks, WriterPolls, WriterSends, Host, HostReads,
                HostEnds, MayRead, NetworkFails, ThreadTypes, link, laptop
  <2>3. ASSUME \/ \E k \in Modifiers \cup Buttons : Toggle(k)
               \/ \E mods \in {{}, {"shift"}} : Tap(mods)
               \/ UNCHANGED vars
        PROVE  UNCHANGED <<sock, host>>
    BY <2>3 DEF Toggle, Tap, vars, link, laptop
  <2> QED BY <1>1, <2>1, <2>2, <2>3 DEF Next, First
<1> QED BY <1>1, <1>2, <1>3, <1>4 DEF First

\* Every step of the injector keeps the modifiers on Windows.
LEMMA WindowsMaskStep == WindowsMask /\ [Next]_vars => WindowsMask'
<1> SUFFICES ASSUME WindowsMask, [Next]_vars PROVE WindowsMask'
  OBVIOUS
<1>1. ASSUME NEW g \in Gen, HostReads(g) PROVE WindowsMask'
  <2>1. platform' = platform
    BY <1>1 DEF HostReads
  <2>2. ASSUME NEW e, InjectLinux(e) \/ InjectWindows(e) PROVE WindowsMask'
    BY <2>1, <2>2 DEF InjectLinux, InjectWindows, WindowsMask
  <2>3. ASSUME UNCHANGED <<down, depressed>> PROVE WindowsMask'
    BY <2>1, <2>3 DEF WindowsMask
  <2> QED BY <1>1, <2>2, <2>3 DEF HostReads
<1>2. ASSUME ~(\E g \in Gen : HostReads(g))
      PROVE  UNCHANGED <<platform, down, depressed>>
  BY <1>2 DEF Next, Toggle, Tap, Teardown, TornDown, Net, NetConnects, NetShakes,
              NetSaysHello, NetReadsConfig, NetOpens, NetEnds, Writer, WriterChecks,
              WriterPolls, WriterSends, Host, HostEnds, NetworkFails, vars, laptop
<1> QED BY <1>1, <1>2 DEF WindowsMask

\* Every step of the first connection keeps what is settled.
LEMMA FirstStep ==
  ASSUME Types, InOrder, [Next]_vars, First', First => Fresh /\ Settled
  PROVE  Fresh' /\ Settled'
<1>a. /\ ScreenTypes /\ ThreadTypes /\ QueueTypes /\ 1 \in Gen
      /\ Keys = Modifiers \cup Buttons \cup {"a"}
      /\ {"a", "mode"} \cap (Modifiers \cup Buttons) = {}
      /\ Modifiers \cap Buttons = {} /\ "mode" # "a"
  BY InputAssumption DEF Types, ScreenTypes, Gen, Keys, InputAssumption
<1>b. /\ First /\ ~TornDown /\ ~Teardown
      /\ \A g \in Gen : Net(g) \/ Writer(g) \/ Host(g) \/ NetworkFails(g) => g = 1
  BY FirstBefore
<1>c. Fresh /\ Settled /\ generation = 1
  BY <1>b DEF First
<1>d. /\ Carried(wire[1]) \in Seq(Events) /\ InHand \in Seq(Events)
      /\ Pending \in Seq(Events)
      /\ outbox \in Seq(Events) /\ wire[1] \in Seq(Frames)
  BY <1>a, PendingType DEF QueueTypes
<1>e. outbox \in Seq(Events)
  BY <1>d
\* Nothing moves, or from hand to hand.
<1>1. ASSUME Pending' = Pending, UNCHANGED <<down, held, depressed, platform>>
      PROVE  Settled'
  BY <1>c, <1>1 DEF Settled, Mask
\* Something is enqueued.
<1>2. ASSUME NEW e, UNCHANGED <<wire, writer, hand>>, e \in Events,
             outbox' = Append(outbox, e)
      PROVE  Pending' = Append(Pending, e)
  <2>1. InHand' = InHand /\ Carried(wire[1])' = Carried(wire[1])
    BY <1>2 DEF InHand
  <2> DEFINE w == Carried(wire[1])
             t == InHand
  <2>2. w \in Seq(Events) /\ t \in Seq(Events)
    BY <1>d
  <2>3. Pending' = (w \o t) \o Append(outbox, e) /\ Pending = (w \o t) \o outbox
    BY <1>2, <2>1 DEF Pending
  <2> HIDE DEF w, t
  <2>4. (w \o t) \o Append(outbox, e) = Append((w \o t) \o outbox, e)
    BY <1>2, <1>e, <2>2, PendingEnds
  <2> QED BY <2>3, <2>4
<1>3. ASSUME NEW k \in Modifiers \cup Buttons, Toggle(k) PROVE Fresh' /\ Settled'
  <2> DEFINE e == Event(k, k \in held', held' \cap Modifiers)
  <2>1. /\ outbox' = Append(outbox, e) /\ held' \in {held \ {k}, held \cup {k}}
        /\ UNCHANGED <<wire, writer, hand, down, depressed, platform>>
        /\ UNCHANGED <<spoiled, host, noise, sock, net>>
    BY <1>3 DEF Toggle, threads, link, laptop
  <2>2. e.key = k /\ e.pressed = (k \in held') /\ e.mods = Mask'
    BY DEF Event, Mask
  <2>3. e \in Events
    <3>1. (k \in held') \in BOOLEAN
      OBVIOUS
    <3>2. held' \cap Modifiers \in SUBSET (Modifiers \cup {"shift"})
      OBVIOUS
    <3> QED BY <1>a, <3>1, <3>2, EventType
  <2> HIDE DEF e
  <2>4. Pending' = Append(Pending, e)
    BY <1>2, <2>1, <2>3
  <2>5. KeysSettle(Pending', down, held')
    BY <1>c, <1>d, <2>1, <2>2, <2>3, <2>4, AppendSettles DEF Settled
  <2>6. e.key \notin NonButtons => Mask' = Mask
    BY <1>a, <2>1, <2>2 DEF NonButtons, Mask
  <2>7. platform = "linux" => MaskSettles(Pending', depressed, Mask')
    BY <1>c, <1>d, <2>2, <2>3, <2>4, <2>6, AppendSettles DEF Settled
  <2>8. Settled'
    BY <2>1, <2>5, <2>7 DEF Settled
  <2> QED BY <1>c, <2>1, <2>8 DEF Fresh
<1>4. ASSUME NEW mods \in {{}, {"shift"}}, Tap(mods) PROVE Fresh' /\ Settled'
  <2> DEFINE e1 == Event("a", TRUE, Mask \cup mods)
             e2 == Event("a", FALSE, Mask \cup mods)
             o == Append(outbox, e1)
             q == Append(Pending, e1)
  <2>1. /\ outbox' = outbox \o <<e1, e2>>
        /\ UNCHANGED <<wire, writer, hand, down, held, depressed, platform>>
        /\ UNCHANGED <<spoiled, host, noise, sock, net>>
    BY <1>4 DEF Tap, threads, link, laptop
  <2>2. /\ e1.key = "a" /\ e1.pressed = TRUE /\ e1.mods = Mask \cup mods
        /\ e2.key = "a" /\ e2.pressed = FALSE /\ e2.mods = Mask \cup mods
        /\ e1.mods \ {"shift"} = Mask \ {"shift"} /\ e2.mods \ {"shift"} = Mask \ {"shift"}
    BY DEF Event
  <2>3. e1 \in Events /\ e2 \in Events
    BY <1>a, EventType DEF Mask
  <2> HIDE DEF e1, e2
  <2>4. outbox' = Append(o, e2) /\ o \in Seq(Events) /\ q \in Seq(Events)
    <3>1. outbox \o <<e1, e2>> = Append(Append(outbox, e1), e2)
      <4>1. <<e1, e2>> = Append(<<e1>>, e2)
        OBVIOUS
      <4> QED BY <1>d, <2>3
    <3> QED BY <1>d, <2>1, <2>3, <3>1
  <2>5. Pending' = Append(q, e2)
    <3>1. InHand' = InHand /\ Carried(wire[1])' = Carried(wire[1])
      BY <2>1 DEF InHand
    <3> DEFINE w == Carried(wire[1])
               t == InHand
    <3>2. w \in Seq(Events) /\ t \in Seq(Events)
      BY <1>d
    <3>3. Pending' = (w \o t) \o Append(o, e2) /\ Pending = (w \o t) \o outbox
      BY <2>4, <3>1 DEF Pending
    <3> HIDE DEF w, t
    <3>4. (w \o t) \o o = Append((w \o t) \o outbox, e1)
      BY <1>e, <2>3, <3>2, PendingEnds
    <3>5. (w \o t) \o Append(o, e2) = Append((w \o t) \o o, e2)
      <4> HIDE DEF o
      <4> QED BY <2>3, <2>4, <3>2, PendingEnds
    <3> QED BY <3>3, <3>4, <3>5
  <2>6. KeysSettle(q, down, held \cup {"a"})
    BY <1>c, <1>d, <2>2, <2>3, AppendSettles DEF Settled
  <2>7. "a" \notin held
    BY <1>a DEF ScreenTypes
  <2>8. platform = "linux" => MaskSettles(q, depressed, Mask)
    BY <1>c, <1>d, <2>2, <2>3, AppendSettles DEF Settled, NonButtons
  <2> HIDE DEF q
  <2>9. KeysSettle(Pending', down, held)
    BY <2>2, <2>3, <2>4, <2>5, <2>6, <2>7, AppendSettles
  <2>10. platform = "linux" => MaskSettles(Pending', depressed, Mask)
    BY <2>2, <2>3, <2>4, <2>5, <2>8, AppendSettles DEF NonButtons
  <2>11. Settled'
    BY <2>1, <2>9, <2>10 DEF Settled, Mask
  <2> QED BY <1>c, <2>1, <2>11 DEF Fresh
<1>5. CASE Net(1)
  <2>1. CASE NetConnects(1) \/ NetShakes(1)
    <3>1. /\ UNCHANGED <<wire, writer, hand, outbox, down, held, depressed, platform>>
          /\ UNCHANGED <<spoiled, host>>
          /\ net[1] \in {"start", "shake"} /\ net'[1] \in {"shake", "hello"}
      BY <1>a, <2>1 DEF NetConnects, NetShakes, Goes, ThreadTypes, link, laptop
    <3>2. host[1] = "none"
      BY <1>a, <3>1 DEF InOrder, ThreadTypes
    <3>3. Pending' = Pending
      BY <3>1 DEF Pending, InHand
    <3> QED BY <1>1, <1>c, <3>1, <3>2, <3>3 DEF Fresh
  <2>2. CASE NetSaysHello(1)
    <3>1. /\ UNCHANGED <<writer, hand, outbox, down, held, depressed, platform>>
          /\ UNCHANGED <<noise, sock>> /\ net[1] = "hello"
          /\ spoiled' = Spoiled(1)
      BY <2>2 DEF NetSaysHello, phone
    <3>2. spoiled' = {}
      BY <1>a, <1>c, <3>1 DEF Spoiled, ScreenTypes, Fresh
    <3>3. host[1] = "none" /\ wire[1] = <<>> /\ writer[1] = "off"
      BY <1>a, <3>1 DEF InOrder, ThreadTypes
    <3>4. /\ wire'[1] = <<>> /\ net'[1] \notin {"open", "ended"}
          /\ host'[1] = "up" => noise = 1 /\ sock[1] = "open"
      BY <1>a, <2>2, <3>3 DEF NetSaysHello, IsGood, ThreadTypes
    <3>5. Pending' = Pending
      BY <3>1, <3>3, <3>4 DEF Pending, InHand
    <3>6. Fresh'
      BY <3>1, <3>2, <3>3, <3>4 DEF Fresh
    <3> QED BY <1>1, <3>1, <3>5, <3>6
  <2>3. CASE NetOpens(1)
    <3>1. /\ UNCHANGED <<wire, hand, down, held, depressed, platform>>
          /\ UNCHANGED <<spoiled, host, noise, sock>>
          /\ net[1] = "open" /\ net'[1] = "streaming" /\ writer'[1] = "poll"
          /\ host[1] = "up"
      BY <1>a, <1>c, <2>3 DEF NetOpens, Goes, Fresh, ThreadTypes, link, laptop
    <3>2. writer[1] = "off"
      BY <1>a, <3>1 DEF InOrder, ThreadTypes
    <3>3. Fresh'
      BY <1>c, <3>1 DEF Fresh
    <3>4. CASE outbox' = outbox
      <4>1. Pending' = Pending
        BY <3>1, <3>2, <3>4 DEF Pending, InHand
      <4> QED BY <1>1, <3>1, <3>3, <4>1
    <3>5. CASE outbox' = Append(outbox, SetMode)
      <4>1. SetMode \in Events /\ SetMode.key = "mode"
        <5>1. Event("mode", FALSE, {}) \in Events
          BY <1>a, EventType
        <5> QED BY <5>1 DEF SetMode, Event, Events
      <4> HIDE DEF SetMode
      <4> DEFINE w == Carried(wire[1])
                 t == InHand
      <4>2. Pending' = (w \o t) \o Append(outbox, SetMode) /\ Pending = (w \o t) \o outbox
        BY <3>1, <3>2, <3>5 DEF Pending, InHand
      <4>3. w \in Seq(Events) /\ t \in Seq(Events)
        BY <1>d
      <4> HIDE DEF w, t
      <4>4. Pending' = Append(Pending, SetMode)
        BY <1>e, <4>1, <4>2, <4>3, PendingEnds
      <4>5. SetMode.key \notin Keys /\ SetMode.key \notin NonButtons
        BY <1>a, <4>1 DEF NonButtons
      <4>6. KeysSettle(Pending', down, held)
        BY <1>c, <1>d, <4>1, <4>4, <4>5, AppendSettles DEF Settled
      <4>7. platform = "linux" => MaskSettles(Pending', depressed, Mask)
        BY <1>c, <1>d, <4>1, <4>4, <4>5, AppendSettles DEF Settled
      <4>8. Settled'
        BY <3>1, <4>6, <4>7 DEF Settled, Mask
      <4> QED BY <3>3, <4>8
    <3> QED BY <2>3, <3>4, <3>5 DEF NetOpens
  <2>4. CASE NetEnds(1)
    BY <1>a, <2>4 DEF NetEnds, First, ThreadTypes
  <2>5. CASE NetReadsConfig(1)
    <3>1. /\ UNCHANGED <<wire, writer, hand, outbox, down, held, depressed, platform>>
          /\ UNCHANGED <<spoiled, host, noise, sock>>
          /\ host[1] = "up" /\ net'[1] = "open"
      BY <1>a, <2>5 DEF NetReadsConfig, Goes, ThreadTypes, phone, link, laptop
    <3>2. Pending' = Pending
      BY <3>1 DEF Pending, InHand
    <3> QED BY <1>1, <1>c, <3>1, <3>2 DEF Fresh
  <2> QED BY <1>5, <2>1, <2>2, <2>3, <2>4, <2>5 DEF Net
<1>6. CASE Writer(1)
  <2>0. /\ UNCHANGED <<down, held, depressed, platform, host, noise, sock, net>>
        /\ writer[1] # "off" /\ host[1] = "up" /\ noise = 1 /\ sock[1] = "open"
        /\ net[1] # "ended"
    BY <1>6, <1>c DEF Writer, WriterChecks, WriterPolls, WriterSends, Fresh, phone,
                      link, laptop
  <2>1. ~WriterChecks(1)
    BY <1>c DEF WriterChecks
  <2>2. CASE WriterPolls(1)
    <3>1. /\ writer[1] = "poll" /\ writer'[1] = "send" /\ outbox # <<>>
          /\ hand'[1] = Head(outbox) /\ outbox' = Tail(outbox)
          /\ UNCHANGED <<wire, spoiled>>
      BY <1>a, <2>0, <2>2 DEF WriterPolls, ThreadTypes, QueueTypes, link
    <3> DEFINE w == Carried(wire[1])
    <3>2. w \in Seq(Events)
      BY <1>d
    <3>3. /\ Pending = (w \o <<>>) \o outbox
          /\ Pending' = (w \o <<Head(outbox)>>) \o Tail(outbox)
      BY <3>1 DEF Pending, InHand
    <3> HIDE DEF w
    <3>4. Pending' = Pending
      BY <1>e, <3>1, <3>2, <3>3, PendingMoves
    <3>5. Fresh'
      BY <1>c, <2>0, <3>1 DEF Fresh
    <3> QED BY <1>1, <2>0, <3>4, <3>5
  <2>3. CASE WriterSends(1)
    <3> DEFINE fr == [ev |-> hand[1], good |-> IsGood(1)]
    <3>1. IsGood(1) /\ Spoiled(1) = {}
      BY <1>c, <2>0 DEF IsGood, Spoiled, Fresh
    <3>2. /\ writer[1] = "send" /\ writer'[1] = "poll" /\ spoiled' = {}
          /\ outbox' = outbox
          /\ wire'[1] = Append(wire[1], fr)
      BY <1>a, <2>0, <2>3, <3>1 DEF WriterSends, ThreadTypes, QueueTypes, phone
    <3>3. fr \in Frames /\ fr.good /\ fr.ev = hand[1] /\ hand[1] \in Events
      BY <1>a, <3>1 DEF QueueTypes, Frames
    <3> HIDE DEF fr
    <3>4. Carried(wire'[1]) = Carried(wire[1]) \o <<hand[1]>>
      BY <1>d, <3>2, <3>3, CarriedMoves
    <3> DEFINE w == Carried(wire[1])
               e == hand[1]
    <3>5. w \in Seq(Events) /\ e \in Events
      BY <1>d, <3>3
    <3>6. Pending = (w \o <<e>>) \o outbox /\ Pending' = ((w \o <<e>>) \o <<>>) \o outbox
      BY <3>2, <3>4 DEF Pending, InHand
    <3> HIDE DEF w, e
    <3>7. Pending' = Pending
      BY <1>e, <3>5, <3>6, PendingMoves
    <3>8. \A i \in 1..Len(wire'[1]) : wire'[1][i].good
      <4>1. /\ Len(wire'[1]) = Len(wire[1]) + 1 /\ Len(wire[1]) \in Nat
            /\ \A i \in 1..Len(wire[1]) : wire'[1][i] = wire[1][i]
            /\ wire'[1][Len(wire[1]) + 1] = fr
        BY <1>d, <3>2, <3>3, AppendProperties
      <4> SUFFICES ASSUME NEW i \in 1..Len(wire'[1]) PROVE wire'[1][i].good
        OBVIOUS
      <4>2. i \in 1..Len(wire[1]) \/ i = Len(wire[1]) + 1
        BY <4>1
      <4> QED BY <1>c, <3>3, <4>1, <4>2 DEF Fresh
    <3>9. Fresh'
      BY <2>0, <3>2, <3>8 DEF Fresh
    <3> QED BY <1>1, <2>0, <3>7, <3>9
  <2> QED BY <1>6, <2>1, <2>2, <2>3 DEF Writer
<1>7. CASE Host(1)
  <2>0. UNCHANGED <<held, outbox, writer, hand, net, noise, sock, spoiled, platform>>
    BY <1>7 DEF Host, HostReads, HostEnds, phone, threads
  <2>1. ~HostEnds(1)
    BY <1>b DEF HostEnds, First
  <2>2. HostReads(1)
    BY <1>7, <2>1 DEF Host
  <2>3. wire[1] # <<>> /\ wire'[1] = Tail(wire[1]) /\ host[1] = "up"
        /\ Head(wire[1]) = wire[1][1]
    BY <1>a, <2>2 DEF HostReads, MayRead, QueueTypes
  <2>4. /\ Len(Tail(wire[1])) = Len(wire[1]) - 1 /\ Len(wire[1]) \in Nat \ {0}
        /\ \A i \in 1..Len(Tail(wire[1])) : Tail(wire[1])[i] = wire[1][i + 1]
    <3> DEFINE v == wire[1]
    <3>1. v \in Seq(Frames) /\ v # <<>>
      BY <1>d, <2>3
    <3> HIDE DEF v
    <3>2. /\ Len(Tail(v)) = Len(v) - 1 /\ Len(v) \in Nat \ {0}
          /\ \A i \in 1..Len(Tail(v)) : Tail(v)[i] = v[i + 1]
      BY <3>1, HeadTailProperties
    <3> QED BY <3>2 DEF v
  <2>5. wire[1][1].good /\ \A i \in 1..Len(wire'[1]) : wire'[1][i].good
    <3>1. 1 \in 1..Len(wire[1])
      BY <2>4
    <3>2. \A i \in 1..Len(Tail(wire[1])) : i + 1 \in 1..Len(wire[1])
      BY <2>4
    <3> QED BY <1>c, <2>3, <2>4, <3>1, <3>2 DEF Fresh
  <2> DEFINE e == wire[1][1].ev
  <2>6. /\ host' = host
        /\ IF e.key \in Keys THEN InjectLinux(e) \/ InjectWindows(e)
                             ELSE UNCHANGED <<down, depressed>>
    BY <2>2, <2>3, <2>5 DEF HostReads
  <2>7. Fresh'
    BY <1>c, <2>0, <2>5, <2>6 DEF Fresh
  <2>8. Pending # <<>> /\ Pending[1] = e /\ Pending' = Tail(Pending)
    <3>1. /\ Carried(wire[1]) # <<>> /\ Carried(wire[1])[1] = e
          /\ Carried(Tail(wire[1])) = Tail(Carried(wire[1]))
      <4> DEFINE v == wire[1]
      <4>1. v \in Seq(Frames) /\ v # <<>>
        BY <1>d, <2>3
      <4> HIDE DEF v
      <4>2. /\ Carried(v) # <<>> /\ Carried(v)[1] = v[1].ev
            /\ Carried(Tail(v)) = Tail(Carried(v))
        BY <4>1, CarriedMoves
      <4> QED BY <4>2 DEF v
    <3> DEFINE w == Carried(wire[1])
               t == InHand
    <3>2. w \in Seq(Events) /\ t \in Seq(Events) /\ w # <<>> /\ w[1] = e
      BY <1>d, <3>1
    <3>3. Pending = (w \o t) \o outbox /\ Pending' = (Tail(w) \o t) \o outbox
      BY <2>0, <2>3, <3>1 DEF Pending, InHand
    <3> HIDE DEF w, t, e
    <3>4. /\ (w \o t) \o outbox # <<>> /\ ((w \o t) \o outbox)[1] = w[1]
          /\ (Tail(w) \o t) \o outbox = Tail((w \o t) \o outbox)
      BY <1>e, <3>2, PendingEnds
    <3> QED BY <3>2, <3>3, <3>4
  <2> HIDE DEF e
  <2>9. KeysSettle(Pending', down', held)
    <3>1. \A k \in Keys \ {e.key} : k \in down' <=> k \in down
      BY <2>6 DEF InjectLinux, InjectWindows, Moved
    <3>2. e.key \in Keys => (e.pressed <=> e.key \in down')
      BY <2>6 DEF InjectLinux, InjectWindows, Moved
    <3> QED BY <1>c, <1>d, <2>8, <3>1, <3>2, InjectSettles DEF Settled
  <2>10. platform = "linux" => MaskSettles(Pending', depressed', Mask)
    <3>1. ASSUME platform = "linux"
          PROVE  IF e.key \in NonButtons THEN depressed' = e.mods ELSE depressed' = depressed
      BY <1>a, <2>6, <3>1 DEF InjectLinux, InjectWindows, NonButtons
    <3> QED BY <1>c, <1>d, <2>8, <3>1, InjectSettles DEF Settled
  <2>11. Settled'
    BY <2>0, <2>9, <2>10 DEF Settled, Mask
  <2> QED BY <2>7, <2>11
<1>8. CASE NetworkFails(1)
  BY <1>8, <1>a DEF NetworkFails, First, ThreadTypes
<1>9. CASE UNCHANGED vars
  <2>1. UNCHANGED <<wire, writer, hand, outbox, down, held, depressed, platform,
                    spoiled, host, noise, sock, net>>
    BY <1>9 DEF vars, phone, threads, link, laptop
  <2>2. Pending' = Pending
    BY <2>1 DEF Pending, InHand
  <2> QED BY <1>1, <1>c, <2>1, <2>2 DEF Fresh
<1> QED BY <1>b, <1>3, <1>4, <1>5, <1>6, <1>7, <1>8, <1>9 DEF Next

\* During the first connection, once everything has been sent and injected, the
\* laptop holds what the phone shows as held and nothing else, and its programs
\* see the latched modifiers (ModifierLatch, toggleModifier, sendButton; input.rs
\* of either platform).
THEOREM LaptopHoldsWhatThePhoneShows == Spec => []FirstSessionAgrees
<1> DEFINE Inv == IInv /\ WindowsMask /\ (First => Fresh /\ Settled)
<1>1. Init => Inv
  <2> SUFFICES ASSUME Init PROVE Inv
    OBVIOUS
  <2>1. IInv
    BY IInvInit
  <2>2. 1 \in Gen
    BY InputAssumption DEF Gen, InputAssumption
  <2>3. WindowsMask
    BY DEF Init, WindowsMask
  <2>4. Fresh
    BY <2>2 DEF Init, Fresh
  <2>5. Pending = <<>>
    BY <2>2 DEF Init, Pending, InHand, Carried
  <2>6. Settled
    BY <2>5 DEF Init, Settled, KeysSettle, MaskSettles, Mask
  <2> QED BY <2>1, <2>3, <2>4, <2>6
<1>2. Inv /\ [Next]_vars => Inv'
  <2> SUFFICES ASSUME Inv, [Next]_vars PROVE Inv'
    OBVIOUS
  <2>1. IInv'
    BY TypesStep, InOrderStep, OldWritersStep, OwnStep DEF IInv
  <2>2. WindowsMask'
    BY WindowsMaskStep
  <2>3. ASSUME First' PROVE Fresh' /\ Settled'
    BY <2>3, FirstStep DEF IInv
  <2> QED BY <2>1, <2>2, <2>3
<1>3. Inv => FirstSessionAgrees
  <2> SUFFICES ASSUME Inv, generation = 1, ui = "idle", Session(1), Drained(1)
               PROVE  down = held /\ depressed \ {"shift"} = Mask \ {"shift"}
    BY DEF FirstSessionAgrees
  <2>1. Settled
    BY DEF First, Session
  <2>2. Pending = <<>>
    <3>1. wire[1] = <<>> /\ outbox = <<>> /\ InHand = <<>>
      BY DEF Drained, InHand
    <3>2. Carried(<<>>) = <<>>
      BY DEF Carried
    <3> QED BY <3>1, <3>2 DEF Pending
  <2>3. \A K : Silent(Pending, K)
    BY <2>2 DEF Silent
  <2>4. down \subseteq Keys /\ held \subseteq Keys /\ platform \in {"linux", "windows"}
    BY DEF IInv, Types, ScreenTypes, LaptopTypes, Keys
  <2>5. down = held
    BY <2>1, <2>3, <2>4 DEF Settled, KeysSettle
  <2>6. depressed \ {"shift"} = Mask \ {"shift"}
    BY <2>1, <2>3, <2>4, <2>5 DEF Settled, MaskSettles, WindowsMask, Mask
  <2> QED BY <2>5, <2>6
<1> QED BY <1>1, <1>2, <1>3, PTL DEF Spec
=============================================================================
