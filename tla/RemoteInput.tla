----------------------------- MODULE RemoteInput -----------------------------
(***************************************************************************)
(* From a finger on the phone to a key on the laptop: the latches and      *)
(* buttons of MainActivity, its outbox, the network and writer threads of  *)
(* each connection, the reader of the host's session (session.rs,          *)
(* run_network_reader) and the injector (input.rs of either platform).     *)
(*                                                                         *)
(* The threads of a connection know its generation, but the fields they    *)
(* work on (outbox, noise, socket, connected) are those of the activity,   *)
(* and a thread of an older connection writes them still. NoiseLink has    *)
(* what a Noise state does with a frame; here it is enough that a frame is *)
(* refused that another state has encrypted, or its own after it has been  *)
(* used for a frame that never came.                                       *)
(***************************************************************************)
EXTENDS Naturals, SequencesExt

CONSTANTS
  Modifiers,  \* those the phone latches
  Buttons,    \* those of the pointer
  MaxGen,     \* bound: connections, the last of which is not torn down
  MaxEvent    \* bound: things the user does but for reconnecting
\* "a" is the key that is typed, "mode" the message that is not a key.
InputAssumption ==
  /\ Modifiers \cap Buttons = {}
  /\ {"a", "mode"} \cap (Modifiers \cup Buttons) = {}
  /\ IsFiniteSet(Modifiers) /\ IsFiniteSet(Buttons)
  /\ MaxGen \in Nat \ {0} /\ MaxEvent \in Nat
ASSUME InputAssumption

VARIABLES
  ui,         \* "idle" or "teardown"
  held,       \* what is latched or held on the screen
  done,       \* events so far
  generation, connected,
  outbox,     \* events not yet sent
  noise,      \* the connection whose Noise state is in the field; 0: null
  socket,     \* the connection whose socket is in the field; 0: null
  net,        \* net[g]: the network thread of connection g
  writer,     \* writer[g]: its writer
  hand,       \* hand[g]: what that has taken
  sock,       \* sock[g]: "none", "open" or "closed"
  spoiled,    \* connections with whose Noise state another one encrypted
  wire,       \* wire[g]: frames under way
  host,       \* host[g]: the host's session
  platform,   \* of the laptop
  down,       \* keys and buttons that are down on the laptop
  depressed   \* the modifiers that its programs see

phone == <<ui, held, done, generation, connected, outbox, noise, socket>>
threads == <<net, writer, hand>>
link == <<sock, spoiled, wire>>
laptop == <<platform, host, down, depressed>>
vars == <<phone, threads, link, laptop>>

Gen == 1..MaxGen
Nothing == [key |-> "none", pressed |-> FALSE, mods |-> {}, gen |-> 0]
Keys == Modifiers \cup Buttons \cup {"a"}
Mask == held \cap Modifiers
Event(k, p, m) == [key |-> k, pressed |-> p, mods |-> m, gen |-> generation]

TypeOK ==
  /\ ui \in {"idle", "teardown"}
  /\ held \subseteq Modifiers \cup Buttons
  /\ ui # "idle" => held = {}
  /\ generation \in Gen /\ done \in 0..MaxEvent /\ connected \in BOOLEAN
  /\ {noise, socket} \subseteq 0..generation
  /\ \A g \in Gen :
       /\ net[g] \in {"off", "start", "shake", "hello", "refused", "config",
                      "open", "streaming", "ended", "failed"}
       /\ net[g] # "off" => g <= generation
       /\ writer[g] \in {"off", "poll", "send", "done"}
       /\ writer[g] # "off" => net[g] \in {"streaming", "ended", "failed"}
       /\ sock[g] \in {"none", "open", "closed"}
       /\ host[g] \in {"none", "up", "ended"}
  /\ spoiled \subseteq 1..generation
  /\ platform \in {"linux", "windows"}
  /\ down \subseteq Keys /\ depressed \subseteq Modifiers \cup {"shift"}

Init ==
  /\ ui = "idle" /\ held = {} /\ done = 0
  /\ generation = 1 /\ connected = FALSE
  /\ outbox = <<>> /\ noise = 0 /\ socket = 0
  /\ net = [g \in Gen |-> IF g = 1 THEN "start" ELSE "off"]
  /\ writer = [g \in Gen |-> "off"] /\ hand = [g \in Gen |-> Nothing]
  /\ sock = [g \in Gen |-> "none"] /\ spoiled = {}
  /\ wire = [g \in Gen |-> <<>>]
  /\ host = [g \in Gen |-> "none"]
  /\ platform \in {"linux", "windows"}
  /\ down = {} /\ depressed = {}

-----------------------------------------------------------------------------
(* The user.  What is enqueued before the stream is open waits in the outbox. *)

Acts == ui = "idle" /\ done < MaxEvent /\ done' = done + 1

\* toggleModifier and sendButton: the event carries the mask as it is then.
\* Mutant: the mask as it was before.
ToggleMutant(k) ==
  /\ Acts
  /\ held' = IF k \in held THEN held \ {k} ELSE held \cup {k}
  /\ outbox' = Append(outbox, Event(k, k \in held', Mask))
  /\ UNCHANGED <<ui, generation, connected, noise, socket, threads, link, laptop>>
Toggle(k) ==
  /\ Acts
  /\ held' = IF k \in held THEN held \ {k} ELSE held \cup {k}
  /\ outbox' = Append(outbox, Event(k, k \in held', held' \cap Modifiers))
  /\ UNCHANGED <<ui, generation, connected, noise, socket, threads, link, laptop>>

\* sendKeyTap and sendChar; a capital letter brings its own Shift.
Tap(mods) ==
  /\ Acts
  /\ outbox' = outbox \o <<Event("a", TRUE, Mask \cup mods),
                           Event("a", FALSE, Mask \cup mods)>>
  /\ UNCHANGED <<ui, held, generation, connected, noise, socket, threads, link,
                 laptop>>

\* teardown begins by enqueuing the releases, if connected.
\* Mutant: the latches are released, but stay latched.
TeardownMutant ==
  /\ ui = "idle" /\ generation < MaxGen
  /\ outbox' = IF connected
               THEN outbox \o SetToSeq({Event(k, FALSE, {}) : k \in held})
               ELSE outbox
  /\ held' = Mask
  /\ ui' = "teardown"
  /\ UNCHANGED <<done, generation, connected, noise, socket, threads, link, laptop>>
Released(ks) == LET s == SetToSeq(ks)
                IN [i \in DOMAIN s |-> Event(s[i], FALSE, {})]
Releases == Released(held \cap Buttons) \o Released(Mask)
Teardown ==
  /\ ui = "idle" /\ generation < MaxGen
  /\ outbox' = IF connected THEN outbox \o Releases ELSE outbox
  /\ held' = {}
  /\ ui' = "teardown"
  /\ UNCHANGED <<done, generation, connected, noise, socket, threads, link, laptop>>

\* The rest of teardown: whatever the writer has not taken yet is gone, and the
\* socket that the field holds is closed.  After it startConnection begins the
\* next connection.
\* Mutant: the outbox keeps it for the next connection.
ClearedMutant == outbox
Cleared == <<>>
TornDown ==
  /\ ui = "teardown"
  /\ connected' = FALSE
  /\ noise' = 0 /\ outbox' = Cleared /\ socket' = 0
  /\ sock' = IF socket = 0 THEN sock ELSE [sock EXCEPT ![socket] = "closed"]
  /\ ui' = "idle"
  /\ generation' = generation + 1
  /\ net' = [net EXCEPT ![generation'] = "start"]
  /\ UNCHANGED <<held, done, writer, hand, spoiled, wire, laptop>>

-----------------------------------------------------------------------------
(* runNetwork.  Of its steps only the last look at the generation.           *)

Goes(g, from, to) == net[g] = from /\ net' = [net EXCEPT ![g] = to]

\* The socket is published so that teardown can close it from another thread,
\* connected, and the handshake exchanged.  That it is closed before it is
\* connected is no different from being closed then.
NetConnects(g) ==
  /\ Goes(g, "start", "shake")
  /\ socket' = g
  /\ sock' = [sock EXCEPT ![g] = "open"]
  /\ UNCHANGED <<ui, held, done, generation, connected, outbox, noise, writer, hand,
                 spoiled, wire, laptop>>

\* What the handshake has made goes into the field.
NetShakes(g) ==
  /\ Goes(g, "shake", "hello")
  /\ noise' = g
  /\ UNCHANGED <<ui, held, done, generation, connected, outbox, socket, writer, hand,
                 link, laptop>>

\* Hello, encrypted with what the field holds; the host takes the newest client
\* and ends the sessions of the others.
Spoiled(g) == IF noise \in {0, g} THEN spoiled ELSE spoiled \cup {noise}
IsGood(g) == noise = g /\ g \notin spoiled
NetSaysHello(g) ==
  /\ net[g] = "hello"
  /\ spoiled' = Spoiled(g)
  /\ IF IsGood(g) /\ sock[g] = "open"
     THEN /\ host' = [h \in Gen |-> IF h = g THEN "up"
                                    ELSE IF host[h] = "up" THEN "ended" ELSE host[h]]
          /\ wire' = [h \in Gen |-> <<>>]
          /\ net' = [net EXCEPT ![g] = "config"]
     ELSE net' = [net EXCEPT ![g] = "refused"] /\ UNCHANGED <<host, wire>>
  /\ UNCHANGED <<phone, writer, hand, sock, platform, down, depressed>>

\* The HelloAck and the first VideoConfig, decrypted with what the field holds.
NetReadsConfig(g) ==
  /\ Goes(g, "config", "open")
  /\ sock[g] = "open" /\ host[g] = "up" /\ noise = g
  /\ UNCHANGED <<phone, writer, hand, link, laptop>>

\* The mode the user had is enqueued if it is another, and the stream opened,
\* whatever has become of the connection meanwhile.
SetMode == [Event("mode", FALSE, {}) EXCEPT !.key = "mode"]
NetOpens(g) ==
  /\ Goes(g, "open", "streaming")
  /\ \/ UNCHANGED <<outbox, done>>
     \/ done < MaxEvent /\ done' = done + 1 /\ outbox' = Append(outbox, SetMode)
  /\ connected' = TRUE
  /\ writer' = [writer EXCEPT ![g] = IF generation = g THEN "poll" ELSE "done"]
  /\ UNCHANGED <<ui, held, generation, noise, socket, hand, link, laptop>>

\* The loop ends, which interrupts the writer, or a call on the socket throws or
\* what is read cannot be decrypted, which does not.
Throws(g) ==
  \/ net[g] = "refused"
  \/ net[g] = "shake" /\ sock[g] = "closed"
  \/ /\ net[g] \in {"config", "streaming"}
     /\ sock[g] = "closed" \/ host[g] = "ended" \/ noise # g
NetEnds(g) ==
  /\ \/ /\ Goes(g, "streaming", "ended")
        /\ generation # g \/ host[g] = "ended"
     \/ Throws(g) /\ Goes(g, net[g], "failed")
  /\ connected' = (connected /\ generation # g)
  /\ sock' = [sock EXCEPT ![g] = "closed"]
  /\ UNCHANGED <<ui, held, done, generation, outbox, noise, socket, writer, hand,
                 spoiled, wire, laptop>>

-----------------------------------------------------------------------------
(* runWriter, without its pings.                                             *)

\* The check of the generation; between it and the end of poll lie up to 100 ms.
WriterChecks(g) ==
  /\ writer[g] = "poll" /\ generation # g
  /\ writer' = [writer EXCEPT ![g] = "done"]
  /\ UNCHANGED <<phone, net, hand, link, laptop>>

\* poll is interrupted, or returns an event; after a timeout all is as it was.
WriterPolls(g) ==
  /\ writer[g] = "poll"
  /\ IF net[g] = "ended"
     THEN writer' = [writer EXCEPT ![g] = "done"] /\ UNCHANGED <<hand, outbox>>
     ELSE /\ outbox # <<>>
          /\ hand' = [hand EXCEPT ![g] = Head(outbox)]
          /\ outbox' = Tail(outbox)
          /\ writer' = [writer EXCEPT ![g] = "send"]
  /\ UNCHANGED <<ui, held, done, generation, connected, noise, socket, net, link,
                 laptop>>

\* sendEncrypted takes the Noise state out of the field when it needs it: it is
\* null, or this connection's, or that of a newer one.
WriterSends(g) ==
  /\ writer[g] = "send"
  /\ spoiled' = Spoiled(g)
  /\ LET sent == noise # 0 /\ sock[g] = "open"
         frame == [ev |-> hand[g], good |-> IsGood(g)]
     IN /\ wire' = IF sent /\ host[g] = "up"
                   THEN [wire EXCEPT ![g] = Append(@, frame)] ELSE wire
        /\ writer' = [writer EXCEPT ![g] = IF sent THEN "poll" ELSE "done"]
  /\ hand' = [hand EXCEPT ![g] = Nothing]
  /\ UNCHANGED <<phone, net, sock, laptop>>

-----------------------------------------------------------------------------
(* The host. *)

\* The injector.  A key event sets the modifiers of the virtual keyboard to the
\* mask it carries, a button does not.
Moved(e) == IF e.pressed THEN down \cup {e.key} ELSE down \ {e.key}
InjectLinux(e) ==
  /\ platform = "linux"
  /\ down' = Moved(e)
  /\ depressed' = IF e.key \in Buttons THEN depressed ELSE e.mods

\* On Windows the mask is ignored: the modifiers are the keys that are down.
InjectWindows(e) ==
  /\ platform = "windows"
  /\ down' = Moved(e)
  /\ depressed' = down' \cap Modifiers

\* run_network_reader hands input to the injector, in order, and ends at a
\* frame that cannot be decrypted.
\* Mutant: a SetMode waits for the session to take it.
MayReadMutant(g) ==
  host[g] = "up" /\ wire[g] # <<>> /\ Head(wire[g]).ev.key \in Keys
MayRead(g) == host[g] = "up" /\ wire[g] # <<>>
HostReads(g) ==
  /\ MayRead(g)
  /\ wire' = [wire EXCEPT ![g] = Tail(@)]
  /\ LET f == Head(wire[g])
     IN IF f.good
        THEN /\ IF f.ev.key \in Keys
                THEN InjectLinux(f.ev) \/ InjectWindows(f.ev)
                ELSE UNCHANGED <<down, depressed>>
             /\ UNCHANGED host
        ELSE host' = [host EXCEPT ![g] = "ended"] /\ UNCHANGED <<down, depressed>>
  /\ UNCHANGED <<phone, threads, sock, spoiled, platform>>

\* A closed connection ends the session; what was under way may be lost.
HostEnds(g) ==
  /\ host[g] = "up" /\ sock[g] = "closed"
  /\ host' = [host EXCEPT ![g] = "ended"]
  /\ wire' = [wire EXCEPT ![g] = <<>>]
  /\ UNCHANGED <<phone, threads, sock, spoiled, platform, down, depressed>>

NetworkFails(g) ==
  /\ sock[g] = "open" /\ host[g] = "up"
  /\ sock' = [sock EXCEPT ![g] = "closed"]
  /\ UNCHANGED <<phone, threads, spoiled, wire, laptop>>

-----------------------------------------------------------------------------
Net(g) == \/ NetConnects(g) \/ NetShakes(g) \/ NetSaysHello(g)
          \/ NetReadsConfig(g) \/ NetOpens(g) \/ NetEnds(g)
Writer(g) == WriterChecks(g) \/ WriterPolls(g) \/ WriterSends(g)
Host(g) == HostReads(g) \/ HostEnds(g)

Next ==
  \/ \E k \in Modifiers \cup Buttons : Toggle(k)
  \/ \E mods \in {{}, {"shift"}} : Tap(mods)
  \/ Teardown \/ TornDown
  \/ \E g \in Gen : Net(g) \/ Writer(g) \/ Host(g) \/ NetworkFails(g)

Fairness ==
  /\ WF_vars(TornDown)
  /\ \A g \in Gen : WF_vars(Net(g)) /\ WF_vars(Writer(g)) /\ WF_vars(Host(g))
Spec == Init /\ [][Next]_vars /\ Fairness

-----------------------------------------------------------------------------
(* Properties. *)

Session(g) == host[g] = "up" /\ sock[g] = "open"
Drained(g) == outbox = <<>> /\ wire[g] = <<>> /\ writer[g] # "send"

\* During the first connection, once everything has been sent and injected, the
\* laptop holds what the phone shows as held and nothing else, and its programs
\* see the latched modifiers, but for the Shift of the last capital letter
\* (ModifierLatch, toggleModifier, sendChar; input.rs of either platform).
FirstSessionAgrees ==
  generation = 1 /\ ui = "idle" /\ Session(1) /\ Drained(1) =>
    down = held /\ depressed \ {"shift"} = Mask \ {"shift"}

\* What was typed for one connection is never injected by the session of
\* another (startConnection: threads of an older generation "stop touching
\* shared state"; teardown clears the outbox).
NothingCrossesOver ==
  \A g \in Gen : \A i \in 1..Len(wire[g]) :
    LET f == wire[g][i] IN f.good /\ f.ev.key \in Keys => f.ev.gen = g

\* A press or a release typed for the newest connection is on its way: it waits
\* in the outbox, the writer has it, or it has been sent.
OnItsWay(p) ==
  LET g == generation
  IN \E e \in ToSet(outbox) \cup (IF writer[g] = "send" THEN {hand[g]} ELSE {})
             \cup {wire[g][i].ev : i \in DOMAIN wire[g]} :
       e.key = "a" /\ e.pressed = p /\ e.gen = g

\* Whatever is typed arrives, as long as the session lasts: the key goes down, and
\* up again, on the laptop, whatever latches, buttons and messages are before it.
\* A writer of an older connection that is in its poll still (runWriter looks at
\* the generation before it polls) may take an event instead, and lose it: nothing
\* is promised until it has gone.
NewestWriterAlone == \A h \in 1..(generation - 1) : writer[h] \notin {"poll", "send"}
InputArrives ==
  \A p \in BOOLEAN :
    Session(generation) /\ NewestWriterAlone /\ OnItsWay(p)
      ~> (("a" \in down) = p \/ ~Session(generation))

\* platform/windows/input.rs:98, on the mask of an event: when a key arrives,
\* "Windows' own input state already has that modifier down".
ModifiersAreDown ==
  [][\A g \in Gen :
       HostReads(g) /\ Head(wire[g]).good /\ Head(wire[g]).ev.key = "a" =>
         depressed' = Head(wire[g]).ev.mods]_vars

\* README.md:206, "Latched modifiers are released automatically if the
\* connection drops, so your laptop can never be left with a stuck Super key":
\* when no session is left, no modifier stays down.
NoModifierStuck ==
  (\A g \in Gen : host[g] # "up")
    ~> (down \cap Modifiers = {} \/ \E g \in Gen : host[g] = "up")
=============================================================================
