----------------------------- MODULE Negotiation -----------------------------
(***************************************************************************)
(* What phone and laptop agree to stream: the phone says in its Hello what *)
(* it can decode, the host clamps the preset of a mode to that, starts its *)
(* encoder and announces the stream, and the picker of the phone asks for  *)
(* other modes (session.rs; MainActivity).  All of it crosses the wire in  *)
(* the bytes of WireFormat, next to the other messages of a session; a     *)
(* queue entry also holds what its sender meant.                           *)
(*                                                                         *)
(* NoiseLink has the encrypted connection and the pairing token,           *)
(* StreamSession the threads of the host, RemoteInput those of the phone.  *)
(***************************************************************************)
EXTENDS WireFormat, QualityModes

CONSTANTS
  Devices,         \* what phones can do: width, height, fps, refresh
  Source,          \* the size of the laptop's screen
  MaxConnections,  \* bound: connections
  MaxChoices       \* bound: choices of a mode
NegotiationAssumption ==
  /\ Devices \subseteq [width : Nat, height : Nat, fps : Nat, refresh : Nat]
  /\ MaxConnections \in Nat \ {0} /\ MaxChoices \in Nat
ASSUME NegotiationAssumption

PROTOCOL_VERSION == 5

VARIABLES
  device,      \* this phone
  version,     \* the protocol version it speaks
  at,          \* its network thread
  picked,      \* currentMode
  config,      \* videoConfig
  outbox,      \* modes asked for and not yet sent
  missed,      \* a mode was picked after the one was compared that the host
               \* announced, and before the picker counts as connected
  up, down,    \* messages under way, [frame, said]
  host,        \* the host's session
  profile,     \* device_profile
  mode,        \* of the main loop
  pending,     \* mode_rx
  preset,      \* what its encoder has been started with
  connections, choices

phone == <<at, picked, config, outbox, missed>>
wires == <<up, down>>
session == <<host, profile, mode, pending, preset>>
counts == <<connections, choices>>
vars == <<device, version, phone, wires, session, counts>>

NoConfig ==
  [width |-> 0, height |-> 0, fps |-> 0, mode |-> Balanced, budget |-> 0]

Sent(layouts, said) == [frame |-> Encode(layouts, said), said |-> said]
HostHears(entry) == Decode(RustReads, entry.frame)
PhoneHears(entry) == Decode(JavaReads, entry.frame)

-----------------------------------------------------------------------------
(* Messages. *)

HelloBody ==
  [protocol_version |-> version, token |-> "token", model |-> "model",
   screen_width |-> 720, screen_height |-> 1280, density_dpi |-> 320,
   refresh_hz |-> device.refresh, max_decode_width |-> device.width,
   max_decode_height |-> device.height, max_decode_fps |-> device.fps,
   low_latency |-> FALSE]
Hello == IF version < 4 THEN Sent(OldHello, Message("Hello", HelloBody))
                        ELSE Sent(JavaWrites, Message("Hello", HelloBody))
SetMode(m) == Sent(JavaWrites, Message("SetMode", [mode |-> m]))
HelloAck(ok) ==
  Sent(RustWrites, Message("HelloAck",
    [ok |-> ok, reason |-> IF ok THEN "" ELSE "protocol mismatch"]))
VideoConfig(m, p) ==
  Sent(RustWrites, Message("VideoConfig",
    [codec |-> "h264", width |-> p.width, height |-> p.height, fps |-> p.fps,
     mode |-> m, drop_budget_ms |-> p.budget]))
Pong(ping) ==
  Sent(RustWrites, Message("Pong",
    [nonce |-> ping.nonce, t_client_us |-> ping.t_client_us,
     t_host_recv_us |-> "t2", t_host_send_us |-> "t3"]))

FromPhone == {
  Message("PointerMotionRelative", [dx |-> "dx", dy |-> "dy"]),
  Message("PointerMotionAbsolute", [x |-> "x", y |-> "y"]),
  Message("PointerButton", [button |-> 2, pressed |-> FALSE]),
  Message("Scroll", [dx |-> "dx", dy |-> "dy"]),
  Message("Key", [evdev_code |-> 30, pressed |-> TRUE, modifiers |-> 8]),
  Message("Text", [utf8 |-> "text"]),
  Message("Ping", [nonce |-> "n", t_client_us |-> "t1"])}
FromHost == {
  Message("Status", [stage |-> "encode", ok |-> TRUE, detail |-> "text"]),
  Message("VideoFrame", [keyframe |-> TRUE, capture_us |-> "t", data |-> "unit"])}

-----------------------------------------------------------------------------
(* A connection. *)

Init ==
  /\ device \in Devices /\ version \in 3..PROTOCOL_VERSION
  /\ at = "off" /\ picked \in Modes /\ config = NoConfig
  /\ outbox = <<>> /\ missed = FALSE
  /\ up = <<>> /\ down = <<>>
  /\ host = "none" /\ profile = device /\ mode = Balanced
  /\ pending = <<>> /\ preset = Preset(Balanced)
  /\ connections = 0 /\ choices = 0

\* teardown, startConnection and the Hello of performHandshake; whatever session
\* the host still has is displaced.
Connect ==
  /\ at = "off" /\ connections < MaxConnections
  /\ connections' = connections + 1
  /\ at' = "greeting" /\ outbox' = <<>> /\ missed' = FALSE
  /\ up' = <<Hello>> /\ down' = <<>>
  /\ host' = "greeting" /\ pending' = <<>>
  /\ UNCHANGED <<device, version, picked, config, profile, mode, preset, choices>>

\* Mutant: the version is not looked at.
SpeaksMutant(hello) == TRUE
Speaks(hello) == hello.protocol_version = PROTOCOL_VERSION

\* A Hello that cannot be read is not answered.
HostGreets ==
  /\ host = "greeting" /\ up # <<>>
  /\ LET hello == HostHears(Head(up))
     IN IF hello = Refused
        THEN host' = "ended" /\ UNCHANGED <<profile, down>>
        ELSE /\ down' = Append(down, HelloAck(Speaks(hello.body)))
             /\ host' = IF Speaks(hello.body) THEN "starting" ELSE "ended"
             /\ profile' = [width |-> hello.body.max_decode_width,
                            height |-> hello.body.max_decode_height,
                            fps |-> hello.body.max_decode_fps,
                            refresh |-> hello.body.refresh_hz]
  /\ up' = Tail(up)
  /\ UNCHANGED <<device, version, phone, mode, pending, preset, counts>>

\* The encoder is started before its stream is announced.
Start(m) ==
  /\ mode' = m
  /\ \E p \in ClampedTo(Preset(m), profile) :
       /\ preset' = p
       /\ down' = Append(down, VideoConfig(m, p))

HostStarts ==
  /\ host = "starting" /\ host' = "streaming"
  /\ Start(Balanced)
  /\ UNCHANGED <<device, version, phone, up, profile, pending, counts>>

HostSwitches ==
  /\ host = "streaming" /\ pending # <<>>
  /\ Start(Head(pending))
  /\ pending' = Tail(pending)
  /\ UNCHANGED <<device, version, phone, up, host, profile, counts>>

\* run_network_reader: input goes to the injector, and a mode that does not
\* exist is ignored.
HostReads ==
  /\ host = "streaming" /\ up # <<>>
  /\ LET m == HostHears(Head(up))
     IN /\ host' = IF m = Refused THEN "ended" ELSE host
        /\ pending' = IF m.tag = "SetMode" /\ FromU8(m.body.mode) # {}
                      THEN Append(pending, m.body.mode) ELSE pending
        /\ down' = IF m.tag = "Ping" THEN Append(down, Pong(m.body)) ELSE down
  /\ up' = Tail(up)
  /\ UNCHANGED <<device, version, phone, profile, mode, preset, counts>>

\* Bound: the other messages are said one at a time.
Quiet == outbox \o up \o down \o pending = <<>>
HostSays ==
  /\ host \in {"starting", "streaming"} /\ Quiet
  /\ \E m \in FromHost :
       /\ m.tag = "VideoFrame" => host = "streaming"
       /\ down' = <<Sent(RustWrites, m)>>
  /\ UNCHANGED <<device, version, phone, up, session, counts>>

-----------------------------------------------------------------------------
(* The phone. *)

\* readInitialVideoConfig and applyInitialVideoConfig: the mode picked earlier
\* is asked for again if the host starts in another one.
\* Mutant: the host's mode is taken over.
ReassertMutant(announced) == {}
Reassert(announced) == {picked} \ {announced}

Takes(m) ==
  config' = [width |-> m.width, height |-> m.height, fps |-> m.fps,
             mode |-> m.mode, budget |-> m.drop_budget_ms]

PhoneGreets ==
  /\ at = "greeting" /\ down # <<>>
  /\ LET ack == PhoneHears(Head(down))
     IN at' = IF ack.tag = "HelloAck" /\ ack.body.ok THEN "waiting" ELSE "off"
  /\ down' = Tail(down)
  /\ UNCHANGED <<device, version, picked, config, outbox, missed, up, session,
                 counts>>

PhoneWaits ==
  /\ at = "waiting" /\ down # <<>>
  /\ LET m == PhoneHears(Head(down))
     IN CASE m.tag = "VideoConfig" ->
               /\ at' = "opening" /\ Takes(m.body)
               /\ outbox' = outbox \o SetToSeq(Reassert(m.body.mode))
          [] m.tag = "Status" /\ m.body.ok -> UNCHANGED <<at, config, outbox>>
          [] OTHER -> at' = "off" /\ UNCHANGED <<config, outbox>>
  /\ down' = Tail(down)
  /\ UNCHANGED <<device, version, picked, missed, up, session, counts>>

PhoneOpens ==
  /\ at = "opening" /\ at' = "open"
  /\ UNCHANGED <<device, version, picked, config, outbox, missed, wires, session,
                 counts>>

PhoneReads ==
  /\ at = "open" /\ down # <<>>
  /\ LET m == PhoneHears(Head(down))
     IN /\ at' = IF m = Refused THEN "off" ELSE at
        /\ IF m.tag = "VideoConfig"
           THEN Takes(m.body) /\ picked' = m.body.mode /\ missed' = FALSE
           ELSE UNCHANGED <<config, picked, missed>>
  /\ down' = Tail(down)
  /\ UNCHANGED <<device, version, outbox, up, session, counts>>

PhoneWrites ==
  /\ at = "open" /\ outbox # <<>>
  /\ up' = Append(up, SetMode(Head(outbox)))
  /\ outbox' = Tail(outbox)
  /\ UNCHANGED <<device, version, at, picked, config, missed, down, session, counts>>

PhoneSays ==
  /\ at = "open" /\ Quiet
  /\ \E m \in FromPhone : up' = <<Sent(JavaWrites, m)>>
  /\ UNCHANGED <<device, version, phone, down, session, counts>>

\* selectMode.
UserPicks ==
  /\ choices < MaxChoices /\ choices' = choices + 1
  /\ \E m \in Modes :
       /\ picked' = m
       /\ outbox' = IF at = "open" THEN Append(outbox, m) ELSE outbox
  /\ missed' = (at = "opening")
  /\ UNCHANGED <<device, version, at, config, wires, session, connections>>

\* The connection is lost, or one end of it has gone.
Lose ==
  /\ at # "off" /\ at' = "off"
  /\ host' = "ended" /\ up' = <<>> /\ down' = <<>> /\ pending' = <<>>
  /\ profile' = device /\ mode' = Balanced /\ preset' = Preset(Balanced)
  /\ UNCHANGED <<device, version, picked, config, outbox, missed, counts>>

Next ==
  \/ Connect \/ HostGreets \/ HostStarts \/ HostSwitches \/ HostReads \/ HostSays
  \/ PhoneGreets \/ PhoneWaits \/ PhoneOpens \/ PhoneReads \/ PhoneWrites
  \/ PhoneSays \/ UserPicks \/ Lose

Spec == Init /\ [][Next]_vars

-----------------------------------------------------------------------------
(* Properties. *)

Picture == Encoded(Arguments(preset, Source))

\* Only a phone of the host's own protocol version gets past the handshake.
TypeOK ==
  /\ at \in {"off", "greeting", "waiting", "opening", "open"}
  /\ host \in {"none", "greeting", "starting", "streaming", "ended"}
  /\ picked \in Modes /\ mode \in Modes /\ Range(pending \o outbox) \subseteq Modes
  /\ missed => at \in {"opening", "open", "off"}
  /\ host \in {"starting", "streaming"} \/ at \in {"waiting", "opening", "open"} =>
       version = PROTOCOL_VERSION

\* What either end reads is what the other one meant, field by field; a Hello
\* from before the profile is refused rather than misread.
HeardAsSaid ==
  /\ \A e \in Range(up) : HostHears(e) = IF version < 4 THEN Refused ELSE e.said
  /\ \A e \in Range(down) : PhoneHears(e) = e.said

\* What the encoder makes is no larger and no faster than the phone said its
\* decoder can take, whatever a failed query has made of that, keeps the shape
\* of the preset to within a few lines and has even sides.  A lower frame rate
\* leaves the time between keyframes what the preset makes it, to within half a
\* frame, and the largest picture the rate control allows fits the send buffer.
FitsTheDevice ==
  host = "streaming" =>
    LET wanted == Preset(mode)
        skew == Picture.width * wanted.height - Picture.height * wanted.width
        late == preset.gop * wanted.fps - wanted.gop * preset.fps
    IN /\ Picture.width <= CredibleWidth(device)
       /\ Picture.height <= CredibleHeight(device)
       /\ preset.fps <= CredibleFps(device)
       /\ Picture.width % 2 = 0 /\ Picture.height % 2 = 0
       /\ -3 * wanted.width <= skew /\ skew <= 3 * wanted.width
       /\ -wanted.fps <= 2 * late /\ 2 * late <= wanted.fps
       /\ Arguments(preset, Source).bufsize * 1000 <= preset.sndbuf * 8

\* Once nothing is under way the phone shows the mode and describes the stream
\* that the encoder really produces, except for a mode that was picked in the
\* moment between comparing the announced mode and opening the connection.
PickerTellsTheTruth ==
  at = "open" /\ host = "streaming" /\ Quiet =>
    /\ picked = mode \/ missed
    /\ config = [width |-> Picture.width, height |-> Picture.height,
                 fps |-> preset.fps, mode |-> mode, budget |-> preset.budget]
=============================================================================
