------------------------------ MODULE WireFormat ------------------------------
(***************************************************************************)
(* The wire protocol: what each end writes of a message and what it reads, *)
(* field by field (palmtop-proto/src/lib.rs; Protocol.java).  A message is *)
(* a tag and a function from field names to values.  A byte on the wire is *)
(* a record of the value it is part of, the type it was written as and its *)
(* place in it.  What bytes that are out of place would be read as is left *)
(* open: a message with such a field counts as refused.                    *)
(***************************************************************************)
EXTENDS Naturals, SequencesExt

Width == [u8 |-> 1, bool |-> 1, u16 |-> 2, u32 |-> 4, f32 |-> 4, u64 |-> 8]
\* Strings and pictures are never taken apart: two bytes stand for their content.
Size(s) == IF s = "" THEN 0 ELSE 2

Bytes(type, v, n) == [k \in 1..n |-> [type |-> type, of |-> v, at |-> k]]
Put(type, v) ==
  CASE type = "str" -> Bytes("u32", Size(v), 4) \o Bytes("utf8", v, Size(v))
    [] type = "rest" -> Bytes("rest", v, Size(v))
    [] OTHER -> Bytes(type, v, Width[type])

Message(tag, body) == [tag |-> tag, body |-> body]
Refused == Message("refused", [why |-> "malformed"])

Nothing == [ok |-> FALSE, value |-> "", rest |-> <<>>]
Take(type, n, bytes) ==
  IF Len(bytes) >= n /\ \A k \in 1..n : bytes[k].type = type /\ bytes[k].at = k
  THEN [ok |-> TRUE, value |-> IF n = 0 THEN "" ELSE bytes[1].of,
        rest |-> SubSeq(bytes, n + 1, Len(bytes))]
  ELSE Nothing
Get(type, bytes) ==
  CASE type = "str" -> LET len == Take("u32", 4, bytes)
                       IN IF len.ok THEN Take("utf8", len.value, len.rest)
                                    ELSE Nothing
    [] type = "rest" -> Take("rest", Len(bytes), bytes)
    [] OTHER -> Take(type, Width[type], bytes)

Field(name, type) == [name |-> name, type |-> type]
Each(names, type) == [i \in DOMAIN names |-> Field(names[i], type)]

\* The payload after each field.
Written(layout, body) ==
  LET payload[i \in 0..Len(layout)] ==
        IF i = 0 THEN <<>>
        ELSE payload[i - 1] \o Put(layout[i].type, body[layout[i].name])
  IN payload
Encode(layouts, m) ==
  [tag |-> m.tag, payload |-> Written(layouts[m.tag], m.body)[Len(layouts[m.tag])]]

\* What is known after each field.  Bytes behind the last one are not looked at.
Unread(payload) == [ok |-> TRUE, rest |-> payload, body |-> <<>>]
With(f, x, v) == [y \in DOMAIN f \cup {x} |-> IF y = x THEN v ELSE f[y]]
Fill(sofar, field) ==
  LET got == Get(field.type, sofar.rest)
  IN [ok |-> sofar.ok /\ got.ok, rest |-> got.rest,
      body |-> With(sofar.body, field.name, got.value)]
Parsed(layout, payload) ==
  LET sofar[i \in 0..Len(layout)] ==
        IF i = 0 THEN Unread(payload) ELSE Fill(sofar[i - 1], layout[i])
  IN sofar
Decode(layouts, frame) ==
  IF frame.tag \notin DOMAIN layouts THEN Refused
  ELSE LET all == Parsed(layouts[frame.tag], frame.payload)[Len(layouts[frame.tag])]
       IN IF all.ok THEN Message(frame.tag, all.body) ELSE Refused

-----------------------------------------------------------------------------
(* The layouts.  The Rust end can read and write every message: here it    *)
(* writes those of a host and reads those of a client, the Java end the    *)
(* other way round.                                                        *)

ProfileWords == <<"screen_width", "screen_height", "density_dpi", "refresh_hz",
                  "max_decode_width", "max_decode_height", "max_decode_fps">>
\* Mutant: the limits of the decoder come before the refresh rate.
ProfileReadMutant ==
  Each(<<"screen_width", "screen_height", "density_dpi", "max_decode_width",
         "max_decode_height", "refresh_hz", "max_decode_fps">>, "u32")
ProfileRead == Each(ProfileWords, "u32")

HelloFields(profile) ==
  <<Field("protocol_version", "u16"), Field("token", "str"),
    Field("model", "str")>> \o profile \o <<Field("low_latency", "bool")>>

RustWrites == [
  HelloAck |-> <<Field("ok", "bool"), Field("reason", "str")>>,
  VideoConfig |-> <<Field("codec", "str"), Field("width", "u32"),
                    Field("height", "u32"), Field("fps", "u32"),
                    Field("mode", "u8"), Field("drop_budget_ms", "u32")>>,
  VideoFrame |-> <<Field("keyframe", "bool"), Field("capture_us", "u64"),
                   Field("data", "rest")>>,
  Pong |-> Each(<<"nonce", "t_client_us", "t_host_recv_us", "t_host_send_us">>,
                "u64"),
  Status |-> <<Field("stage", "str"), Field("ok", "bool"),
               Field("detail", "str")>>]

RustReads == [
  Hello |-> HelloFields(ProfileRead),
  PointerMotionRelative |-> Each(<<"dx", "dy">>, "f32"),
  PointerMotionAbsolute |-> Each(<<"x", "y">>, "f32"),
  PointerButton |-> <<Field("button", "u8"), Field("pressed", "bool")>>,
  Scroll |-> Each(<<"dx", "dy">>, "f32"),
  Key |-> <<Field("evdev_code", "u32"), Field("pressed", "bool"),
            Field("modifiers", "u8")>>,
  Text |-> <<Field("utf8", "str")>>,
  SetMode |-> <<Field("mode", "u8")>>,
  Ping |-> Each(<<"nonce", "t_client_us">>, "u64")]

JavaWrites == [
  Hello |-> HelloFields(Each(ProfileWords, "u32")),
  PointerMotionRelative |-> Each(<<"dx", "dy">>, "f32"),
  PointerMotionAbsolute |-> Each(<<"x", "y">>, "f32"),
  PointerButton |-> <<Field("button", "u8"), Field("pressed", "bool")>>,
  Scroll |-> Each(<<"dx", "dy">>, "f32"),
  Key |-> <<Field("evdev_code", "u32"), Field("pressed", "bool"),
            Field("modifiers", "u8")>>,
  Text |-> <<Field("utf8", "str")>>,
  SetMode |-> <<Field("mode", "u8")>>,
  Ping |-> Each(<<"nonce", "t_client_us">>, "u64")]

JavaReads == [
  HelloAck |-> <<Field("ok", "bool"), Field("reason", "str")>>,
  VideoConfig |-> <<Field("codec", "str"), Field("width", "u32"),
                    Field("height", "u32"), Field("fps", "u32"),
                    Field("mode", "u8"), Field("drop_budget_ms", "u32")>>,
  VideoFrame |-> <<Field("keyframe", "bool"), Field("capture_us", "u64"),
                   Field("data", "rest")>>,
  Pong |-> Each(<<"nonce", "t_client_us", "t_host_recv_us", "t_host_send_us">>,
                "u64"),
  Status |-> <<Field("stage", "str"), Field("ok", "bool"),
               Field("detail", "str")>>]

\* The Hello of a client that is older than the profile (version 3).
OldHello == [Hello |-> <<Field("protocol_version", "u16"), Field("token", "str")>>]
=============================================================================
