----------------------------- MODULE HostConfig -----------------------------
(***************************************************************************)
(* The file host.toml and the functions of palmtop-config that read and    *)
(* rewrite it, and the choice of an encoder (palmtop-config/src/lib.rs).   *)
(*                                                                         *)
(* The file is a sequence of lines.  A line is a header, a key with its    *)
(* value or a comment; of the values only those are kept that the code     *)
(* looks at.  A key belongs to the table whose header comes last before    *)
(* it: what load appends depends on that.                                  *)
(***************************************************************************)
EXTENDS Naturals, Sequences, SequencesExt

Line(k, v) == [key |-> k, value |-> v]
Headers == {"[host]", "[gpu]", "[encode]", "[pairing]"}
Header(t) == Line(t, "")
IsHeader(line) == line.key \in Headers
Comment == Line("# [pairing] and [encode] are explained here", "")

AutoCodec == "auto"
SelectableCodecs ==
  {AutoCodec, "h264_vaapi", "h264_nvenc", "h264_qsv", "h264_amf", "libx264"}

-----------------------------------------------------------------------------
(* What the toml crate makes of the text. *)

\* The table of line i, "" before the first header.
TableOf(text, i) ==
  LET hs == {j \in 1..i : IsHeader(text[j])}
  IN IF hs = {} THEN "" ELSE text[CHOOSE j \in hs : \A l \in hs : l <= j].key

Keys == {"ip", "codec", "vaapi_render_node",
         "token", "noise_private_key", "noise_public_key"}
Places(text, t, k) ==
  {i \in 1..Len(text) : text[i].key = k /\ TableOf(text, i) = t}
Value(text, t, k, default) ==
  LET ps == Places(text, t, k)
  IN IF ps = {} THEN default ELSE text[CHOOSE i \in ps : TRUE].value

\* No table and no key of a table is there twice, and what has no default is
\* there: [host], [gpu] and the render node.
Parses(text) ==
  /\ \A h \in Headers : Cardinality({i \in 1..Len(text) : text[i].key = h}) <= 1
  /\ \A t \in Headers, k \in Keys : Cardinality(Places(text, t, k)) <= 1
  /\ \A h \in {"[host]", "[gpu]"} : \E i \in 1..Len(text) : text[i].key = h
  /\ Places(text, "[gpu]", "vaapi_render_node") # {}

\* HostConfig as it is deserialized, with the defaults of its sections.
Parse(text) ==
  [ip    |-> Value(text, "[host]", "ip", ""),
   node  |-> Value(text, "[gpu]", "vaapi_render_node", ""),
   codec |-> Value(text, "[encode]", "codec", "h264_vaapi"),
   token |-> Value(text, "[pairing]", "token", ""),
   private |-> Value(text, "[pairing]", "noise_private_key", ""),
   public  |-> Value(text, "[pairing]", "noise_public_key", "")]

\* Text of these lines, with the given values; a header has none.
WellFormed(text, values) ==
  /\ text \in Seq([key : Headers \cup Keys \cup {Comment.key}, value : values])
  /\ \A i \in 1..Len(text) :
       IsHeader(text[i]) => text[i] = Header(text[i].key)

-----------------------------------------------------------------------------
(* HostConfig::load: what it generates with the secret `fresh`, and appends. *)

NeedsToken(cfg) == cfg.token = ""
NeedsKeys(cfg) == cfg.private = "" \/ cfg.public = ""

Complete(cfg, fresh) ==
  [cfg EXCEPT !.token   = IF NeedsToken(cfg) THEN fresh ELSE @,
              !.private = IF NeedsKeys(cfg) THEN fresh ELSE @,
              !.public  = IF NeedsKeys(cfg) THEN fresh ELSE @]

\* Only a line that is the header counts, not a mention of it.
\* Mutant: text.contains, which a comment in the template satisfies.
HasPairingHeaderMutant(text) ==
  \E i \in 1..Len(text) : text[i] \in {Header("[pairing]"), Comment}
HasPairingHeader(text) == \E i \in 1..Len(text) : text[i] = Header("[pairing]")

Appended(text, fresh) ==
  LET cfg == Parse(text)
      header == IF HasPairingHeader(text) \/ ~(NeedsToken(cfg) \/ NeedsKeys(cfg))
                THEN <<>> ELSE <<Header("[pairing]")>>
      token == IF NeedsToken(cfg) THEN <<Line("token", fresh)>> ELSE <<>>
      keys == IF NeedsKeys(cfg) THEN <<Line("noise_private_key", fresh),
                                       Line("noise_public_key", fresh)>>
                                ELSE <<>>
  IN header \o token \o keys

\* What load relies on when it appends: [pairing] is "always the last section",
\* and a key that is missing is not there with a blank value.
Appendable(text) ==
  LET cfg == Parse(text)
      Absent(k) == Places(text, "[pairing]", k) = {}
  IN /\ NeedsToken(cfg) \/ NeedsKeys(cfg) =>
          \A i \in 1..Len(text) : text[i].key = "[pairing]" =>
            \A j \in 1..Len(text) : IsHeader(text[j]) => j <= i
     /\ NeedsToken(cfg) => Absent("token")
     /\ NeedsKeys(cfg) => Absent("noise_private_key") /\ Absent("noise_public_key")

-----------------------------------------------------------------------------
(* rewrite_codec: the codec line of [encode] is replaced, or inserted behind *)
(* the header, or the section is appended.                                   *)

\* The section runs to the next header or to the end of the file.
SectionOf(text, h) == {i \in 1..Len(text) : i > h /\ TableOf(text, i) = "[encode]"}

\* Mutant: whatever line sets a codec, in any section, or else the last line.
RewriteCodecMutant(text, codec) ==
  LET new == Line("codec", codec)
      lines == {i \in 1..Len(text) : text[i].key = "codec"}
  IN IF lines # {} THEN [text EXCEPT ![CHOOSE i \in lines : TRUE] = new]
                   ELSE Append(text, new)
RewriteCodec(text, codec) ==
  LET new == Line("codec", codec)
      h == SelectInSeq(text, LAMBDA l : l = Header("[encode]"))
      existing == {i \in SectionOf(text, h) : text[i].key = "codec"}
  IN IF h = 0 THEN text \o <<Header("[encode]"), new>>
     ELSE IF existing = {} THEN InsertAt(text, h + 1, new)
     ELSE [text EXCEPT ![CHOOSE i \in existing : \A j \in existing : i <= j] = new]

-----------------------------------------------------------------------------
(* Choosing an encoder.  hw is the set of what ffmpeg can encode with on     *)
(* this machine, as its probes find out: render nodes and codecs.            *)

\* /dev/dri, sorted; there is none on Windows.
RenderNodes(platform) ==
  IF platform = "linux" THEN <<"renderD128", "renderD129">> ELSE <<>>

NoBackend == [codec |-> "none", node |-> ""]
Backend(codec, node) == [codec |-> codec, node |-> node]

\* node_can_encode, and nvenc_encodes and its like: a probe encodes a few frames.
NodeCanEncode(node, hw) == node \in hw
Encodes(codec, hw) == codec \in hw

\* working_vaapi_node: the configured node if it can encode, else the first
\* that can.
WorkingVaapiNode(configured, platform, hw) ==
  IF configured # "" /\ NodeCanEncode(configured, hw) THEN configured
  ELSE LET nodes == SelectSeq(RenderNodes(platform), LAMBDA n : NodeCanEncode(n, hw))
       IN IF nodes = <<>> THEN "" ELSE Head(nodes)

\* pinned_backend, which also says whether a backend of the automatic order
\* works.
PinnedBackend(cfg, codec, platform, hw) ==
  IF codec = "h264_vaapi"
  THEN LET n == WorkingVaapiNode(cfg.node, platform, hw)
       IN IF n = "" THEN NoBackend ELSE Backend(codec, n)
  ELSE IF codec \in SelectableCodecs \ {AutoCodec} /\ Encodes(codec, hw)
       THEN Backend(codec, "") ELSE NoBackend

AutoOrder(platform) ==
  IF platform = "linux" THEN <<"h264_vaapi", "h264_nvenc", "libx264">>
  ELSE <<"h264_qsv", "h264_nvenc", "h264_amf", "libx264">>

AutoBackend(cfg, platform, hw) ==
  LET ok == SelectSeq(AutoOrder(platform), LAMBDA c :
              PinnedBackend(cfg, c, platform, hw) # NoBackend)
  IN IF ok = <<>> THEN NoBackend
                  ELSE PinnedBackend(cfg, Head(ok), platform, hw)

\* resolved_encode_backend: a pin that works, else the first of the order.
ResolvedEncodeBackend(cfg, platform, hw) ==
  LET pinned == IF cfg.codec \in {"", AutoCodec} THEN NoBackend
                ELSE PinnedBackend(cfg, cfg.codec, platform, hw)
  IN IF pinned # NoBackend THEN pinned ELSE AutoBackend(cfg, platform, hw)

\* probe_backends: what --list-encoders offers.
ProbeBackends(cfg, platform, hw) ==
  {c \in SelectableCodecs \ {AutoCodec} :
     PinnedBackend(cfg, c, platform, hw) # NoBackend}
=============================================================================
