--------------------------- MODULE NoiseLinkProofs ---------------------------
(***************************************************************************)
(* The encrypted connection delivers complete messages, once and in order, *)
(* and fails only when it is cut, whatever the sizes, the bounds and the   *)
(* interleaving of the two directions: NoiseLink implements MessageQueue.  *)
(*                                                                         *)
(* The inductive invariant follows the chunks of one direction from the    *)
(* sender's list over the wire to the frame in the reader's hand: their    *)
(* nonces are consecutive from the one that is due (Places), and a chunk   *)
(* with the next nonce goes on where the one before it ends (Chain).       *)
(***************************************************************************)
EXTENDS NoiseLink, TLAPS

USE DEF HeaderLen

-----------------------------------------------------------------------------
(* Chunks. *)

\* Rounding up a division: q chunks of c bytes cover m bytes, q - 1 do not.
LEMMA Multiples ==
  ASSUME NEW c \in Nat \ {0}, NEW i \in Nat, NEW j \in Nat, i <= j
  PROVE  i * c \in Nat /\ i * c <= j * c /\ (i + 1) * c = i * c + c
<1>1. i * c \in Nat /\ j * c \in Nat
  OBVIOUS
<1>2. PICK d \in Nat : j = i + d
  <2>1. j - i \in Nat /\ j = i + (j - i)
    OBVIOUS
  <2>2. QED
    BY <2>1
<1>3. j * c = i * c + d * c /\ d * c \in Nat
  BY <1>2
<1>4. QED
  BY <1>1, <1>3

LEMMA RoundedUp ==
  ASSUME NEW c \in Nat \ {0}, NEW m \in Nat \ {0}
  PROVE  LET q == (m + c - 1) \div c
         IN q \in Nat \ {0} /\ m <= q * c /\ (q - 1) * c < m
<1> DEFINE q == (m + c - 1) \div c
<1>1. q \in Nat /\ q * c <= m + c - 1 /\ m + c - 1 < (q + 1) * c
  BY Z3
<1>2. q # 0
  BY <1>1
<1>3. (q + 1) * c = q * c + c /\ q * c = (q - 1) * c + c
  BY <1>1, <1>2, Multiples
<1>4. QED
  BY <1>1, <1>2, <1>3

\* The chunks of message k, of n bytes, encrypted from nonce z on: they carry
\* the message without a gap, the first one the whole length field.
ChunksOf(c, k, n, z) ==
  /\ c \in Seq(Frame) /\ Len(c) = ChunkCount(n) /\ ChunkCount(n) \in Nat \ {0}
  /\ \A i \in 1..Len(c) :
       /\ c[i].nonce + 1 = z + i /\ c[i].msg = k
       /\ c[i].from < c[i].upto /\ c[i].upto <= HeaderLen + n
       /\ c[i].upto - c[i].from + TagLen <= NoiseMsgMax
       /\ c[i].from = 0 => i = 1 /\ c[i].upto >= HeaderLen
       /\ i = 1 => c[i].from = 0
       /\ i = Len(c) <=> c[i].upto = HeaderLen + n
  /\ \A i \in 1..Len(c) - 1 : c[i + 1].from = c[i].upto

LEMMA ChunksFit ==
  ASSUME NEW k \in Nat, NEW n \in Sizes, NEW z \in Nat
  PROVE  ChunksOf(ChunkAndEncrypt(k, n, z), k, n, z)
<1> USE LinkAssumption DEF LinkAssumption
<1> DEFINE m == HeaderLen + n
           q == ChunkCount(n)
           c == ChunkAndEncrypt(k, n, z)
<1>1. n \in Nat \ {0} /\ m \in Nat \ {0} /\ ChunkMax \in Nat \ {0}
  OBVIOUS
<1>2. q \in Nat \ {0} /\ m <= q * ChunkMax /\ (q - 1) * ChunkMax < m
  BY <1>1, RoundedUp DEF ChunkCount
<1>3. ASSUME NEW i \in 1..q
      PROVE  /\ (i - 1) * ChunkMax \in Nat /\ (i - 1) * ChunkMax < m
             /\ i * ChunkMax = (i - 1) * ChunkMax + ChunkMax
             /\ i = q <=> i * ChunkMax >= m
             /\ i > 1 => (i - 1) * ChunkMax > 0
             /\ i = 1 => (i - 1) * ChunkMax = 0
  <2>1. /\ (i - 1) * ChunkMax \in Nat /\ (i - 1) * ChunkMax <= (q - 1) * ChunkMax
        /\ i * ChunkMax = (i - 1) * ChunkMax + ChunkMax
    <3>1. i - 1 \in Nat /\ q - 1 \in Nat /\ i - 1 <= q - 1 /\ (i - 1) + 1 = i
      BY <1>2
    <3>2. QED
      BY <1>1, <3>1, Multiples
  <2>2. i < q => i * ChunkMax <= (q - 1) * ChunkMax
    <3>1. i < q => i \in Nat /\ q - 1 \in Nat /\ i <= q - 1
      BY <1>2
    <3>2. QED
      BY <1>1, <3>1, Multiples
  <2>3. i > 1 => 1 * ChunkMax <= (i - 1) * ChunkMax
    <3>1. i > 1 => 1 \in Nat /\ i - 1 \in Nat /\ 1 <= i - 1
      OBVIOUS
    <3>2. QED
      BY <1>1, <3>1, Multiples
  <2>4. 1 * ChunkMax = ChunkMax /\ i * ChunkMax \in Nat /\ (q - 1) * ChunkMax \in Nat
        /\ q * ChunkMax \in Nat
    BY <1>1, <1>2
  <2>5. QED
    BY <1>1, <1>2, <2>1, <2>2, <2>3, <2>4
<1>4. ASSUME NEW i \in 1..q
      PROVE  /\ c[i] \in Frame /\ c[i].nonce = z + i - 1 /\ c[i].msg = k
             /\ c[i].from = (i - 1) * ChunkMax
             /\ c[i].upto = IF i * ChunkMax < m THEN i * ChunkMax ELSE m
  <2> DEFINE f == (i - 1) * ChunkMax
             u == IF i * ChunkMax < m THEN i * ChunkMax ELSE m
  <2>1. c[i] = [nonce |-> z + i - 1, msg |-> k, from |-> f, upto |-> u]
    BY DEF ChunkAndEncrypt, Chunk
  <2>2. f \in Nat /\ u \in Nat /\ z + i - 1 \in Nat
    BY <1>1, <1>2, <1>3
  <2> HIDE DEF f, u, c, q
  <2>3. QED
    BY <2>1, <2>2 DEF Frame, f, u
<1>5. c \in Seq(Frame) /\ Len(c) = q
  <2>1. \A i \in 1..q : c[i] \in Frame
    BY <1>4
  <2>2. c = [i \in 1..q |-> c[i]]
    BY DEF ChunkAndEncrypt
  <2>3. q \in Nat
    BY <1>2
  <2> HIDE DEF c, q
  <2>4. c \in [1..q -> Frame]
    BY <2>1, <2>2
  <2>5. QED
    BY <2>3, <2>4
<1> HIDE DEF c, q
<1>6. ASSUME NEW i \in 1..q
      PROVE  /\ c[i].nonce + 1 = z + i /\ c[i].msg = k
             /\ c[i].from < c[i].upto /\ c[i].upto <= HeaderLen + n
             /\ c[i].upto - c[i].from + TagLen <= NoiseMsgMax
             /\ c[i].from = 0 => i = 1 /\ c[i].upto >= HeaderLen
             /\ i = 1 => c[i].from = 0
             /\ i = q <=> c[i].upto = HeaderLen + n
  BY <1>1, <1>2, <1>3, <1>4
<1>7. ASSUME NEW i \in 1..q - 1
      PROVE  c[i + 1].from = c[i].upto
  <2>1. i \in 1..q /\ i + 1 \in 1..q /\ i # q /\ (i + 1) - 1 = i
    BY <1>2
  <2>2. QED
    BY <2>1, <1>1, <1>3, <1>4
<1>8. QED
  BY <1>2, <1>5, <1>6, <1>7 DEF ChunksOf, c, q

-----------------------------------------------------------------------------
(* The invariant. *)

Open == turns["host"] = 2 /\ turns["client"] = 2

\* Before both ends have finished the handshake there is no data, and a
\* handshake message only where one is due.
Setup ==
  /\ <<turns["client"], turns["host"]>> \in
       {<<0, 0>>, <<1, 0>>, <<1, 1>>, <<1, 2>>, <<2, 2>>}
  /\ ~Open =>
       /\ \A e \in End : /\ sent[e] = <<>> /\ frames[e] = <<>>
                         /\ nOut[e] = 0 /\ nIn[e] = 0
                         /\ acc[e] = Nothing /\ received[e] = <<>>
                         /\ reader[e] \notin {"framed", "locked"}
       /\ wire["client"] # <<>> => turns["host"] = 0 /\ Len(wire["client"]) = 1
       /\ wire["host"] # <<>> => turns["host"] = 2 /\ Len(wire["host"]) = 1
       /\ turns["client"] = 0 => wire["client"] = <<>>

\* Errors and halves of frames come from the cut, which leaves nothing to write.
Faults ==
  \A e \in End : /\ half[e] => link = "cut"
                 /\ reader[e] = "error" => link = "cut"
                 /\ link = "cut" => frames[e] = <<>>

Held(e) == IF reader[e] \in {"framed", "locked"} THEN 1 ELSE 0

\* The nonces of what is under way to e count on from the one that is due.
Places(e) ==
  LET s == Peer(e)
      ahead == nIn[e] + Held(e)
  IN /\ Held(e) = 1 => cbuf[e].nonce = nIn[e]
     /\ \A i \in 1..Len(wire[s]) : wire[s][i].nonce + 1 = ahead + i
     /\ \A i \in 1..Len(frames[s]) :
          frames[s][i].nonce + 1 = ahead + Len(wire[s]) + i
     /\ ahead + Len(wire[s]) + Len(frames[s]) <= nOut[s]
     /\ link # "cut" => ahead + Len(wire[s]) + Len(frames[s]) = nOut[s]

InFlight(e) ==
  {wire[Peer(e)][i] : i \in 1..Len(wire[Peer(e)])}
    \cup {frames[Peer(e)][i] : i \in 1..Len(frames[Peer(e)])}
    \cup {f \in {cbuf[e]} : Held(e) = 1}

Whole(s, f) == f.upto = HeaderLen + sent[s][f.msg]

Good(s, f) ==
  /\ f \in Frame /\ f.nonce < nOut[s] /\ f.msg \in 1..Len(sent[s])
  /\ f.from < f.upto /\ f.upto <= HeaderLen + sent[s][f.msg]
  /\ f.upto - f.from + TagLen <= NoiseMsgMax
  /\ f.from = 0 => f.upto >= HeaderLen
  /\ f.nonce + 1 = nOut[s] => Whole(s, f) /\ f.msg = Len(sent[s])

Due(e, f) ==
  /\ f.msg = Len(received[e]) + 1
  /\ \/ acc[e] = Nothing /\ f.from = 0
     \/ /\ f.from >= HeaderLen
        /\ acc[e] = [want |-> sent[Peer(e)][f.msg], got |-> f.from - HeaderLen,
                     of |-> f.msg]

Follows(s, f, g) ==
  IF Whole(s, f) THEN g.msg = f.msg + 1 /\ g.from = 0
                 ELSE g.msg = f.msg /\ g.from = f.upto

Chain(e) ==
  LET s == Peer(e)
  IN /\ \A f \in InFlight(e) : Good(s, f) /\ (f.nonce = nIn[e] => Due(e, f))
     /\ \A f, g \in InFlight(e) : g.nonce = f.nonce + 1 => Follows(s, f, g)
     /\ nIn[e] = nOut[s] => acc[e] = Nothing /\ Len(received[e]) = Len(sent[s])

Inv ==
  /\ TypeOK
  /\ Setup
  /\ Faults
  /\ InOrder
  /\ Open => \A e \in End : Places(e) /\ Chain(e)

LEMMA Ends ==
  /\ End = {"host", "client"} /\ "host" # "client"
  /\ Peer("host") = "client" /\ Peer("client") = "host"
  /\ \A e \in End : Peer(e) \in End /\ Peer(e) # e /\ Peer(Peer(e)) = e
BY DEF End, Peer

LEMMA InitInv == Init => Inv
<1> SUFFICES ASSUME Init PROVE Inv
  OBVIOUS
<1>1. TypeOK
  BY DEF Init, TypeOK, Nothing, NoChunk, Frame
<1>2. Setup /\ Faults /\ InOrder /\ ~Open
  BY DEF Init, Setup, Faults, InOrder, Open, End, Peer
<1>3. QED
  BY <1>1, <1>2 DEF Inv

-----------------------------------------------------------------------------
(* Types. *)

\* What is in the hand of a reader is a good chunk.
LEMMA InHand ==
  ASSUME Inv, NEW e \in End, reader[e] \in {"framed", "locked"}
  PROVE  /\ Open /\ Good(Peer(e), cbuf[e]) /\ Due(e, cbuf[e])
         /\ cbuf[e].nonce = nIn[e] /\ cbuf[e] \in InFlight(e)
<1>1. Open
  BY DEF Inv, Setup
<1>2. Held(e) = 1 /\ cbuf[e] \in InFlight(e)
  BY DEF Held, InFlight
<1>3. QED
  BY <1>1, <1>2 DEF Inv, Places, Chain

LEMMA TypeStep ==
  ASSUME Inv, [Next]_vars
  PROVE  TypeOK'
<1>1. /\ turns \in [End -> 0..2] /\ sent \in [End -> Seq(Sizes)]
      /\ frames \in [End -> Seq(Frame)] /\ wire \in [End -> Seq(Frame)]
      /\ nOut \in [End -> Nat] /\ nIn \in [End -> Nat]
      /\ reader \in [End -> {"waiting", "framed", "locked", "clean", "error"}]
      /\ cbuf \in [End -> Frame] /\ received \in [End -> Seq(Nat)]
      /\ acc \in [End -> [want : Nat, got : Nat, of : Nat]]
      /\ NoChunk \in Frame /\ TypeOK
  BY DEF Inv, TypeOK, NoChunk, Frame
<1>2. \A e \in End : Peer(e) \in End
  BY Ends
<1>3. ASSUME NEW e \in End, HandshakeWrite(e) PROVE TypeOK'
  <2>1. turns[e] = 0 \/ turns[e] = 1
    BY <1>3 DEF HandshakeWrite, IsMyTurn
  <2>2. turns' \in [End -> 0..2]
    BY <1>1, <1>3, <2>1 DEF HandshakeWrite
  <2>3. wire' \in [End -> Seq(Frame)]
    BY <1>1, <1>3 DEF HandshakeWrite
  <2>4. QED
    BY <1>1, <1>3, <2>2, <2>3 DEF HandshakeWrite, TypeOK, out, in
<1>4. ASSUME NEW e \in End, HandshakeRead(e) PROVE TypeOK'
  <2>1. turns[e] + 1 \in 0..2
    <3>1. turns[e] \in 0..2 /\ turns[e] < 2
      BY <1>1, <1>4 DEF HandshakeRead
    <3>2. QED
      BY <3>1
  <2>2. turns' \in [End -> 0..2]
    BY <1>1, <1>4, <2>1 DEF HandshakeRead
  <2>3. Tail(wire[Peer(e)]) \in Seq(Frame)
    BY <1>1, <1>2, <1>4 DEF HandshakeRead
  <2>4. wire' \in [End -> Seq(Frame)]
    BY <1>1, <1>2, <1>4, <2>3 DEF HandshakeRead
  <2>5. QED
    BY <1>1, <1>4, <2>2, <2>4 DEF HandshakeRead, TypeOK, out, in
<1>5. ASSUME NEW e \in End, NEW n \in Sizes, SendEncrypted(e, n) PROVE TypeOK'
  <2> DEFINE c == ChunkAndEncrypt(Len(sent[e]) + 1, n, nOut[e])
  <2>1. c \in Seq(Frame) /\ ChunkCount(n) \in Nat
    <3>1. Len(sent[e]) + 1 \in Nat /\ nOut[e] \in Nat
      BY <1>1
    <3>2. ChunksOf(c, Len(sent[e]) + 1, n, nOut[e])
      BY <3>1, ChunksFit
    <3>3. QED
      BY <3>2 DEF ChunksOf
  <2> HIDE DEF c
  <2>2. frames' = [frames EXCEPT ![e] = c \o frames[e]]
    BY <1>1, <1>5 DEF SendEncrypted, c
  <2>3. c \o frames[e] \in Seq(Frame)
    BY <1>1, <2>1
  <2>4. frames' \in [End -> Seq(Frame)]
    BY <1>1, <2>2, <2>3
  <2>5. sent' \in [End -> Seq(Sizes)]
    BY <1>1, <1>5 DEF SendEncrypted
  <2>6. nOut' \in [End -> Nat]
    BY <1>1, <1>5, <2>1 DEF SendEncrypted
  <2>7. QED
    BY <1>1, <1>5, <2>4, <2>5, <2>6 DEF SendEncrypted, TypeOK, in
<1>6. ASSUME NEW e \in End, WriteFrame(e) PROVE TypeOK'
  <2>1. Head(frames[e]) \in Frame /\ Tail(frames[e]) \in Seq(Frame)
    BY <1>1, <1>6 DEF WriteFrame
  <2>2. frames' \in [End -> Seq(Frame)]
    BY <1>1, <1>6, <2>1 DEF WriteFrame
  <2>3. wire' \in [End -> Seq(Frame)]
    BY <1>1, <1>6, <2>1 DEF WriteFrame
  <2>4. QED
    BY <1>1, <1>6, <2>2, <2>3 DEF WriteFrame, TypeOK, in
<1>7. ASSUME NEW e \in End, ReadOneFrame(e) PROVE TypeOK'
  <2>1. Head(wire[Peer(e)]) \in Frame /\ Tail(wire[Peer(e)]) \in Seq(Frame)
    <3>1. wire[Peer(e)] \in Seq(Frame) /\ wire[Peer(e)] # <<>>
      BY <1>1, <1>2, <1>7 DEF ReadOneFrame
    <3>2. QED
      BY <3>1
  <2>2. wire' \in [End -> Seq(Frame)]
    BY <1>1, <1>2, <1>7, <2>1 DEF ReadOneFrame
  <2>3. cbuf' \in [End -> Frame]
    BY <1>1, <1>7, <2>1 DEF ReadOneFrame
  <2>4. reader' \in [End -> {"waiting", "framed", "locked", "clean", "error"}]
    BY <1>1, <1>7 DEF ReadOneFrame
  <2>5. QED
    BY <1>1, <1>7, <2>2, <2>3, <2>4 DEF ReadOneFrame, TypeOK, out
<1>8. ASSUME NEW e \in End, ReadEnd(e) \/ TakeNoise(e) PROVE TypeOK'
  <2>1. reader' \in [End -> {"waiting", "framed", "locked", "clean", "error"}]
    BY <1>1, <1>8 DEF ReadEnd, TakeNoise
  <2>2. QED
    BY <1>1, <1>8, <2>1 DEF ReadEnd, TakeNoise, TypeOK, out
<1>9. ASSUME NEW e \in End, DecryptChunk(e) PROVE TypeOK'
  <2> DEFINE f == cbuf[e]
             a == Push(e, f)
             m == IF a.got = a.want THEN a.of ELSE 0
  <2>1. Good(Peer(e), f) /\ Due(e, f)
    BY <1>9, InHand DEF DecryptChunk
  <2>2. f.msg \in Nat /\ f.from \in Nat /\ f.upto \in Nat /\ f.from < f.upto
    BY <2>1 DEF Good, Frame
  <2>3. sent[Peer(e)][f.msg] \in Nat
    <3>1. sent[Peer(e)] \in Seq(Sizes) /\ f.msg \in 1..Len(sent[Peer(e)])
      BY <1>1, <1>2, <2>1 DEF Good
    <3> HIDE DEF f
    <3>2. sent[Peer(e)][f.msg] \in Sizes
      BY <3>1
    <3>3. QED
      BY <3>2, LinkAssumption DEF LinkAssumption
  <2>4. a \in [want : Nat, got : Nat, of : Nat]
    <3>1. CASE acc[e] = Nothing
      <4>1. f.from = 0 /\ f.upto >= HeaderLen
        BY <2>1, <2>2, <3>1 DEF Good, Due, Nothing
      <4>2. a = [want |-> sent[Peer(e)][f.msg], got |-> f.upto - HeaderLen,
                 of |-> f.msg]
        BY <2>2, <3>1, <4>1 DEF Push
      <4>3. f.upto - HeaderLen \in Nat
        BY <2>2, <4>1
      <4>4. QED
        BY <2>2, <2>3, <4>2, <4>3
    <3>2. CASE acc[e] # Nothing
      <4>1. acc[e] = [want |-> sent[Peer(e)][f.msg], got |-> f.from - HeaderLen,
                      of |-> f.msg]
            /\ f.from >= HeaderLen
        BY <2>1, <3>2 DEF Due
      <4>2. a = [want |-> sent[Peer(e)][f.msg],
                 got |-> f.from - HeaderLen + (f.upto - f.from), of |-> f.msg]
        <5>1. acc[e].want = sent[Peer(e)][f.msg] /\ acc[e].of = f.msg
              /\ acc[e].got = f.from - HeaderLen
          BY <4>1
        <5>2. QED
          BY <3>2, <5>1 DEF Push
      <4>3. f.from - HeaderLen + (f.upto - f.from) \in Nat
        BY <2>2, <4>1
      <4>4. QED
        BY <2>2, <2>3, <4>2, <4>3
    <3>3. QED
      BY <3>1, <3>2
  <2> HIDE DEF a
  <2>5. m \in Nat /\ Nothing \in [want : Nat, got : Nat, of : Nat]
    BY <2>4 DEF Nothing
  <2> HIDE DEF m
  <2>6. /\ \/ acc' = acc
           \/ acc' = [acc EXCEPT ![e] = a]
           \/ acc' = [acc EXCEPT ![e] = Nothing]
        /\ received' = received \/ received' = [received EXCEPT ![e] = Append(@, m)]
    BY <1>9 DEF DecryptChunk, a, m
  <2>7. acc' \in [End -> [want : Nat, got : Nat, of : Nat]]
    BY <1>1, <2>4, <2>5, <2>6
  <2>8. received' \in [End -> Seq(Nat)]
    <3>1. Append(received[e], m) \in Seq(Nat)
      BY <1>1, <2>5
    <3>2. QED
      BY <1>1, <2>6, <3>1
  <2>9. nIn' \in [End -> Nat] /\ cbuf' \in [End -> Frame]
    <3>1. nIn' = nIn \/ nIn' = [nIn EXCEPT ![e] = nIn[e] + 1]
      BY <1>9 DEF DecryptChunk
    <3>2. nIn[e] + 1 \in Nat
      BY <1>1
    <3>3. nIn' \in [End -> Nat]
      BY <1>1, <3>1, <3>2
    <3>4. cbuf' = [cbuf EXCEPT ![e] = NoChunk]
      BY <1>9 DEF DecryptChunk
    <3>5. cbuf' \in [End -> Frame]
      BY <1>1, <3>4
    <3>6. QED
      BY <3>3, <3>5
  <2>10. reader' \in [End -> {"waiting", "framed", "locked", "clean", "error"}]
    BY <1>1, <1>9 DEF DecryptChunk
  <2>11. QED
    BY <1>1, <1>9, <2>7, <2>8, <2>9, <2>10 DEF DecryptChunk, TypeOK, out
<1>10. ASSUME NEW e \in End, CloseRefused(e) PROVE TypeOK'
  BY <1>1, <1>10 DEF CloseRefused, TypeOK, out, in
<1>11. CASE Cut
  <2>1. PICK kept \in [End -> 0..Window] :
          /\ \A e \in End : kept[e] <= Len(wire[e])
          /\ wire' = [e \in End |-> SubSeq(wire[e], 1, kept[e])]
    BY <1>11 DEF Cut
  <2>2. ASSUME NEW e \in End PROVE SubSeq(wire[e], 1, kept[e]) \in Seq(Frame)
    <3>1. wire[e] \in Seq(Frame) /\ kept[e] \in 0..Len(wire[e])
      BY <1>1, <2>1, LinkAssumption DEF LinkAssumption
    <3>2. \A i \in 1..kept[e] : wire[e][i] \in Frame
      BY <3>1
    <3>3. SubSeq(wire[e], 1, kept[e]) = [i \in 1..kept[e] |-> wire[e][i]]
      BY <3>1
    <3>4. QED
      BY <3>1, <3>2, <3>3
  <2>3. wire' \in [End -> Seq(Frame)]
    BY <2>1, <2>2
  <2>4. frames' \in [End -> Seq(Frame)]
    BY <1>11 DEF Cut
  <2>5. QED
    BY <1>1, <1>11, <2>3, <2>4 DEF Cut, TypeOK, in
<1>12. CASE UNCHANGED vars
  BY <1>1, <1>12 DEF vars, out, in, TypeOK
<1>13. QED
  BY <1>3, <1>4, <1>5, <1>6, <1>7, <1>8, <1>9, <1>10, <1>11, <1>12 DEF Next

-----------------------------------------------------------------------------
(* The handshake, and the errors. *)

LEMMA SetupStep ==
  ASSUME Inv, [Next]_vars
  PROVE  Setup'
<1>1. /\ turns \in [End -> 0..2] /\ sent \in [End -> Seq(Sizes)]
      /\ frames \in [End -> Seq(Frame)] /\ wire \in [End -> Seq(Frame)]
      /\ reader \in [End -> {"waiting", "framed", "locked", "clean", "error"}]
      /\ Setup
  BY DEF Inv, TypeOK
<1>2. CASE Open
  <2>1. turns' = turns
    <3>1. \A e \in End : turns[e] = 2
      BY <1>2 DEF Open, End
    <3>2. \A e \in End : ~HandshakeWrite(e)
      BY <3>1 DEF HandshakeWrite, IsMyTurn
    <3>3. \A e \in End : ~HandshakeRead(e)
      BY <3>1 DEF HandshakeRead
    <3>4. QED
      BY <3>2, <3>3 DEF Next, SendEncrypted, WriteFrame, ReadOneFrame, ReadEnd,
         TakeNoise, DecryptChunk, CloseRefused, Cut, vars
  <2>2. QED
    BY <1>2, <2>1 DEF Open, Setup
<1>3. CASE ~Open
  <2>1. /\ \A e \in End : /\ sent[e] = <<>> /\ frames[e] = <<>> /\ received[e] = <<>>
                          /\ nOut[e] = 0 /\ nIn[e] = 0 /\ acc[e] = Nothing
                          /\ reader[e] \notin {"framed", "locked"}
        /\ wire["client"] # <<>> => turns["host"] = 0 /\ Len(wire["client"]) = 1
        /\ wire["host"] # <<>> => turns["host"] = 2 /\ Len(wire["host"]) = 1
        /\ turns["client"] = 0 => wire["client"] = <<>>
    BY <1>1, <1>3 DEF Setup
  <2>2. CASE UNCHANGED <<turns, wire, out, nIn, acc, received>>
             /\ \A e \in End : reader'[e] \notin {"framed", "locked"}
    BY <1>1, <2>1, <2>2 DEF Setup, Open, out
  <2>3. ASSUME NEW e \in End, HandshakeWrite(e) PROVE Setup'
    BY <1>1, <1>3, <2>1, <2>3, Ends
       DEF HandshakeWrite, IsMyTurn, Setup, Open, out, in
  <2>4. ASSUME NEW e \in End, HandshakeRead(e) PROVE Setup'
    BY <1>1, <1>3, <2>1, <2>4, Ends
       DEF HandshakeRead, IsMyTurn, Setup, Open, out, in
  <2>5. ASSUME NEW e \in End, NEW n \in Sizes, SendEncrypted(e, n) PROVE FALSE
    BY <1>1, <1>3, <2>1, <2>5, Ends DEF SendEncrypted, MaySend, Setup, Open
  <2>6. ASSUME NEW e \in End, ReadOneFrame(e) PROVE FALSE
    BY <1>1, <1>3, <2>1, <2>6, Ends
       DEF ReadOneFrame, Reads, Greeted, Setup, Open
  <2>7. ASSUME NEW e \in End, WriteFrame(e) \/ TakeNoise(e) \/ DecryptChunk(e)
        PROVE FALSE
    BY <2>1, <2>7 DEF WriteFrame, TakeNoise, DecryptChunk
  <2>8. ASSUME NEW e \in End, ReadEnd(e) PROVE Setup'
    BY <1>1, <2>1, <2>2, <2>8 DEF ReadEnd, out
  <2>9. ASSUME NEW e \in End, CloseRefused(e) PROVE Setup'
    BY <2>1, <2>2, <2>9 DEF CloseRefused, in
  <2>10. CASE Cut
    <3>1. PICK kept \in [End -> 0..Window] :
            /\ \A e \in End : kept[e] <= Len(wire[e])
            /\ wire' = [e \in End |-> SubSeq(wire[e], 1, kept[e])]
      BY <2>10 DEF Cut
    <3>2. \A e \in End : /\ Len(wire'[e]) \in 0..Len(wire[e])
                         /\ wire[e] = <<>> => wire'[e] = <<>>
                         /\ wire'[e] # <<>> => Len(wire'[e]) > 0
      <4>1. TAKE e \in End
      <4>2. /\ wire[e] \in Seq(Frame) /\ kept[e] \in 0..Len(wire[e])
            /\ wire'[e] = SubSeq(wire[e], 1, kept[e])
        BY <1>1, <3>1, LinkAssumption DEF LinkAssumption
      <4>3. QED
        BY <4>2
    <3>3. /\ UNCHANGED <<turns, sent, nOut, nIn, acc, received, reader>>
          /\ \A e \in End : frames'[e] = <<>>
      BY <2>10 DEF Cut, in
    <3>4. /\ wire'["client"] # <<>> => Len(wire'["client"]) > 0
                                          /\ Len(wire'["client"]) \in 0..1
          /\ wire'["host"] # <<>> => Len(wire'["host"]) > 0
                                        /\ Len(wire'["host"]) \in 0..1
      BY <2>1, <3>2 DEF End
    <3>5. /\ wire'["client"] # <<>> => Len(wire'["client"]) = 1
          /\ wire'["host"] # <<>> => Len(wire'["host"]) = 1
      BY <3>4
    <3>6. QED
      BY <1>1, <2>1, <3>2, <3>3, <3>4, <3>5 DEF Setup, Open, End
  <2>11. CASE UNCHANGED vars
    BY <2>1, <2>2, <2>11 DEF vars, in
  <2>12. QED
    BY <2>3, <2>4, <2>5, <2>6, <2>7, <2>8, <2>9, <2>10, <2>11 DEF Next
<1>4. QED
  BY <1>2, <1>3

\* A frame that is read is a good one, so its length is accepted.
LEMMA Fits ==
  ASSUME Inv, NEW e \in End, ReadOneFrame(e)
  PROVE  LET f == Head(wire[Peer(e)])
         IN /\ Open /\ f = wire[Peer(e)][1] /\ f \in InFlight(e)
            /\ cbuf' = [cbuf EXCEPT ![e] = f]
            /\ reader' = [reader EXCEPT ![e] = "framed"]
<1> DEFINE w == wire[Peer(e)]
           f == Head(w)
<1>1. w \in Seq(Frame) /\ w # <<>>
  BY Ends DEF Inv, TypeOK, ReadOneFrame
<1>2. f = w[1] /\ 1 \in 1..Len(w)
  BY <1>1
<1>3. Open
  <2>1. turns[e] = 2 /\ (e = "client" \/ received[e] = <<>> \/ Greeted(e))
    BY DEF ReadOneFrame, Reads
  <2>2. ~Open => e = "host" /\ wire["client"] = <<>>
    BY <2>1, Ends DEF Inv, Setup, Open, End
  <2>3. QED
    BY <1>1, <2>2, Ends
<1>4. f \in InFlight(e)
  BY <1>2 DEF InFlight
<1>5. Good(Peer(e), f)
  BY <1>3, <1>4 DEF Inv, Chain
<1>6. f.msg # 0 /\ f.upto - f.from + TagLen <= NoiseMsgMax
  <2>1. f.msg \in 1..Len(sent[Peer(e)])
    BY <1>5 DEF Good
  <2>2. QED
    BY <1>5, <2>1 DEF Good
<1>7. QED
  BY <1>2, <1>3, <1>4, <1>6 DEF ReadOneFrame

\* A chunk in the hand is the one that is due: it decrypts, and completes its
\* message if it is the last of it.
LEMMA Decrypted ==
  ASSUME Inv, NEW e \in End, DecryptChunk(e)
  PROVE  LET f == cbuf[e]
             n == sent[Peer(e)][f.msg]
         IN /\ n \in Nat
            /\ reader' = [reader EXCEPT ![e] = "waiting"]
            /\ nIn' = [nIn EXCEPT ![e] = nIn[e] + 1]
            /\ Whole(Peer(e), f) =>
                 /\ received' = [received EXCEPT ![e] = Append(received[e], f.msg)]
                 /\ acc' = [acc EXCEPT ![e] = Nothing]
            /\ ~Whole(Peer(e), f) =>
                 /\ received' = received
                 /\ acc' = [acc EXCEPT ![e] = [want |-> n, of |-> f.msg,
                                               got |-> f.upto - HeaderLen]]
<1> DEFINE f == cbuf[e]
           n == sent[Peer(e)][f.msg]
           a == Push(e, f)
           m == IF a.got = a.want THEN a.of ELSE 0
<1>1. Good(Peer(e), f) /\ Due(e, f) /\ f.nonce = nIn[e]
  BY InHand DEF DecryptChunk
<1>2. /\ f.msg \in Nat /\ f.from \in Nat /\ f.upto \in Nat /\ f.from < f.upto
      /\ f.upto <= HeaderLen + n /\ (f.from = 0 => f.upto >= HeaderLen)
  BY <1>1 DEF Good, Frame
<1>3. n \in Nat
  <2>1. n \in Sizes
    <3>1. f.msg \in 1..Len(sent[Peer(e)])
      BY <1>1 DEF Good
    <3>2. sent[Peer(e)] \in Seq(Sizes)
      BY Ends DEF Inv, TypeOK
    <3> HIDE DEF f
    <3>3. QED
      BY <3>1, <3>2
  <2>2. QED
    BY <2>1, LinkAssumption DEF LinkAssumption
<1>4. /\ a = [want |-> n, of |-> f.msg, got |-> f.upto - HeaderLen]
      /\ acc[e] = Nothing => f.upto - f.from >= HeaderLen
  <2>1. CASE acc[e] = Nothing
    <3>1. f.from = 0
      BY <1>1, <1>2, <2>1 DEF Due, Nothing
    <3>2. QED
      BY <1>2, <2>1, <3>1 DEF Push
  <2>2. CASE acc[e] # Nothing
    <3>1. acc[e].want = n /\ acc[e].of = f.msg /\ acc[e].got = f.from - HeaderLen
      BY <1>1, <2>2 DEF Due
    <3>2. acc[e].got + (f.upto - f.from) = f.upto - HeaderLen
      BY <1>2, <3>1
    <3>3. QED
      BY <2>2, <3>1, <3>2 DEF Push
  <2>3. QED
    BY <2>1, <2>2
<1>5. /\ reader' = [reader EXCEPT ![e] = "waiting"]
      /\ nIn' = [nIn EXCEPT ![e] = nIn[e] + 1]
      /\ Complete(a) => /\ received' = [received EXCEPT ![e] = Append(received[e], m)]
                        /\ acc' = [acc EXCEPT ![e] = Nothing]
      /\ ~Complete(a) => acc' = [acc EXCEPT ![e] = a] /\ received' = received
  <2>1. ~(f.nonce # nIn[e] \/ (acc[e] = Nothing /\ f.upto - f.from < HeaderLen))
    BY <1>1, <1>2, <1>4
  <2> HIDE DEF f, a, m
  <2>2. QED
    BY <2>1 DEF DecryptChunk, f, a, m
<1>6. /\ Complete(a) <=> Whole(Peer(e), f)
      /\ Complete(a) => m = f.msg
  <2> HIDE DEF n
  <2>1. a.got = f.upto - HeaderLen /\ a.want = n /\ a.of = f.msg
    BY <1>4
  <2> HIDE DEF a, f
  <2>2. QED
    BY <1>2, <1>3, <2>1 DEF Complete, Whole, n
<1> HIDE DEF a, m
<1>7. QED
  BY <1>3, <1>4, <1>5, <1>6

LEMMA FaultsStep ==
  ASSUME Inv, [Next]_vars
  PROVE  Faults'
<1>1. /\ reader \in [End -> {"waiting", "framed", "locked", "clean", "error"}]
      /\ half \in [End -> BOOLEAN] /\ frames \in [End -> Seq(Frame)] /\ Faults
  BY DEF Inv, TypeOK
<1>2. ASSUME NEW e \in End, HandshakeWrite(e) \/ HandshakeRead(e) PROVE Faults'
  BY <1>1, <1>2 DEF HandshakeWrite, HandshakeRead, Faults, out, in
<1>3. ASSUME NEW e \in End, NEW n \in Sizes, SendEncrypted(e, n) PROVE Faults'
  BY <1>1, <1>3 DEF SendEncrypted, Faults, in
<1>4. ASSUME NEW e \in End, WriteFrame(e) PROVE Faults'
  BY <1>1, <1>4 DEF WriteFrame, Faults, in
<1>5. ASSUME NEW e \in End, ReadOneFrame(e) PROVE Faults'
  <2>1. reader' = [reader EXCEPT ![e] = "framed"]
    BY <1>5, Fits
  <2>2. UNCHANGED <<link, frames, half>>
    BY <1>5 DEF ReadOneFrame, out
  <2>3. QED
    BY <1>1, <2>1, <2>2 DEF Faults
<1>6. ASSUME NEW e \in End, ReadEnd(e) \/ TakeNoise(e) PROVE Faults'
  BY <1>1, <1>6, Ends DEF ReadEnd, TakeNoise, Faults, out
<1>7. ASSUME NEW e \in End, DecryptChunk(e) PROVE Faults'
  <2>1. reader' = [reader EXCEPT ![e] = "waiting"]
    BY <1>7, Decrypted
  <2>2. UNCHANGED <<link, frames, half>>
    BY <1>7 DEF DecryptChunk, out
  <2>3. QED
    BY <1>1, <2>1, <2>2 DEF Faults
<1>8. ASSUME NEW e \in End, CloseRefused(e) PROVE Faults'
  BY <1>1, <1>8 DEF CloseRefused, Faults, out, in
<1>9. CASE Cut
  BY <1>1, <1>9 DEF Cut, Faults
<1>10. CASE UNCHANGED vars
  BY <1>1, <1>10 DEF vars, Faults, out, in
<1>11. QED
  BY <1>2, <1>3, <1>4, <1>5, <1>6, <1>7, <1>8, <1>9, <1>10 DEF Next

LEMMA InOrderStep ==
  ASSUME Inv, [Next]_vars
  PROVE  InOrder'
<1>1. /\ sent \in [End -> Seq(Sizes)] /\ received \in [End -> Seq(Nat)] /\ InOrder
  BY DEF Inv, TypeOK
<1>2. ASSUME NEW e \in End, NEW n \in Sizes, SendEncrypted(e, n) PROVE InOrder'
  <2>1. /\ received' = received
        /\ \A x \in End : Len(sent'[x]) \in Nat /\ Len(sent[x]) <= Len(sent'[x])
    BY <1>1, <1>2 DEF SendEncrypted, in
  <2>2. QED
    BY <1>1, <2>1, Ends DEF InOrder
<1>3. ASSUME NEW e \in End, DecryptChunk(e) PROVE InOrder'
  <2> DEFINE f == cbuf[e]
  <2>1. Good(Peer(e), f) /\ Due(e, f)
    BY <1>3, InHand DEF DecryptChunk
  <2>2. f.msg = Len(received[e]) + 1 /\ f.msg <= Len(sent[Peer(e)])
    BY <1>1, <2>1, Ends DEF Good, Due
  <2>3. \/ received' = received
        \/ received' = [received EXCEPT ![e] = Append(received[e], f.msg)]
    BY <1>3, Decrypted
  <2>4. sent' = sent
    BY <1>3 DEF DecryptChunk, out
  <2> HIDE DEF f
  <2>5. ASSUME NEW x \in End
        PROVE  /\ Len(received'[x]) <= Len(sent[Peer(x)])
               /\ \A i \in 1..Len(received'[x]) : received'[x][i] = i
    <3>1. /\ received[x] \in Seq(Nat) /\ Len(received[x]) <= Len(sent[Peer(x)])
          /\ \A i \in 1..Len(received[x]) : received[x][i] = i
      BY <1>1 DEF InOrder
    <3>2. \/ received'[x] = received[x]
          \/ x = e /\ received'[x] = Append(received[x], f.msg)
      BY <1>1, <2>3
    <3>3. QED
      BY <2>2, <3>1, <3>2
  <2>6. QED
    BY <2>4, <2>5 DEF InOrder
<1>4. CASE UNCHANGED <<sent, received>>
  BY <1>1, <1>4 DEF InOrder
<1>5. QED
  BY <1>2, <1>3, <1>4
     DEF Next, HandshakeWrite, HandshakeRead, WriteFrame, ReadOneFrame, ReadEnd,
         TakeNoise, CloseRefused, Cut, vars, out, in

-----------------------------------------------------------------------------
(* The chunks under way. *)

\* Chain(e) survives when chunks move or are lost and nothing is delivered.
LEMMA Narrower ==
  ASSUME NEW e \in End, Chain(e), InFlight(e)' \subseteq InFlight(e),
         nIn'[e] = nIn[e], nOut'[Peer(e)] = nOut[Peer(e)], acc'[e] = acc[e],
         received'[e] = received[e], sent'[Peer(e)] = sent[Peer(e)]
  PROVE  Chain(e)'
<1> DEFINE s == Peer(e)
<1>1. ASSUME NEW f \in InFlight(e)'
      PROVE  Good(s, f)' /\ (f.nonce = nIn'[e] => Due(e, f)')
  <2>1. Good(s, f) /\ (f.nonce = nIn[e] => Due(e, f))
    BY DEF Chain
  <2>2. QED
    BY <2>1 DEF Good, Due, Whole
<1>2. ASSUME NEW f \in InFlight(e)', NEW g \in InFlight(e)', g.nonce = f.nonce + 1
      PROVE  Follows(s, f, g)'
  <2>1. Follows(s, f, g)
    BY <1>2 DEF Chain
  <2>2. QED
    BY <2>1 DEF Follows, Whole
<1>3. nIn'[e] = nOut'[s] => acc'[e] = Nothing /\ Len(received'[e]) = Len(sent'[s])
  BY DEF Chain
<1>4. QED
  BY <1>1, <1>2, <1>3 DEF Chain

\* A step of the other direction disturbs nothing.
LEMMA Still ==
  ASSUME NEW e \in End, Places(e), Chain(e), Held(e)' = Held(e),
         Held(e) = 1 => cbuf'[e] = cbuf[e], link' = "cut" <=> link = "cut",
         wire'[Peer(e)] = wire[Peer(e)], frames'[Peer(e)] = frames[Peer(e)],
         nIn'[e] = nIn[e], nOut'[Peer(e)] = nOut[Peer(e)], acc'[e] = acc[e],
         received'[e] = received[e], sent'[Peer(e)] = sent[Peer(e)]
  PROVE  Places(e)' /\ Chain(e)'
<1>1. InFlight(e)' \subseteq InFlight(e)
  BY DEF InFlight
<1>2. QED
  BY <1>1, Narrower DEF Places

\* A message is encrypted: its chunks take the next places.
LEMMA SendStep ==
  ASSUME Inv, Open, NEW e \in End, NEW n \in Sizes, SendEncrypted(Peer(e), n)
  PROVE  Places(e)' /\ Chain(e)'
<1> DEFINE s == Peer(e)
           k == Len(sent[s]) + 1
           z == nOut[s]
           c == ChunkAndEncrypt(k, n, z)
<1>1. /\ s \in End /\ sent[s] \in Seq(Sizes) /\ k \in Nat /\ z \in Nat
      /\ wire[s] \in Seq(Frame) /\ nIn[e] \in Nat /\ Held(e) \in {0, 1}
  <2>1. /\ s \in End /\ sent[s] \in Seq(Sizes) /\ z \in Nat
        /\ wire[s] \in Seq(Frame) /\ nIn[e] \in Nat
    BY Ends DEF Inv, TypeOK
  <2>2. k \in Nat
    BY <2>1
  <2>3. QED
    BY <2>1, <2>2 DEF Held
<1>2. ChunksOf(c, k, n, z)
  BY <1>1, ChunksFit
<1> HIDE DEF c
<1>3. /\ c \in Seq(Frame) /\ Len(c) = ChunkCount(n) /\ ChunkCount(n) \in Nat \ {0}
      /\ \A i \in 1..Len(c) :
           /\ c[i] \in Frame /\ c[i].nonce + 1 = z + i /\ c[i].msg = k
           /\ c[i].from < c[i].upto /\ c[i].upto <= HeaderLen + n
           /\ c[i].upto - c[i].from + TagLen <= NoiseMsgMax
           /\ c[i].from = 0 => i = 1 /\ c[i].upto >= HeaderLen
           /\ i = 1 => c[i].from = 0
           /\ i = Len(c) <=> c[i].upto = HeaderLen + n
      /\ \A i \in 1..Len(c) - 1 : c[i + 1].from = c[i].upto
  BY <1>2 DEF ChunksOf
<1>4. frames[s] = <<>> /\ link = "open" /\ link' = "open"
  BY DEF SendEncrypted, MaySend
<1>5. /\ frames'[s] = c /\ nOut'[s] = z + Len(c)
      /\ sent'[s] = Append(sent[s], n)
  <2>1. /\ frames' = [frames EXCEPT ![s] = c \o <<>>]
        /\ nOut' = [nOut EXCEPT ![s] = z + Len(c)]
        /\ sent' = [sent EXCEPT ![s] = Append(sent[s], n)]
    BY <1>1, <1>3, <1>4 DEF SendEncrypted, c
  <2>2. c \o <<>> = c
    BY <1>3
  <2>3. QED
    BY <1>1, <2>1, <2>2 DEF Inv, TypeOK
<1>6. /\ UNCHANGED <<wire, nIn, reader, cbuf, acc, received>>
      /\ Held(e)' = Held(e)
  BY DEF SendEncrypted, in, Held
<1>7. Places(e) /\ Chain(e)
  BY DEF Inv
<1>8. nIn[e] + Held(e) + Len(wire[s]) = z
  BY <1>1, <1>4, <1>7 DEF Places
<1>9. Places(e)'
  <2>1. \A i \in 1..Len(c) : c[i].nonce + 1 = nIn[e] + Held(e) + Len(wire[s]) + i
    BY <1>3, <1>8
  <2>2. z + Len(c) = nIn[e] + Held(e) + Len(wire[s]) + Len(c)
    BY <1>8
  <2>3. QED
    BY <1>1, <1>3, <1>5, <1>6, <1>7, <2>1, <2>2 DEF Places
<1>10. InFlight(e)' = InFlight(e) \cup {c[i] : i \in 1..Len(c)}
  BY <1>4, <1>5, <1>6 DEF InFlight
<1>11. ASSUME NEW f \in InFlight(e)
       PROVE  /\ Good(s, f) /\ f.nonce \in Nat /\ f.nonce < z
              /\ f.msg \in 1..Len(sent[s]) /\ sent'[s][f.msg] = sent[s][f.msg]
              /\ f.nonce = nIn[e] => Due(e, f)
  <2>1. Good(s, f) /\ (f.nonce = nIn[e] => Due(e, f))
    BY <1>7 DEF Chain
  <2>2. f.nonce \in Nat /\ f.nonce < z /\ f.msg \in 1..Len(sent[s])
    BY <2>1 DEF Good, Frame
  <2>3. sent'[s][f.msg] = sent[s][f.msg]
    BY <1>1, <1>5, <2>2
  <2>4. QED
    BY <2>1, <2>2, <2>3
<1>12. Len(sent'[s]) = k /\ sent'[s][k] = n /\ k > Len(sent[s])
  BY <1>1, <1>5
<1>13. ASSUME NEW f \in InFlight(e)
       PROVE  Good(s, f)' /\ (f.nonce = nIn'[e] => Due(e, f)')
  <2>1. f.msg \in 1..Len(sent'[s]) /\ f.nonce < nOut'[s] /\ f.nonce + 1 # nOut'[s]
    BY <1>1, <1>3, <1>5, <1>11, <1>12
  <2>2. Good(s, f)'
    BY <1>11, <2>1 DEF Good
  <2>3. QED
    BY <1>6, <1>11, <2>2 DEF Due
<1>14. ASSUME NEW i \in 1..Len(c), NEW f, f = c[i]
       PROVE  Good(s, f)' /\ (f.nonce = nIn'[e] => Due(e, f)')
  <2>1. /\ f \in Frame /\ f.nonce + 1 = z + i /\ f.msg = k
        /\ f.from < f.upto /\ f.upto <= HeaderLen + n
        /\ f.upto - f.from + TagLen <= NoiseMsgMax
        /\ f.from = 0 => f.upto >= HeaderLen
        /\ i = 1 => f.from = 0
        /\ i = Len(c) => f.upto = HeaderLen + n
        /\ i \in Nat /\ i >= 1 /\ i <= Len(c) /\ Len(c) \in Nat
    BY <1>3, <1>14
  <2>2. f.nonce \in Nat /\ k \in 1..Len(sent'[s])
    BY <1>1, <1>12, <2>1 DEF Frame
  <2>3. f.nonce < nOut'[s] /\ (f.nonce + 1 = nOut'[s] => i = Len(c))
    BY <1>1, <1>5, <2>1, <2>2
  <2>4. Good(s, f)'
    BY <1>12, <2>1, <2>2, <2>3 DEF Good, Whole
  <2>5. ASSUME f.nonce = nIn[e] PROVE Due(e, f)'
    <3>1. i = 1 /\ nIn[e] = z
      <4>1. Len(wire[s]) \in Nat /\ z \in Nat
        BY <1>1
      <4>2. /\ f.nonce + 1 = z + i /\ i \in Nat /\ i >= 1 /\ f.nonce = nIn[e]
            /\ nIn[e] \in Nat /\ (Held(e) = 0 \/ Held(e) = 1)
        BY <1>1, <2>1, <2>5
      <4> HIDE DEF z, s
      <4>3. QED
        BY <1>8, <4>1, <4>2
    <3>2. acc[e] = Nothing /\ Len(received[e]) = Len(sent[s])
      BY <1>7, <3>1 DEF Chain
    <3>3. QED
      BY <1>6, <2>1, <3>1, <3>2 DEF Due
  <2>6. QED
    BY <1>6, <2>4, <2>5
<1>15. ASSUME NEW f \in InFlight(e)', NEW g \in InFlight(e)', g.nonce = f.nonce + 1
       PROVE  Follows(s, f, g)'
  <2>1. CASE f \in InFlight(e) /\ g \in InFlight(e)
    <3>1. Follows(s, f, g)
      BY <1>7, <1>15, <2>1 DEF Chain
    <3>2. QED
      BY <1>11, <2>1, <3>1 DEF Follows, Whole
  <2>2. ASSUME f \in InFlight(e), NEW i \in 1..Len(c), g = c[i]
        PROVE  Follows(s, f, g)'
    <3>1. i = 1 /\ f.nonce + 1 = z
      BY <1>1, <1>3, <1>11, <1>15, <2>2
    <3>2. f.msg = Len(sent[s]) /\ Whole(s, f)
      BY <1>11, <2>2, <3>1 DEF Good
    <3>3. Whole(s, f)'
      BY <1>11, <2>2, <3>2 DEF Whole
    <3>4. QED
      BY <1>3, <2>2, <3>1, <3>2, <3>3 DEF Follows
  <2>3. ASSUME NEW i \in 1..Len(c), f = c[i], g \in InFlight(e)
        PROVE  FALSE
    BY <1>1, <1>3, <1>11, <1>15, <2>3
  <2>4. ASSUME NEW i \in 1..Len(c), NEW j \in 1..Len(c), f = c[i], g = c[j]
        PROVE  Follows(s, f, g)'
    <3>1. j = i + 1 /\ i \in 1..Len(c) - 1 /\ i # Len(c)
      <4>1. /\ c[i].nonce + 1 = z + i /\ c[j].nonce + 1 = z + j
            /\ c[i].nonce \in Nat /\ c[j].nonce \in Nat
        BY <1>3, <2>4 DEF Frame
      <4>2. Len(c) \in Nat /\ i \in 1..Len(c) /\ j \in 1..Len(c)
        BY <1>3, <2>4
      <4>3. c[j].nonce = c[i].nonce + 1
        BY <1>15, <2>4
      <4>4. z \in Nat
        BY <1>1
      <4> HIDE DEF z
      <4>5. i \in Nat /\ j \in Nat
        BY <4>2
      <4>6. j = i + 1
        <5>1. \A a, b, x, y, t \in Nat :
                a + 1 = t + x /\ b + 1 = t + y /\ b = a + 1 => y = x + 1
          OBVIOUS
        <5>2. QED
          BY <4>1, <4>3, <4>4, <4>5, <5>1
      <4>7. QED
        BY <4>2, <4>6
    <3>2. ~Whole(s, f)'
      BY <1>3, <1>12, <2>4, <3>1 DEF Whole
    <3>3. QED
      BY <1>3, <2>4, <3>1, <3>2 DEF Follows
  <2>5. QED
    BY <1>10, <2>1, <2>2, <2>3, <2>4
<1>16. nIn'[e] # nOut'[s]
  <2>1. /\ nIn[e] \in Nat /\ Len(wire[s]) \in Nat /\ (Held(e) = 0 \/ Held(e) = 1)
        /\ Len(c) \in Nat \ {0}
    BY <1>1, <1>3
  <2>2. nIn[e] < z + Len(c)
    BY <1>8, <2>1
  <2>3. QED
    BY <1>5, <1>6, <2>1, <2>2
<1>17. Chain(e)'
  <2>1. \A f \in InFlight(e)' : Good(s, f)' /\ (f.nonce = nIn'[e] => Due(e, f)')
    BY <1>10, <1>13, <1>14
  <2>2. QED
    BY <1>15, <1>16, <2>1 DEF Chain
<1>18. QED
  BY <1>9, <1>17

\* A chunk is consumed: the next one becomes due.
LEMMA DecryptStep ==
  ASSUME Inv, Open, NEW e \in End, DecryptChunk(e)
  PROVE  Places(e)' /\ Chain(e)'
<1> DEFINE s == Peer(e)
           f == cbuf[e]
           n == sent[s][f.msg]
<1>1. /\ s \in End /\ s # e /\ nIn \in [End -> Nat] /\ nIn[e] \in Nat
      /\ reader \in [End -> {"waiting", "framed", "locked", "clean", "error"}]
      /\ acc \in [End -> [want : Nat, got : Nat, of : Nat]]
      /\ received \in [End -> Seq(Nat)]
  BY Ends DEF Inv, TypeOK
<1>2. /\ Good(s, f) /\ Due(e, f) /\ f.nonce = nIn[e] /\ f \in InFlight(e)
      /\ Places(e) /\ Chain(e)
  BY InHand DEF DecryptChunk, Inv
<1>3. /\ f.msg \in Nat /\ f.from \in Nat /\ f.upto \in Nat /\ f.from < f.upto
      /\ (f.from = 0 => f.upto >= HeaderLen) /\ f.msg = Len(received[e]) + 1
      /\ f.from = 0 \/ f.from >= HeaderLen
  BY <1>2 DEF Good, Due, Frame
<1>4. /\ UNCHANGED <<wire, frames, nOut, sent, link>>
      /\ nIn'[e] = nIn[e] + 1 /\ Held(e) = 1 /\ Held(e)' = 0
  <2>1. UNCHANGED <<wire, frames, nOut, sent, link>> /\ Held(e) = 1
    BY DEF DecryptChunk, Held, out
  <2>2. reader'[e] = "waiting" /\ nIn'[e] = nIn[e] + 1
    BY <1>1, Decrypted
  <2>3. QED
    BY <2>1, <2>2 DEF Held
<1> DEFINE Next1 == \A g \in InFlight(e) : g.nonce = nIn[e] + 1 => Due(e, g)'
           Empty1 == nIn[e] + 1 = nOut[s] =>
                       acc'[e] = Nothing /\ Len(received'[e]) = Len(sent[s])
<1>5. ASSUME Whole(s, f) PROVE Next1 /\ Empty1
  <2>1. received'[e] = Append(received[e], f.msg) /\ acc'[e] = Nothing
    BY <1>1, <1>5, Decrypted
  <2>2. Len(received'[e]) = f.msg
    BY <1>1, <1>3, <2>1
  <2>3. ASSUME NEW g \in InFlight(e), g.nonce = nIn[e] + 1
        PROVE  Due(e, g)'
    <3>1. Follows(s, f, g)
      BY <1>2, <2>3 DEF Chain
    <3>2. g.msg = f.msg + 1 /\ g.from = 0
      BY <1>5, <3>1 DEF Follows
    <3>3. QED
      BY <2>1, <2>2, <3>2 DEF Due
  <2>4. nIn[e] + 1 = nOut[s] => f.msg = Len(sent[s])
    BY <1>2 DEF Good
  <2> HIDE DEF f
  <2>5. QED
    BY <2>1, <2>2, <2>3, <2>4
<1>6. ASSUME ~Whole(s, f) PROVE Next1 /\ Empty1
  <2>1. /\ received'[e] = received[e]
        /\ acc'[e] = [want |-> n, of |-> f.msg, got |-> f.upto - HeaderLen]
    BY <1>1, <1>6, Decrypted
  <2>2. f.upto >= HeaderLen
    BY <1>3
  <2>3. ASSUME NEW g \in InFlight(e), g.nonce = nIn[e] + 1
        PROVE  Due(e, g)'
    <3>1. Follows(s, f, g)
      BY <1>2, <2>3 DEF Chain
    <3>2. g.msg = f.msg /\ g.from = f.upto
      BY <1>6, <3>1 DEF Follows
    <3> DEFINE h == f.msg
               u == f.upto
    <3>3. /\ acc'[e] = [want |-> sent[s][h], of |-> h, got |-> u - HeaderLen]
          /\ u >= HeaderLen /\ g.msg = h /\ g.from = u /\ sent' = sent
          /\ h = Len(received'[e]) + 1
      BY <1>3, <1>4, <2>1, <2>2, <3>2
    <3> HIDE DEF h, u, f
    <3>4. QED
      BY <3>3 DEF Due
  <2>4. nIn[e] + 1 # nOut[s]
    BY <1>2, <1>6 DEF Good
  <2>5. QED
    BY <2>3, <2>4
<1>7. Next1 /\ Empty1
  BY <1>5, <1>6
<1>8. Places(e)'
  BY <1>1, <1>2, <1>4 DEF Places
<1>9. InFlight(e)' \subseteq InFlight(e)
  BY <1>4 DEF InFlight
<1>10. \A g \in InFlight(e)' : Good(s, g)' /\ (g.nonce = nIn'[e] => Due(e, g)')
  <2>1. \A g \in InFlight(e)' : Good(s, g)
    BY <1>2, <1>9 DEF Chain
  <2>2. \A g : Good(s, g) => Good(s, g)'
    BY <1>4 DEF Good, Whole
  <2>3. QED
    BY <1>4, <1>7, <1>9, <2>1, <2>2
<1>11. \A g, h \in InFlight(e)' : h.nonce = g.nonce + 1 => Follows(s, g, h)'
  BY <1>2, <1>4, <1>9 DEF Chain, Follows, Whole
<1>12. Chain(e)'
  BY <1>4, <1>7, <1>10, <1>11 DEF Chain
<1>13. QED
  BY <1>8, <1>12

\* A frame goes from the writer's list to the wire.
LEMMA WriteStep ==
  ASSUME Inv, Open, NEW e \in End, WriteFrame(Peer(e))
  PROVE  Places(e)' /\ Chain(e)'
<1> DEFINE s == Peer(e)
           w == wire[s]
           q == frames[s]
<1>1. /\ s \in End /\ w \in Seq(Frame) /\ q \in Seq(Frame) /\ q # <<>>
      /\ nIn[e] \in Nat /\ nOut[s] \in Nat /\ Held(e) \in {0, 1}
      /\ Places(e) /\ Chain(e)
  BY Ends DEF Inv, TypeOK, WriteFrame, Held
<1>2. wire'[s] = Append(w, q[1]) /\ frames'[s] = Tail(q)
  BY <1>1 DEF WriteFrame, Inv, TypeOK
<1>3. /\ UNCHANGED <<link, sent, nOut, nIn, reader, cbuf, acc, received>>
      /\ Held(e)' = Held(e)
  BY DEF WriteFrame, in, Held
<1>4. /\ Len(Append(w, q[1])) = Len(w) + 1 /\ Len(w) \in Nat
      /\ \A i \in 1..Len(w) + 1 :
           Append(w, q[1])[i] = IF i = Len(w) + 1 THEN q[1] ELSE w[i]
      /\ Len(Tail(q)) = Len(q) - 1 /\ Len(q) \in Nat \ {0}
      /\ \A i \in 1..Len(q) - 1 : Tail(q)[i] = q[i + 1] /\ i + 1 \in 1..Len(q)
      /\ 1 \in 1..Len(q)
  BY <1>1
<1> DEFINE v == Append(w, q[1])
           r == Tail(q)
           ahead == nIn[e] + Held(e)
<1>5. /\ \A i \in 1..Len(w) : w[i].nonce + 1 = ahead + i
      /\ \A i \in 1..Len(q) : q[i].nonce + 1 = ahead + Len(w) + i
      /\ ahead + Len(w) + Len(q) <= nOut[s]
      /\ link # "cut" => ahead + Len(w) + Len(q) = nOut[s]
      /\ ahead \in Nat
  BY <1>1 DEF Places
<1> HIDE DEF v, r, ahead, w, q
<1>6. \A i \in 1..Len(v) : v[i].nonce + 1 = ahead + i
  <2>1. TAKE i \in 1..Len(v)
  <2>2. CASE i = Len(w) + 1
    <3>1. v[i] = q[1] /\ q[1].nonce + 1 = ahead + Len(w) + 1
      BY <1>4, <1>5, <2>2 DEF v
    <3>2. QED
      BY <1>4, <1>5, <2>2, <3>1
  <2>3. CASE i # Len(w) + 1
    BY <1>4, <1>5, <2>3 DEF v
  <2>4. QED
    BY <2>2, <2>3
<1>7. \A i \in 1..Len(r) : r[i].nonce + 1 = ahead + Len(v) + i
  <2>1. TAKE i \in 1..Len(r)
  <2>2. r[i] = q[i + 1] /\ q[i + 1].nonce + 1 = ahead + Len(w) + (i + 1)
    BY <1>4, <1>5 DEF r
  <2>3. QED
    BY <1>4, <1>5, <2>2 DEF v
<1>8. ahead + Len(v) + Len(r) = ahead + Len(w) + Len(q)
  BY <1>4, <1>5 DEF v, r
<1>9. Places(e)'
  <2>1. wire'[s] = v /\ frames'[s] = r
    BY <1>2 DEF v, r, w, q
  <2>2. ahead = nIn[e] + Held(e) /\ (Held(e) = 1 => cbuf[e].nonce = nIn[e])
    BY <1>1 DEF Places, ahead
  <2>3. QED
    BY <1>3, <1>5, <1>6, <1>7, <1>8, <2>1, <2>2 DEF Places
<1>10. InFlight(e)' \subseteq InFlight(e)
  BY <1>2, <1>3, <1>4 DEF InFlight, w, q
<1>11. QED
  BY <1>1, <1>3, <1>9, <1>10, Narrower

\* A frame goes from the wire to the hand of the reader.
LEMMA ReadStep ==
  ASSUME Inv, Open, NEW e \in End, ReadOneFrame(e)
  PROVE  Places(e)' /\ Chain(e)'
<1> DEFINE s == Peer(e)
           w == wire[s]
           q == frames[s]
<1>1. /\ s \in End /\ w \in Seq(Frame) /\ q \in Seq(Frame) /\ w # <<>>
      /\ nIn[e] \in Nat /\ nOut[s] \in Nat
      /\ Places(e) /\ Chain(e)
  BY Ends DEF Inv, TypeOK, ReadOneFrame
<1>2. Held(e) = 0 /\ Held(e)' = 1 /\ cbuf'[e] = w[1]
  <2>1. reader[e] = "waiting" /\ reader'[e] = "framed" /\ cbuf'[e] = w[1]
    BY Fits DEF Inv, TypeOK, ReadOneFrame, Reads
  <2>2. QED
    BY <2>1 DEF Held
<1>3. /\ UNCHANGED <<link, sent, nOut, nIn, frames, acc, received>>
      /\ wire'[s] = Tail(w)
  BY <1>1 DEF ReadOneFrame, out, Inv, TypeOK
<1>4. /\ Len(Tail(w)) = Len(w) - 1 /\ Len(w) \in Nat \ {0} /\ Len(q) \in Nat
      /\ \A i \in 1..Len(w) - 1 : Tail(w)[i] = w[i + 1] /\ i + 1 \in 1..Len(w)
      /\ 1 \in 1..Len(w) /\ w[1] \in Frame
  BY <1>1
<1>5. /\ \A i \in 1..Len(w) : w[i].nonce + 1 = nIn[e] + i
      /\ \A i \in 1..Len(q) : q[i].nonce + 1 = nIn[e] + Len(w) + i
      /\ nIn[e] + Len(w) + Len(q) <= nOut[s]
      /\ link # "cut" => nIn[e] + Len(w) + Len(q) = nOut[s]
  BY <1>1, <1>2, <1>4 DEF Places
<1> DEFINE r == Tail(w)
<1>6. w[1].nonce = nIn[e]
  <2>1. w[1].nonce \in Nat /\ w[1].nonce + 1 = nIn[e] + 1
    BY <1>4, <1>5 DEF Frame
  <2>2. QED
    BY <1>1, <2>1
<1> HIDE DEF r, w, q
<1>7. \A i \in 1..Len(r) : r[i].nonce + 1 = nIn[e] + 1 + i
  <2>1. TAKE i \in 1..Len(r)
  <2>2. r[i] = w[i + 1] /\ w[i + 1].nonce + 1 = nIn[e] + (i + 1)
    BY <1>4, <1>5 DEF r
  <2>3. i \in Nat /\ nIn[e] \in Nat
    BY <1>1
  <2>4. QED
    BY <2>2, <2>3
<1>8. nIn[e] + 1 + Len(r) = nIn[e] + Len(w)
  BY <1>1, <1>4 DEF r
<1>9. Places(e)'
  <2>1. wire'[s] = r /\ frames'[s] = q /\ nIn'[e] = nIn[e] /\ nOut'[s] = nOut[s]
        /\ link' = link
    BY <1>3 DEF r, q
  <2>2. QED
    BY <1>2, <1>5, <1>6, <1>7, <1>8, <2>1 DEF Places
<1>10. InFlight(e)' \subseteq InFlight(e)
  BY <1>2, <1>3, <1>4 DEF InFlight, w, q
<1>11. QED
  BY <1>1, <1>3, <1>9, <1>10, Narrower

\* The cut loses the frames from some point on.
LEMMA CutStep ==
  ASSUME Inv, Open, NEW e \in End, Cut
  PROVE  Places(e)' /\ Chain(e)'
<1> DEFINE s == Peer(e)
<1>1. /\ s \in End /\ wire[s] \in Seq(Frame) /\ frames[s] \in Seq(Frame)
      /\ nIn[e] \in Nat /\ nOut[s] \in Nat /\ Held(e) \in {0, 1}
      /\ Places(e) /\ Chain(e)
  BY Ends DEF Inv, TypeOK, Held
<1>2. PICK kept \in [End -> 0..Window] :
        /\ \A x \in End : kept[x] <= Len(wire[x])
        /\ wire' = [x \in End |-> SubSeq(wire[x], 1, kept[x])]
  BY DEF Cut
<1>3. /\ kept[s] \in 0..Len(wire[s]) /\ wire'[s] = SubSeq(wire[s], 1, kept[s])
      /\ frames'[s] = <<>> /\ link' = "cut"
  BY <1>1, <1>2, LinkAssumption DEF LinkAssumption, Cut
<1>4. /\ Len(wire'[s]) = kept[s]
      /\ \A i \in 1..kept[s] : wire'[s][i] = wire[s][i] /\ i \in 1..Len(wire[s])
      /\ Len(frames'[s]) = 0 /\ Len(wire[s]) \in Nat /\ Len(frames[s]) \in Nat
  BY <1>1, <1>3
<1>5. /\ UNCHANGED <<sent, nOut, nIn, reader, cbuf, acc, received>>
      /\ Held(e)' = Held(e)
  BY DEF Cut, in, Held
<1>6. nIn[e] + Held(e) + Len(wire'[s]) + Len(frames'[s]) <= nOut[s]
  <2>1. nIn[e] + Held(e) + Len(wire[s]) + Len(frames[s]) <= nOut[s]
    BY <1>1 DEF Places
  <2>2. kept[s] \in Nat /\ kept[s] <= Len(wire[s])
    BY <1>3, <1>4
  <2>3. nIn[e] + Held(e) + kept[s] + 0 <= nOut[s]
    <3>1. nIn[e] \in Nat /\ nOut[s] \in Nat /\ (Held(e) = 0 \/ Held(e) = 1)
          /\ Len(wire[s]) \in Nat /\ Len(frames[s]) \in Nat
      BY <1>1, <1>4
    <3>2. \A a, b, c, d, k, n \in Nat :
            a + b + c + d <= n /\ k <= c => a + b + k + 0 <= n
      OBVIOUS
    <3> HIDE DEF s
    <3>3. QED
      BY <2>1, <2>2, <3>1, <3>2
  <2>4. QED
    BY <1>4, <2>3
<1>7. Places(e)'
  <2>1. \A i \in 1..Len(wire'[s]) : wire'[s][i].nonce + 1 = nIn[e] + Held(e) + i
    BY <1>1, <1>4 DEF Places
  <2>2. Held(e) = 1 => cbuf[e].nonce = nIn[e]
    BY <1>1 DEF Places
  <2>3. \A i \in 1..Len(frames'[s]) : FALSE
    BY <1>4
  <2>4. QED
    BY <1>3, <1>5, <1>6, <2>1, <2>2, <2>3 DEF Places
<1>8. InFlight(e)' \subseteq InFlight(e)
  BY <1>4, <1>5 DEF InFlight
<1>9. QED
  BY <1>1, <1>5, <1>7, <1>8, Narrower

LEMMA PathStep ==
  ASSUME Inv, Open, [Next]_vars, NEW e \in End
  PROVE  Places(e)' /\ Chain(e)'
<1> DEFINE s == Peer(e)
<1>1. /\ Places(e) /\ Chain(e) /\ s \in End /\ s # e
      /\ \A x \in End : (x = e \/ x = s) /\ turns[x] = 2
      /\ Peer(s) = e
  BY DEF Inv, Open, End, Peer
<1>2. /\ wire \in [End -> Seq(Frame)] /\ frames \in [End -> Seq(Frame)]
      /\ sent \in [End -> Seq(Sizes)] /\ received \in [End -> Seq(Nat)]
      /\ nIn \in [End -> Nat] /\ nOut \in [End -> Nat] /\ cbuf \in [End -> Frame]
      /\ reader \in [End -> {"waiting", "framed", "locked", "clean", "error"}]
      /\ acc \in [End -> [want : Nat, got : Nat, of : Nat]]
  BY DEF Inv, TypeOK
<1>3. ASSUME NEW x \in End, HandshakeWrite(x) \/ HandshakeRead(x)
      PROVE  FALSE
  BY <1>1, <1>3 DEF HandshakeWrite, HandshakeRead, IsMyTurn
<1>4. ASSUME NEW x \in End, NEW n \in Sizes, SendEncrypted(x, n)
      PROVE  Places(e)' /\ Chain(e)'
  <2>1. CASE x = s
    BY <1>4, <2>1, SendStep
  <2>2. CASE x = e
    BY <1>1, <1>2, <1>4, <2>2, Still DEF SendEncrypted, Held, in
  <2>3. QED
    BY <1>1, <2>1, <2>2
<1>5. ASSUME NEW x \in End, WriteFrame(x) PROVE Places(e)' /\ Chain(e)'
  <2>1. CASE x = s
    BY <1>5, <2>1, WriteStep
  <2>2. CASE x = e
    BY <1>1, <1>2, <1>5, <2>2, Still DEF WriteFrame, Held, in
  <2>3. QED
    BY <1>1, <2>1, <2>2
<1>6. ASSUME NEW x \in End, ReadOneFrame(x) PROVE Places(e)' /\ Chain(e)'
  <2>1. CASE x = e
    BY <1>6, <2>1, ReadStep
  <2>2. CASE x = s
    BY <1>1, <1>2, <1>6, <2>2, Still DEF ReadOneFrame, Held, out
  <2>3. QED
    BY <1>1, <2>1, <2>2
<1>7. ASSUME NEW x \in End, ReadEnd(x) \/ TakeNoise(x)
      PROVE  Places(e)' /\ Chain(e)'
  BY <1>1, <1>2, <1>7, Still DEF ReadEnd, TakeNoise, Reads, Held, out
<1>8. ASSUME NEW x \in End, DecryptChunk(x) PROVE Places(e)' /\ Chain(e)'
  <2>1. CASE x = e
    BY <1>8, <2>1, DecryptStep
  <2>2. CASE x = s
    <3>1. UNCHANGED <<link, wire, out>> /\ cbuf'[e] = cbuf[e]
      BY <1>1, <1>2, <1>8, <2>2 DEF DecryptChunk
    <3>2. reader'[e] = reader[e] /\ nIn'[e] = nIn[e]
      <4>1. /\ reader' = [reader EXCEPT ![x] = "waiting"]
            /\ nIn' = [nIn EXCEPT ![x] = nIn[x] + 1]
        BY <1>8, Decrypted
      <4>2. QED
        BY <1>1, <1>2, <2>2, <4>1
    <3>3. received'[e] = received[e] /\ acc'[e] = acc[e]
      <4>1. /\ \E m : \/ received' = received
                      \/ received' = [received EXCEPT ![x] = m]
            /\ \E a : acc' = [acc EXCEPT ![x] = a]
        BY <1>8, Decrypted
      <4>2. QED
        BY <1>1, <1>2, <2>2, <4>1
    <3>4. QED
      BY <1>1, <3>1, <3>2, <3>3, Still DEF Held, out
  <2>3. QED
    BY <1>1, <2>1, <2>2
<1>9. ASSUME NEW x \in End, CloseRefused(x) PROVE Places(e)' /\ Chain(e)'
  BY <1>1, <1>9, Still DEF CloseRefused, Held, out, in
<1>10. CASE Cut
  BY <1>10, CutStep
<1>11. CASE UNCHANGED vars
  BY <1>1, <1>11, Still DEF vars, Held, out, in
<1>12. QED
  BY <1>3, <1>4, <1>5, <1>6, <1>7, <1>8, <1>9, <1>10, <1>11 DEF Next

\* When the client has read the last message of the handshake nothing is
\* under way.
LEMMA OpenStep ==
  ASSUME Inv, ~Open, [Next]_vars, Open', NEW e \in End
  PROVE  Places(e)' /\ Chain(e)'
<1> DEFINE s == Peer(e)
<1>1. TypeOK /\ Setup /\ s \in End
  BY Ends DEF Inv
<1>2. /\ turns["host"] = 2 /\ turns["client"] = 1 /\ HandshakeRead("client")
  <2>1. \E x \in End : HandshakeWrite(x) \/ HandshakeRead(x)
    BY DEF Open, Next, SendEncrypted, WriteFrame, ReadOneFrame, ReadEnd,
       TakeNoise, DecryptChunk, CloseRefused, Cut, vars
  <2>2. PICK x \in End : HandshakeWrite(x) \/ HandshakeRead(x)
    BY <2>1
  <2>3. turns' = [turns EXCEPT ![x] = turns[x] + 1]
    BY <2>2 DEF HandshakeWrite, HandshakeRead
  <2>4. turns["host"] = 2 /\ turns["client"] = 1 /\ x = "client"
    BY <2>3, Ends DEF Inv, TypeOK, Setup, Open
  <2>5. ~HandshakeWrite("client")
    BY <2>4 DEF HandshakeWrite, IsMyTurn
  <2>6. QED
    BY <2>2, <2>4, <2>5
<1>3. \A x \in End : Len(wire'[x]) = 0
  <2>1. wire["client"] = <<>> /\ (wire["host"] # <<>> => Len(wire["host"]) = 1)
    BY <1>2 DEF Inv, Setup, Open
  <2>2. wire' = [wire EXCEPT !["host"] = Tail(wire["host"])] /\ wire["host"] # <<>>
    BY <1>2, Ends DEF HandshakeRead
  <2>3. wire["host"] \in Seq(Frame) /\ wire \in [End -> Seq(Frame)]
    BY Ends DEF Inv, TypeOK
  <2>4. Len(Tail(wire["host"])) = 0
    BY <2>1, <2>2, <2>3
  <2>5. QED
    BY <2>1, <2>2, <2>3, <2>4, Ends
<1>4. UNCHANGED <<link, out, half, in>>
  BY <1>2 DEF HandshakeRead
<1>5. /\ frames'[s] = <<>> /\ sent'[s] = <<>> /\ nOut'[s] = 0 /\ nIn'[e] = 0
      /\ acc'[e] = Nothing /\ received'[e] = <<>> /\ Held(e)' = 0
      /\ Len(wire'[s]) = 0
  BY <1>1, <1>3, <1>4 DEF Setup, Held, out, in
<1>6. InFlight(e)' = {}
  BY <1>5 DEF InFlight
<1>7. QED
  BY <1>5, <1>6 DEF Places, Chain

LEMMA InvStep == Inv /\ [Next]_vars => Inv'
<1> SUFFICES ASSUME Inv, [Next]_vars PROVE Inv'
  OBVIOUS
<1>1. Open' => \A e \in End : Places(e)' /\ Chain(e)'
  BY PathStep, OpenStep
<1>2. QED
  BY <1>1, TypeStep, SetupStep, FaultsStep, InOrderStep DEF Inv

LEMMA Invariance == Spec => []Inv
<1>1. QED
  BY InitInv, InvStep, PTL DEF Spec

-----------------------------------------------------------------------------
(* The theorems. *)

\* The variables of the encrypted connection keep their types: in particular a
\* count of bytes is never negative (chunk lengths in noise.rs).
THEOREM TypeCorrect == Spec => []TypeOK
<1>1. Inv => TypeOK
  BY DEF Inv
<1>2. QED
  BY <1>1, Invariance, PTL

\* Whatever the sizes of the messages and of the chunks, and however the two
\* directions interleave, messages arrive whole, once and in order, also when
\* the connection breaks (chunk_and_encrypt, Reassembler).
THEOREM Delivers == Spec => []InOrder
<1>1. Inv => InOrder
  BY DEF Inv
<1>2. QED
  BY <1>1, Invariance, PTL

\* Between honest ends the two nonce counters never part, no chunk is out of
\* range and no length field is split: a reader fails only when the connection
\* broke (read_one_frame, decrypt_chunk, Reassembler::push).
THEOREM Unbroken == Spec => []OnlyACutIsAnError
<1>1. Inv => OnlyACutIsAnError
  BY DEF Inv, Faults, OnlyACutIsAnError
<1>2. QED
  BY <1>1, Invariance, PTL

\* Every step of the connection is a step of the queue of messages, or none.
LEMMA StepMaps == Inv /\ [Next]_vars => [Queue!Next]_Queue!qvars
<1> SUFFICES ASSUME Inv, [Next]_vars PROVE [Queue!Next]_Queue!qvars
  OBVIOUS
<1>1. Queue!End = End /\ \A e \in End : Queue!Peer(e) = Peer(e)
  BY DEF Queue!End, End, Queue!Peer, Peer
<1>2. ASSUME NEW e \in End, NEW n \in Sizes, SendEncrypted(e, n)
      PROVE  Queue!Send(e, n)
  BY <1>2 DEF SendEncrypted, Queue!Send, in
<1>3. ASSUME NEW e \in End, DecryptChunk(e)
      PROVE  Queue!Deliver(e) \/ UNCHANGED Queue!qvars
  <2> DEFINE f == cbuf[e]
  <2>1. UNCHANGED <<sent, link>>
    BY <1>3 DEF DecryptChunk, out
  <2>2. \/ received' = received
        \/ received' = [received EXCEPT ![e] = Append(received[e], f.msg)]
    BY <1>3, Decrypted
  <2>3. f.msg = Len(received[e]) + 1 /\ f.msg \in 1..Len(sent[Peer(e)])
    BY <1>3, InHand DEF DecryptChunk, Good, Due
  <2>4. Len(received[e]) \in Nat /\ Len(sent[Peer(e)]) \in Nat
    <3>1. received[e] \in Seq(Nat) /\ sent[Peer(e)] \in Seq(Sizes)
      BY Ends DEF Inv, TypeOK
    <3>2. QED
      BY <3>1
  <2> HIDE DEF f
  <2>5. Len(received[e]) < Len(sent[Peer(e)])
    BY <2>3, <2>4
  <2>6. QED
    BY <1>1, <2>1, <2>2, <2>3, <2>5 DEF Queue!Deliver, Queue!qvars
<1>4. ASSUME Cut \/ \E e \in End : CloseRefused(e)
      PROVE  Queue!Close
  BY <1>4 DEF Cut, CloseRefused, Queue!Close, out, in
<1>5. CASE UNCHANGED <<sent, received, link>>
  BY <1>5 DEF Queue!qvars
<1>6. ASSUME NEW e \in End,
             \/ HandshakeWrite(e) \/ HandshakeRead(e) \/ WriteFrame(e)
             \/ ReadOneFrame(e) \/ ReadEnd(e) \/ TakeNoise(e)
      PROVE  UNCHANGED <<sent, received, link>>
  BY <1>6 DEF HandshakeWrite, HandshakeRead, WriteFrame, ReadOneFrame, ReadEnd,
              TakeNoise, out, in
<1>7. QED
  BY <1>1, <1>2, <1>3, <1>4, <1>5, <1>6 DEF Next, Queue!Next, vars, out, in

\* The encrypted connection implements the queue of whole messages that the
\* sessions are written against (send_encrypted and recv_encrypted).
THEOREM Refines == Spec => Implements
<1>1. Init => Queue!Init
  BY DEF Init, Queue!Init, Queue!End, End
<1>2. QED
  BY <1>1, StepMaps, Invariance, PTL DEF Spec, Implements, Queue!Spec
=============================================================================
