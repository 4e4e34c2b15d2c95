--------------------------- MODULE NegotiationProofs ---------------------------
(***************************************************************************)
(* What is proved of the negotiation, for any phone, laptop screen and     *)
(* number of choices: the wire first (a message is read as it was meant),  *)
(* then the clamping of a preset, then the invariant of the two ends and   *)
(* what follows from it.                                                   *)
(***************************************************************************)
EXTENDS Negotiation, FiniteSetTheorems, SequenceTheorems, TLAPS

-----------------------------------------------------------------------------
(* The wire: what is written of a message is read back. *)

\* A set of numbers that has 0 and the successors of its members has all.
LEMMA Induction ==
  ASSUME NEW S \in SUBSET Nat, 0 \in S, \A n \in S : n + 1 \in S
  PROVE  S = Nat
<1> DEFINE T == Nat \ S
<1>1. ASSUME T # {} PROVE FALSE
  <2>1. PICK m \in T : \A k \in T : <<k, m>> \notin OpToRel(<, Nat)
    BY <1>1, NatLessThanWellFounded, WFMin
  <2>2. \A k \in T : ~(k < m)
    BY <2>1 DEF OpToRel
  <2>3. m # 0 /\ m \in Nat
    BY <2>1
  <2>4. m - 1 \in Nat /\ m - 1 < m /\ (m - 1) + 1 = m
    BY <2>3
  <2>5. m - 1 \in S
    BY <2>2, <2>4
  <2> QED
    BY <2>1, <2>4, <2>5
<1> QED
  BY <1>1

\* Written is the function its recursive definition describes.
LEMMA WrittenIs ==
  ASSUME NEW L, Len(L) \in Nat, NEW body, NEW i \in 0..Len(L)
  PROVE  Written(L, body)[i] =
           IF i = 0 THEN <<>>
           ELSE Written(L, body)[i - 1] \o Put(L[i].type, body[L[i].name])
<1> DEFINE P(j) == Put(L[j].type, body[L[j].name])
           Upto(n, f) == f = [j \in 0..n |-> IF j = 0 THEN <<>> ELSE f[j - 1] \o P(j)]
           S == {n \in Nat : \E f : Upto(n, f)}
<1> HIDE DEF P
<1>1. 0 \in S
  <2>1. Upto(0, [j \in 0..0 |-> <<>>])
    OBVIOUS
  <2> QED
    BY <2>1
<1>2. ASSUME NEW n \in S PROVE n + 1 \in S
  <2>1. PICK f : Upto(n, f)
    BY <1>2
  <2> DEFINE g == [j \in 0..(n + 1) |-> IF j = n + 1 THEN f[n] \o P(n + 1) ELSE f[j]]
  <2>2. n \in Nat /\ n + 1 \in Nat
    BY <1>2
  <2>3. ASSUME NEW j \in 0..(n + 1)
        PROVE  g[j] = IF j = 0 THEN <<>> ELSE g[j - 1] \o P(j)
    <3>1. CASE j = n + 1
      <4>1. j # 0 /\ j - 1 = n /\ n \in 0..(n + 1) /\ n # n + 1
        BY <2>2, <3>1
      <4>2. g[n] = f[n]
        BY <4>1
      <4>3. n + 1 \in 0..(n + 1)
        BY <2>2
      <4>4. g[n + 1] = f[n] \o P(n + 1)
        BY <4>3, Zenon
      <4> QED
        BY <3>1, <4>1, <4>2, <4>4
    <3>2. CASE j # n + 1
      <4>1. j \in 0..n /\ (j # 0 => j - 1 \in 0..n /\ j - 1 # n + 1)
        BY <2>2, <3>2
      <4>2. f[j] = IF j = 0 THEN <<>> ELSE f[j - 1] \o P(j)
        BY <2>1, <4>1
      <4> QED
        BY <2>2, <4>1, <4>2
    <3> QED
      BY <3>1, <3>2
  <2>4. Upto(n + 1, g)
    BY <2>3
  <2> QED
    BY <2>2, <2>4
<1>3. S = Nat
  <2> HIDE DEF S
  <2> QED
    BY <1>1, <1>2, Induction DEF S
<1>4. \E f : Upto(Len(L), f)
  BY <1>3
<1>5. Upto(Len(L), CHOOSE f : Upto(Len(L), f))
  BY <1>4
<1>6. Written(L, body) = CHOOSE f : Upto(Len(L), f)
  BY DEF Written, P
<1>7. Upto(Len(L), Written(L, body))
  BY <1>5, <1>6
<1> QED
  BY <1>7 DEF P

LEMMA WrittenNext ==
  ASSUME NEW L, Len(L) \in Nat, NEW body, NEW i \in 0..(Len(L) - 1)
  PROVE  Written(L, body)[i + 1] =
           Written(L, body)[i] \o Put(L[i + 1].type, body[L[i + 1].name])
<1> DEFINE j == i + 1
<1>1. j \in 0..Len(L) /\ j # 0 /\ j - 1 = i
  OBVIOUS
<1> HIDE DEF j
<1>2. Written(L, body)[j] = Written(L, body)[j - 1] \o Put(L[j].type, body[L[j].name])
  BY <1>1, WrittenIs
<1>3. Written(L, body)[j] = Written(L, body)[i] \o Put(L[j].type, body[L[j].name])
  BY <1>1, <1>2
<1> QED
  BY <1>3 DEF j

\* And so is Parsed.
LEMMA ParsedIs ==
  ASSUME NEW L, Len(L) \in Nat, NEW payload, NEW i \in 0..Len(L)
  PROVE  Parsed(L, payload)[i] =
           IF i = 0 THEN Unread(payload) ELSE Fill(Parsed(L, payload)[i - 1], L[i])
<1> DEFINE Upto(n, f) == f = [j \in 0..n |-> IF j = 0 THEN Unread(payload)
                                                    ELSE Fill(f[j - 1], L[j])]
           S == {n \in Nat : \E f : Upto(n, f)}
<1>1. 0 \in S
  <2>1. Upto(0, [j \in 0..0 |-> Unread(payload)])
    OBVIOUS
  <2> QED
    BY <2>1
<1>2. ASSUME NEW n \in S PROVE n + 1 \in S
  <2>1. PICK f : Upto(n, f)
    BY <1>2
  <2> DEFINE g == [j \in 0..(n + 1) |-> IF j = n + 1 THEN Fill(f[n], L[n + 1]) ELSE f[j]]
  <2>2. n \in Nat /\ n + 1 \in Nat
    BY <1>2
  <2>3. ASSUME NEW j \in 0..(n + 1)
        PROVE  g[j] = IF j = 0 THEN Unread(payload) ELSE Fill(g[j - 1], L[j])
    <3>1. CASE j = n + 1
      <4>1. j # 0 /\ j - 1 = n /\ n \in 0..(n + 1) /\ n # n + 1
        BY <2>2, <3>1
      <4>2. g[n] = f[n] /\ g[n + 1] = Fill(f[n], L[n + 1])
        BY <2>2, <4>1
      <4> QED
        BY <3>1, <4>1, <4>2
    <3>2. CASE j # n + 1
      <4>1. j \in 0..n /\ (j # 0 => j - 1 \in 0..n /\ j - 1 # n + 1)
        BY <2>2, <3>2
      <4>2. f[j] = IF j = 0 THEN Unread(payload) ELSE Fill(f[j - 1], L[j])
        BY <2>1, <4>1
      <4> QED
        BY <2>2, <4>1, <4>2
    <3> QED
      BY <3>1, <3>2
  <2>4. Upto(n + 1, g)
    BY <2>3
  <2> QED
    BY <2>2, <2>4
<1>3. S = Nat
  <2> HIDE DEF S
  <2> QED
    BY <1>1, <1>2, Induction DEF S
<1>4. \E f : Upto(Len(L), f)
  BY <1>3
<1>5. Upto(Len(L), CHOOSE f : Upto(Len(L), f))
  BY <1>4
<1>6. Parsed(L, payload) = CHOOSE f : Upto(Len(L), f)
  BY DEF Parsed
<1>7. Upto(Len(L), Parsed(L, payload))
  BY <1>5, <1>6
<1> QED
  BY <1>7

\* What the bytes of the wire are, when they carry values of V.
Types == DOMAIN Width \cup {"str", "rest"}
Parts == Types \cup {"utf8"}
Byte(V) == [type : Parts, of : V, at : Nat]
Readable(L) ==
  /\ \A i \in 1..Len(L) : L[i].type \in Types
  /\ \A i \in 1..Len(L) : L[i].type = "rest" => i = Len(L)
  /\ \A i, j \in 1..Len(L) : L[i].name = L[j].name => i = j
Carries(L, body, V) == \A i \in 1..Len(L) : body[L[i].name] \in V

HasSizes(V) == {0, 2} \subseteq V

LEMMA WidthIs == \A t \in DOMAIN Width : Width[t] \in Nat \ {0}
BY DEF Width

Blank(v) == v = ""
LEMMA SizeIs == \A v : Size(v) \in {0, 2} /\ (Size(v) = 0 => Blank(v))
<1> SUFFICES ASSUME NEW v PROVE Size(v) \in {0, 2} /\ (Size(v) = 0 => Blank(v))
  OBVIOUS
<1>1. CASE Blank(v)
  <2>1. Size(v) = 0
    BY <1>1 DEF Size, Blank
  <2> QED
    BY <1>1, <2>1
<1>2. CASE ~Blank(v)
  <2>1. Size(v) = 2
    BY <1>2 DEF Size, Blank
  <2> QED
    BY <2>1
<1> QED
  BY <1>1, <1>2

\* The bytes of one value.
One(t, v, k) == [type |-> t, of |-> v, at |-> k]
LEMMA OneIs ==
  ASSUME NEW t, NEW v, NEW k
  PROVE  One(t, v, k).type = t /\ One(t, v, k).of = v /\ One(t, v, k).at = k
BY DEF One

LEMMA BytesAre ==
  ASSUME NEW t, NEW v, NEW n \in Nat
  PROVE  /\ Len(Bytes(t, v, n)) = n
         /\ \A k \in 1..n : Bytes(t, v, n)[k] = One(t, v, k)
<1>1. Bytes(t, v, n) = [k \in 1..n |-> One(t, v, k)]
  BY DEF Bytes, One
<1> QED
  BY <1>1

LEMMA BytesType ==
  ASSUME NEW V, NEW v \in V, NEW t \in Parts, NEW n \in Nat
  PROVE  Bytes(t, v, n) \in Seq(Byte(V))
<1>1. \A k \in 1..n : One(t, v, k) \in Byte(V)
  BY DEF Byte, One
<1>2. Bytes(t, v, n) = [k \in 1..n |-> One(t, v, k)]
  BY DEF Bytes, One
<1>3. Bytes(t, v, n) \in [1..n -> Byte(V)]
  BY <1>1, <1>2
<1> QED
  BY <1>3

\* Names for the parts of a string and for the rest of a message.
U32 == "u32"
Utf8 == "utf8"
Str == "str"
Rest == "rest"
LEMMA PartTypes == U32 \in Parts /\ Utf8 \in Parts /\ Rest \in Parts
BY DEF Parts, Types, Width, U32, Utf8, Rest

LEMMA StringParts ==
  ASSUME NEW v
  PROVE  Put(Str, v) = Bytes(U32, Size(v), 4) \o Bytes(Utf8, v, Size(v))
BY DEF Put, U32, Utf8, Str

LEMMA GetOfString ==
  ASSUME NEW bytes
  PROVE  Get(Str, bytes) = LET len == Take(U32, 4, bytes)
                           IN IF len.ok THEN Take(Utf8, len.value, len.rest) ELSE Nothing
BY DEF Get, U32, Utf8, Str

LEMMA RestParts ==
  ASSUME NEW v, NEW bytes
  PROVE  Put(Rest, v) = Bytes(Rest, v, Size(v)) /\ Get(Rest, bytes) = Take(Rest, Len(bytes), bytes)
BY DEF Put, Get, Rest

LEMMA SizeType == \A v : Size(v) \in Nat /\ (Size(v) = 0 => Blank(v))
<1> SUFFICES ASSUME NEW v PROVE Size(v) \in Nat /\ (Size(v) = 0 => Blank(v))
  OBVIOUS
<1>1. Size(v) \in {0, 2} /\ (Size(v) = 0 => Blank(v))
  BY SizeIs
<1> QED
  BY <1>1

LEMMA HeadIs ==
  ASSUME NEW V, HasSizes(V), NEW v
  PROVE  /\ Bytes(U32, Size(v), 4) \in Seq(Byte(V)) /\ Len(Bytes(U32, Size(v), 4)) = 4
         /\ \A k \in 1..4 : Bytes(U32, Size(v), 4)[k] = One(U32, Size(v), k)
<1> DEFINE s == Size(v)
<1>1. s \in V
  BY SizeIs DEF HasSizes
<1> HIDE DEF s
<1>2. Bytes(U32, s, 4) \in Seq(Byte(V))
  BY <1>1, PartTypes, BytesType
<1>3. Len(Bytes(U32, s, 4)) = 4 /\ \A k \in 1..4 : Bytes(U32, s, 4)[k] = One(U32, s, k)
  BY BytesAre
<1> QED
  BY <1>2, <1>3 DEF s

LEMMA TailIs ==
  ASSUME NEW V, NEW v \in V
  PROVE  /\ Bytes(Utf8, v, Size(v)) \in Seq(Byte(V)) /\ Len(Bytes(Utf8, v, Size(v))) = Size(v)
         /\ \A k \in 1..Size(v) : Bytes(Utf8, v, Size(v))[k] = One(Utf8, v, k)
<1>1. Size(v) \in Nat
  BY SizeType
<1>2. Bytes(Utf8, v, Size(v)) \in Seq(Byte(V))
  BY <1>1, PartTypes, BytesType
<1>3. /\ Len(Bytes(Utf8, v, Size(v))) = Size(v)
      /\ \A k \in 1..Size(v) : Bytes(Utf8, v, Size(v))[k] = One(Utf8, v, k)
  BY <1>1, BytesAre
<1> QED
  BY <1>2, <1>3

LEMMA PutType ==
  ASSUME NEW V, HasSizes(V), NEW v \in V, NEW t \in Types
  PROVE  Put(t, v) \in Seq(Byte(V))
<1>1. CASE t = Str
  <2>1. Put(Str, v) \in Seq(Byte(V))
    BY StringParts, HeadIs, TailIs, ConcatProperties
  <2> QED
    BY <1>1, <2>1
<1>2. CASE t = Rest
  <2>1. Put(Rest, v) \in Seq(Byte(V))
    BY RestParts, SizeType, PartTypes, BytesType
  <2> QED
    BY <1>2, <2>1
<1>3. CASE t \in DOMAIN Width
  <2>1. t \notin {"str", "rest"}
    BY <1>3 DEF Width
  <2>2. Put(t, v) = Bytes(t, v, Width[t])
    BY <2>1 DEF Put
  <2>3. t \in Parts
    BY DEF Parts
  <2> QED
    BY <1>3, <2>2, <2>3, BytesType, WidthIs
<1> QED
  BY <1>1, <1>2, <1>3 DEF Types, Str, Rest

\* Reading n bytes that were written as one value, and what is left then.
Left(bytes, k) == SubSeq(bytes, k + 1, Len(bytes))

LEMMA LeftIs ==
  ASSUME NEW S, NEW bytes \in Seq(S), NEW k \in 0..Len(bytes)
  PROVE  /\ Left(bytes, k) \in Seq(S) /\ Len(Left(bytes, k)) = Len(bytes) - k
         /\ \A i \in 1..(Len(bytes) - k) : Left(bytes, k)[i] = bytes[k + i]
         /\ \A n \in 0..(Len(bytes) - k) : Left(Left(bytes, k), n) = Left(bytes, k + n)
<1>1. Len(bytes) \in Nat /\ \A i \in 1..Len(bytes) : bytes[i] \in S
  OBVIOUS
<1>2. ASSUME NEW m \in 0..Len(bytes)
      PROVE  /\ Left(bytes, m) \in Seq(S) /\ Len(Left(bytes, m)) = Len(bytes) - m
             /\ \A i \in 1..(Len(bytes) - m) : Left(bytes, m)[i] = bytes[m + i]
  <2>1. \A i \in (m + 1)..Len(bytes) : bytes[i] \in S
    BY <1>1
  <2>2. m + 1 \in Int /\ Len(bytes) \in Int /\ Len(bytes) - (m + 1) + 1 = Len(bytes) - m
    BY <1>1
  <2>3. /\ Left(bytes, m) \in Seq(S)
        /\ Len(Left(bytes, m)) = IF m + 1 <= Len(bytes) THEN Len(bytes) - m ELSE 0
        /\ \A i \in 1..(Len(bytes) - m) : Left(bytes, m)[i] = bytes[(m + 1) + i - 1]
    BY <2>1, <2>2, SubSeqProperties DEF Left
  <2>4. \A i \in 1..(Len(bytes) - m) : (m + 1) + i - 1 = m + i
    BY <1>1
  <2> QED
    BY <1>1, <2>3, <2>4
<1>3. ASSUME NEW n \in 0..(Len(bytes) - k)
      PROVE  Left(Left(bytes, k), n) = Left(bytes, k + n)
  <2> DEFINE b == Left(bytes, k)
  <2>1. b \in Seq(S) /\ Len(b) = Len(bytes) - k /\ n \in 0..Len(b)
    BY <1>2
  <2> HIDE DEF b
  <2>2. k + n \in 0..Len(bytes)
    BY <1>1
  <2>3. Left(b, n) \in Seq(S) /\ Len(Left(b, n)) = Len(b) - n
    <3>1. \A i \in (n + 1)..Len(b) : b[i] \in S
      BY <2>1
    <3>2. n + 1 \in Int /\ Len(b) \in Int /\ Len(b) - (n + 1) + 1 = Len(b) - n
      BY <2>1
    <3> QED
      BY <2>1, <3>1, <3>2, SubSeqProperties DEF Left
  <2>4. ASSUME NEW i \in 1..(Len(b) - n) PROVE Left(b, n)[i] = Left(bytes, k + n)[i]
    <3>1. \A j \in (n + 1)..Len(b) : b[j] \in S
      BY <2>1
    <3>2. Left(b, n)[i] = b[(n + 1) + i - 1]
      BY <2>1, <3>1, SubSeqProperties DEF Left
    <3>3. (n + 1) + i - 1 = n + i /\ n + i \in 1..(Len(bytes) - k) /\ k + (n + i) = (k + n) + i
          /\ i \in 1..(Len(bytes) - (k + n))
      BY <1>1, <2>1
    <3>4. b[n + i] = bytes[k + (n + i)]
      BY <1>2, <3>3 DEF b
    <3>5. Left(bytes, k + n)[i] = bytes[(k + n) + i]
      BY <1>2, <2>2, <3>3
    <3> QED
      BY <3>2, <3>3, <3>4, <3>5
  <2>5. Left(bytes, k + n) \in Seq(S) /\ Len(Left(bytes, k + n)) = Len(bytes) - (k + n)
    BY <1>2, <2>2
  <2>6. Len(Left(b, n)) = Len(Left(bytes, k + n))
    <3>1. \A l, x, y \in Int : (l - x) - y = l - (x + y)
      OBVIOUS
    <3>2. Len(bytes) \in Int /\ k \in Int /\ n \in Int
      BY <1>1
    <3>3. (Len(bytes) - k) - n = Len(bytes) - (k + n)
      BY <3>1, <3>2
    <3> QED
      BY <2>1, <2>3, <2>5, <3>3, Zenon
  <2>7. Left(b, n) = Left(bytes, k + n)
    BY <2>3, <2>4, <2>5, <2>6, SeqEqual
  <2> QED
    BY <2>7 DEF b
<1> QED
  BY <1>2, <1>3

Begins(bytes, t, v, n) == n <= Len(bytes) /\ \A k \in 1..n : bytes[k] = One(t, v, k)
LEMMA TakeIs ==
  ASSUME NEW bytes, NEW t, NEW v, NEW n \in Nat, Begins(bytes, t, v, n),
         n = 0 => Blank(v)
  PROVE  Take(t, n, bytes) = [ok |-> TRUE, value |-> v, rest |-> Left(bytes, n)]
<1>1. n <= Len(bytes) /\ \A k \in 1..n : bytes[k] = One(t, v, k)
  BY DEF Begins
<1>2. Len(bytes) >= n
  BY <1>1
<1>3. \A k \in 1..n : bytes[k].type = t /\ bytes[k].at = k
  BY <1>1, OneIs
<1>4. (IF n = 0 THEN "" ELSE bytes[1].of) = v
  <2>1. CASE n = 0
    BY <2>1, Zenon DEF Blank
  <2>2. CASE n # 0
    <3>1. 1 \in 1..n
      BY <2>2
    <3>2. bytes[1] = One(t, v, 1)
      BY <1>1, <3>1
    <3>3. bytes[1].of = v
      BY <3>2, OneIs
    <3> QED
      BY <2>2, <3>3
  <2> QED
    BY <2>1, <2>2
<1> QED
  BY <1>2, <1>4, <1>3 DEF Take, Left

\* A value that was written is read back, and nothing else is taken: of a
\* string, of the rest of a message, and of a number.
LEMMA GetString ==
  ASSUME NEW V, HasSizes(V), NEW v \in V,
         NEW bytes \in Seq(Byte(V)),
         Len(Put(Str, v)) <= Len(bytes),
         \A k \in 1..Len(Put(Str, v)) : bytes[k] = Put(Str, v)[k]
  PROVE  Get(Str, bytes) = [ok |-> TRUE, value |-> v, rest |-> Left(bytes, Len(Put(Str, v)))]
<1>1. Len(Put(Str, v)) <= Len(bytes) /\ Len(bytes) \in Nat
  OBVIOUS
<1> DEFINE head == Bytes(U32, Size(v), 4)
           tail == Bytes(Utf8, v, Size(v))
           after == Left(bytes, 4)
<1>2. Put(Str, v) = head \o tail
  BY StringParts
<1>3. Size(v) \in Nat /\ (Size(v) = 0 => Blank(v))
  BY SizeType
<1>4. /\ head \in Seq(Byte(V)) /\ Len(head) = 4
      /\ \A k \in 1..4 : head[k] = One(U32, Size(v), k)
  BY HeadIs
<1>5. /\ tail \in Seq(Byte(V)) /\ Len(tail) = Size(v)
      /\ \A k \in 1..Size(v) : tail[k] = One(Utf8, v, k)
  BY TailIs
<1> HIDE DEF head, tail
<1>6. /\ Len(Put(Str, v)) = 4 + Size(v)
      /\ \A k \in 1..(4 + Size(v)) :
           Put(Str, v)[k] = IF k <= 4 THEN head[k] ELSE tail[k - 4]
  <2>1. head \in Seq(Byte(V)) /\ tail \in Seq(Byte(V))
    BY <1>4, <1>5
  <2>2. /\ Len(head \o tail) = Len(head) + Len(tail)
        /\ \A k \in 1..(Len(head) + Len(tail)) :
             (head \o tail)[k] = IF k <= Len(head) THEN head[k] ELSE tail[k - Len(head)]
    BY <2>1, ConcatProperties
  <2>3. Len(head) = 4 /\ Len(tail) = Size(v)
    BY <1>4, <1>5
  <2> QED
    BY <1>2, <2>2, <2>3
<1>7. \A k \in 1..4 : bytes[k] = One(U32, Size(v), k)
  <2> TAKE k \in 1..4
  <2>1. k \in 1..(4 + Size(v)) /\ k <= 4
    BY <1>3
  <2> QED
    BY <1>4, <1>6, <2>1
<1>8. 4 \in 0..Len(bytes) /\ Size(v) \in 0..(Len(bytes) - 4)
  BY <1>1, <1>3, <1>6
<1>9. Take(U32, 4, bytes) = [ok |-> TRUE, value |-> Size(v), rest |-> after]
  <2>1. Begins(bytes, U32, Size(v), 4)
    BY <1>7, <1>8 DEF Begins
  <2> QED
    BY <2>1, TakeIs
<1>10. /\ after \in Seq(Byte(V)) /\ Len(after) = Len(bytes) - 4
       /\ \A k \in 1..(Len(bytes) - 4) : after[k] = bytes[4 + k]
       /\ Left(after, Size(v)) = Left(bytes, 4 + Size(v))
  BY <1>8, LeftIs
<1> HIDE DEF after
<1>11. \A k \in 1..Size(v) : after[k] = One(Utf8, v, k)
  <2> TAKE k \in 1..Size(v)
  <2>1. /\ k \in 1..(Len(bytes) - 4) /\ 4 + k \in 1..(4 + Size(v))
        /\ ~(4 + k <= 4) /\ (4 + k) - 4 = k
    BY <1>3, <1>8
  <2> QED
    BY <1>5, <1>6, <1>10, <2>1
<1>12. Size(v) \in 0..Len(after)
  BY <1>8, <1>10
<1>13. Take(Utf8, Size(v), after)
         = [ok |-> TRUE, value |-> v, rest |-> Left(after, Size(v))]
  <2>1. Begins(after, Utf8, v, Size(v))
    BY <1>11, <1>12 DEF Begins
  <2> QED
    BY <1>3, <2>1, TakeIs
<1>14. Get(Str, bytes) = Take(Utf8, Size(v), after)
  BY <1>9, GetOfString
<1>15. Left(after, Size(v)) = Left(bytes, Len(Put(Str, v)))
  BY <1>6, <1>10
<1> QED
  BY <1>13, <1>14, <1>15

LEMMA GetRest ==
  ASSUME NEW V, HasSizes(V), NEW v \in V,
         NEW bytes \in Seq(Byte(V)),
         Len(Put(Rest, v)) <= Len(bytes),
         \A k \in 1..Len(Put(Rest, v)) : bytes[k] = Put(Rest, v)[k],
         Len(bytes) = Len(Put(Rest, v))
  PROVE  Get(Rest, bytes) = [ok |-> TRUE, value |-> v, rest |-> Left(bytes, Len(Put(Rest, v)))]
<1>1. Put(Rest, v) = Bytes(Rest, v, Size(v))
  BY RestParts
<1>2. Size(v) \in Nat /\ (Size(v) = 0 => Blank(v))
  BY SizeType
<1>3. /\ Len(Put(Rest, v)) = Size(v)
      /\ \A k \in 1..Size(v) : Put(Rest, v)[k] = One(Rest, v, k)
  BY <1>1, <1>2, PartTypes, BytesAre
<1>4. Len(bytes) = Size(v) /\ Size(v) \in 0..Len(bytes)
  BY <1>2, <1>3
<1>5. Take(Rest, Len(bytes), bytes)
        = [ok |-> TRUE, value |-> v, rest |-> Left(bytes, Len(bytes))]
  <2>1. Begins(bytes, Rest, v, Len(bytes))
    BY <1>3, <1>4 DEF Begins
  <2> QED
    BY <1>2, <1>4, <2>1, TakeIs
<1> QED
  BY <1>3, <1>4, <1>5, RestParts

LEMMA GetNumber ==
  ASSUME NEW V, NEW v \in V, NEW t \in DOMAIN Width,
         NEW bytes \in Seq(Byte(V)),
         Len(Put(t, v)) <= Len(bytes),
         \A k \in 1..Len(Put(t, v)) : bytes[k] = Put(t, v)[k]
  PROVE  Get(t, bytes) = [ok |-> TRUE, value |-> v, rest |-> Left(bytes, Len(Put(t, v)))]
<1>1. t \notin {"str", "rest"}
  BY DEF Width
<1>2. t \in Parts
  BY DEF Parts, Types
<1>3. Put(t, v) = Bytes(t, v, Width[t]) /\ Get(t, bytes) = Take(t, Width[t], bytes)
  BY <1>1 DEF Put, Get
<1>4. Width[t] \in Nat /\ Width[t] # 0
  BY WidthIs
<1>5. /\ Len(Put(t, v)) = Width[t]
      /\ \A k \in 1..Width[t] : Put(t, v)[k] = One(t, v, k)
  BY <1>2, <1>3, <1>4, BytesAre
<1>6. \A k \in 1..Width[t] : bytes[k] = One(t, v, k)
  BY <1>5
<1>7. Width[t] \in 0..Len(bytes)
  BY <1>5, <1>4
<1>8. Take(t, Width[t], bytes) = [ok |-> TRUE, value |-> v, rest |-> Left(bytes, Width[t])]
  <2>1. Begins(bytes, t, v, Width[t])
    BY <1>4, <1>6, <1>7 DEF Begins
  <2> QED
    BY <1>4, <2>1, TakeIs
<1> QED
  BY <1>3, <1>5, <1>8

\* What is left of a message after a field, for any field.
LastIfRest(t, v, bytes) == t = "rest" => Len(bytes) = Len(Put(t, v))
LEMMA GetIs ==
  ASSUME NEW V, HasSizes(V), NEW v \in V, NEW t \in Types,
         NEW bytes \in Seq(Byte(V)),
         Len(Put(t, v)) <= Len(bytes),
         \A k \in 1..Len(Put(t, v)) : bytes[k] = Put(t, v)[k],
         LastIfRest(t, v, bytes)
  PROVE  Get(t, bytes) = [ok |-> TRUE, value |-> v, rest |-> Left(bytes, Len(Put(t, v)))]
<1>1. CASE t = "str"
  BY <1>1, GetString DEF Str
<1>2. CASE t = "rest"
  BY <1>2, GetRest DEF LastIfRest, Rest
<1>3. CASE t \in DOMAIN Width
  BY <1>3, GetNumber
<1> QED
  BY <1>1, <1>2, <1>3 DEF Types

\* The payload only grows from field to field.
Typed(L) == \A i \in 1..Len(L) : L[i].type \in Types
Begun(a, b) == Len(a) <= Len(b) /\ \A k \in 1..Len(a) : b[k] = a[k]

LEMMA WrittenType ==
  ASSUME NEW L, Len(L) \in Nat, Typed(L), NEW body, NEW V, HasSizes(V),
         Carries(L, body, V)
  PROVE  \A i \in 0..Len(L) : Written(L, body)[i] \in Seq(Byte(V))
<1> DEFINE S == {i \in Nat : i <= Len(L) => Written(L, body)[i] \in Seq(Byte(V))}
<1>1. 0 \in S
  <2>1. Written(L, body)[0] = <<>>
    BY WrittenIs
  <2>2. <<>> \in Seq(Byte(V))
    BY EmptySeq
  <2> QED
    BY <2>1, <2>2
<1>2. ASSUME NEW i \in S PROVE i + 1 \in S
  <2>1. i \in Nat
    OBVIOUS
  <2>2. ASSUME i + 1 <= Len(L) PROVE Written(L, body)[i + 1] \in Seq(Byte(V))
    <3> DEFINE t == L[i + 1].type
               v == body[L[i + 1].name]
    <3>1. i + 1 \in 1..Len(L) /\ i + 1 \in 0..Len(L) /\ i + 1 # 0 /\ (i + 1) - 1 = i /\ i <= Len(L)
      BY <2>1, <2>2
    <3>2. Written(L, body)[i] \in Seq(Byte(V))
      BY <3>1
    <3>3. t \in Types /\ v \in V
      BY <3>1 DEF Typed, Carries
    <3>4. Written(L, body)[i + 1] = Written(L, body)[i] \o Put(t, v)
      <4>1. i \in 0..(Len(L) - 1)
        BY <2>1, <2>2
      <4> QED
        BY <4>1, WrittenNext
    <3> HIDE DEF t, v
    <3>5. Put(t, v) \in Seq(Byte(V))
      BY <3>3, PutType
    <3> QED
      BY <3>2, <3>4, <3>5, ConcatProperties
  <2> QED
    BY <2>1, <2>2
<1> HIDE DEF S
<1>3. S = Nat
  BY <1>1, <1>2, Induction DEF S
<1> QED
  BY <1>3 DEF S

Grown(a, b, p) ==
  /\ Len(p) \in Nat /\ Len(b) = Len(a) + Len(p) /\ Begun(a, b)
  /\ \A k \in 1..Len(p) : b[Len(a) + k] = p[k]

LEMMA WrittenStep ==
  ASSUME NEW L, Len(L) \in Nat, Typed(L), NEW body, NEW V, HasSizes(V),
         Carries(L, body, V), NEW i \in 0..(Len(L) - 1)
  PROVE  Grown(Written(L, body)[i], Written(L, body)[i + 1],
               Put(L[i + 1].type, body[L[i + 1].name]))
<1> DEFINE a == Written(L, body)[i]
           b == Written(L, body)[i + 1]
           p == Put(L[i + 1].type, body[L[i + 1].name])
<1>1. i \in 0..Len(L) /\ i + 1 \in 0..Len(L) /\ i + 1 \in 1..Len(L) /\ i + 1 # 0 /\ (i + 1) - 1 = i
  OBVIOUS
<1>2. a \in Seq(Byte(V)) /\ b \in Seq(Byte(V))
  BY <1>1, WrittenType
<1>3. b = a \o p
  BY WrittenNext
<1>4. p \in Seq(Byte(V))
  BY <1>1, PutType DEF Typed, Carries
<1> HIDE DEF a, b, p
<1>5. /\ Len(a \o p) = Len(a) + Len(p)
      /\ \A k \in 1..(Len(a) + Len(p)) :
           (a \o p)[k] = IF k <= Len(a) THEN a[k] ELSE p[k - Len(a)]
  BY <1>2, <1>4, ConcatProperties
<1>6. Len(a) \in Nat /\ Len(p) \in Nat
  BY <1>2, <1>4
<1>7. Len(b) = Len(a) + Len(p)
  BY <1>3, <1>5
<1>8. Begun(a, b)
  <2>1. \A k \in 1..Len(a) : k \in 1..(Len(a) + Len(p)) /\ k <= Len(a)
    BY <1>6
  <2>2. \A k \in 1..Len(a) : b[k] = a[k]
    BY <1>3, <1>5, <2>1
  <2> QED
    BY <1>6, <1>7, <2>2 DEF Begun
<1>9. ASSUME NEW k \in 1..Len(p) PROVE b[Len(a) + k] = p[k]
  <2>1. /\ Len(a) + k \in 1..(Len(a) + Len(p)) /\ ~(Len(a) + k <= Len(a))
        /\ (Len(a) + k) - Len(a) = k
    BY <1>6
  <2> QED
    BY <1>3, <1>5, <2>1
<1>10. Grown(a, b, p)
  BY <1>6, <1>7, <1>8, <1>9 DEF Grown
<1> QED
  BY <1>10 DEF a, b, p

LEMMA WrittenGrows ==
  ASSUME NEW L, Len(L) \in Nat, Typed(L), NEW body, NEW V, HasSizes(V),
         Carries(L, body, V), NEW i \in 0..Len(L)
  PROVE  Begun(Written(L, body)[i], Written(L, body)[Len(L)])
<1> DEFINE w(j) == Written(L, body)[j]
           S == {n \in Nat : i + n <= Len(L) => Begun(w(i), w(i + n))}
<1> HIDE DEF w
<1>1. \A j \in 0..Len(L) : Len(w(j)) \in Nat
  BY WrittenType DEF w
<1>2. 0 \in S
  <2>1. i + 0 = i /\ i \in Nat
    OBVIOUS
  <2>2. Begun(w(i), w(i))
    BY <1>1 DEF Begun
  <2> QED
    BY <2>1, <2>2
<1>3. ASSUME NEW n \in S PROVE n + 1 \in S
  <2>1. n \in Nat /\ i \in Nat
    OBVIOUS
  <2>2. ASSUME i + (n + 1) <= Len(L) PROVE Begun(w(i), w(i + (n + 1)))
    <3>1. i + n <= Len(L) /\ i + n \in 0..(Len(L) - 1) /\ i + (n + 1) = (i + n) + 1
          /\ i + n \in 0..Len(L) /\ i + (n + 1) \in 0..Len(L)
      BY <2>1, <2>2
    <3>2. Begun(w(i), w(i + n))
      BY <3>1
    <3>3. Begun(w(i + n), w(i + (n + 1)))
      BY <3>1, WrittenStep DEF w, Grown
    <3>4. Len(w(i)) \in Nat /\ Len(w(i + n)) \in Nat /\ Len(w(i + (n + 1))) \in Nat
      BY <1>1, <3>1
    <3>5. \A k \in 1..Len(w(i)) : k \in 1..Len(w(i + n))
      BY <3>2, <3>4 DEF Begun
    <3>6. \A k \in 1..Len(w(i)) : w(i + (n + 1))[k] = w(i)[k]
      BY <3>2, <3>3, <3>5 DEF Begun
    <3>7. Len(w(i)) <= Len(w(i + (n + 1)))
      BY <3>2, <3>3, <3>4 DEF Begun
    <3> QED
      BY <3>6, <3>7 DEF Begun
  <2> QED
    BY <2>1, <2>2
<1> HIDE DEF S
<1>4. S = Nat
  BY <1>2, <1>3, Induction DEF S
<1>5. Len(L) - i \in Nat /\ i + (Len(L) - i) = Len(L)
  OBVIOUS
<1>6. Begun(w(i), w(i + (Len(L) - i)))
  <2>1. Len(L) - i \in S /\ i + (Len(L) - i) <= Len(L)
    BY <1>4, <1>5
  <2> QED
    BY <2>1 DEF S
<1> QED
  BY <1>5, <1>6 DEF w

\* What has been read after each field.
Known(L, body, i) == [x \in {L[j].name : j \in 1..i} |-> body[x]]
SoFar(L, body, i) ==
  LET total == Written(L, body)[Len(L)]
  IN [ok |-> TRUE, rest |-> Left(total, Len(Written(L, body)[i])),
      body |-> Known(L, body, i)]

LEMMA FillStep ==
  ASSUME NEW L, Len(L) \in Nat, Readable(L), NEW body, NEW V, HasSizes(V),
         Carries(L, body, V), NEW i \in 0..(Len(L) - 1)
  PROVE  Fill(SoFar(L, body, i), L[i + 1]) = SoFar(L, body, i + 1)
<1> DEFINE w(j) == Written(L, body)[j]
           total == w(Len(L))
           t == L[i + 1].type
           v == body[L[i + 1].name]
           p == Put(t, v)
           bytes == Left(total, Len(w(i)))
<1>1. Typed(L)
  BY DEF Readable, Typed
<1>2. i + 1 \in 1..Len(L) /\ i \in 0..Len(L) /\ i + 1 \in 0..Len(L) /\ Len(L) \in 0..Len(L)
  OBVIOUS
<1>3. t \in Types /\ v \in V
  BY <1>2 DEF Readable, Carries
<1>4. \A j \in 0..Len(L) : w(j) \in Seq(Byte(V)) /\ Len(w(j)) \in Nat
  BY <1>1, WrittenType
<1>5. /\ Len(p) \in Nat /\ Len(w(i + 1)) = Len(w(i)) + Len(p)
      /\ \A k \in 1..Len(p) : w(i + 1)[Len(w(i)) + k] = p[k]
  <2>1. Grown(w(i), w(i + 1), p)
    BY <1>1, WrittenStep
  <2> QED
    BY <2>1 DEF Grown
<1>6. Begun(w(i + 1), total)
  BY <1>1, <1>2, WrittenGrows
<1>7. Len(w(i)) \in 0..Len(total) /\ Len(w(i)) + Len(p) <= Len(total)
  <2>1. Len(w(i)) \in Nat /\ Len(total) \in Nat
    BY <1>2, <1>4
  <2>2. Len(w(i + 1)) <= Len(total)
    BY <1>6 DEF Begun
  <2> HIDE DEF w, total, p
  <2> QED
    BY <1>5, <2>1, <2>2
<1>8. /\ bytes \in Seq(Byte(V)) /\ Len(bytes) = Len(total) - Len(w(i))
      /\ \A k \in 1..(Len(total) - Len(w(i))) : bytes[k] = total[Len(w(i)) + k]
      /\ \A n \in 0..(Len(total) - Len(w(i))) : Left(bytes, n) = Left(total, Len(w(i)) + n)
  BY <1>2, <1>4, <1>7, LeftIs
<1>9. LastIfRest(t, v, bytes)
  <2> SUFFICES ASSUME t = Rest PROVE Len(bytes) = Len(p)
    BY DEF LastIfRest, Rest
  <2>1. i + 1 = Len(L)
    BY <1>2 DEF Readable, Rest
  <2>2. Len(total) = Len(w(i)) + Len(p)
    BY <1>5, <2>1
  <2> QED
    BY <1>2, <1>4, <1>5, <1>8, <2>2
<1> HIDE DEF w, total, p, bytes, t, v
<1>10. Len(p) <= Len(bytes) /\ \A k \in 1..Len(p) : bytes[k] = p[k]
  <2>1. Len(w(i)) \in Nat /\ Len(total) \in Nat
    BY <1>2, <1>4 DEF total
  <2>2. Len(p) <= Len(bytes)
    BY <1>5, <1>7, <1>8, <2>1
  <2>3. ASSUME NEW k \in 1..Len(p) PROVE bytes[k] = p[k]
    <3>1. k \in 1..(Len(total) - Len(w(i))) /\ Len(w(i)) + k \in 1..Len(w(i + 1))
      BY <1>5, <1>7, <2>1
    <3> QED
      BY <1>5, <1>6, <1>8, <3>1 DEF Begun
  <2> QED
    BY <2>2, <2>3
<1>11. Get(t, bytes) = [ok |-> TRUE, value |-> v, rest |-> Left(bytes, Len(p))]
  BY <1>3, <1>8, <1>9, <1>10, GetIs DEF p
<1>12. Left(bytes, Len(p)) = Left(total, Len(w(i + 1)))
  <2>1. Len(p) \in 0..(Len(total) - Len(w(i)))
    BY <1>2, <1>4, <1>5, <1>7
  <2> QED
    BY <1>5, <1>8, <2>1
<1>13. With(Known(L, body, i), L[i + 1].name, v) = Known(L, body, i + 1)
  <2>1. {L[j].name : j \in 1..(i + 1)} = {L[j].name : j \in 1..i} \cup {L[i + 1].name}
    <3>1. 1..(i + 1) = (1..i) \cup {i + 1}
      OBVIOUS
    <3> QED
      BY <3>1
  <2> DEFINE A == {L[j].name : j \in 1..i}
             n == L[i + 1].name
  <2>2. v = body[n]
    BY DEF v
  <2>3. Known(L, body, i) = [x \in A |-> body[x]]
    BY DEF Known
  <2>4. Known(L, body, i + 1) = [x \in A \cup {n} |-> body[x]]
    BY <2>1, Zenon DEF Known
  <2> HIDE DEF A, n
  <2>5. With([x \in A |-> body[x]], n, body[n]) = [x \in A \cup {n} |-> body[x]]
    BY DEF With
  <2> QED
    BY <2>2, <2>3, <2>4, <2>5 DEF n
<1>14. SoFar(L, body, i).rest = bytes /\ SoFar(L, body, i).ok
       /\ SoFar(L, body, i).body = Known(L, body, i)
  BY DEF SoFar, bytes, total, w
<1>15. Fill(SoFar(L, body, i), L[i + 1])
         = [ok |-> TRUE, rest |-> Left(total, Len(w(i + 1))), body |-> Known(L, body, i + 1)]
  <2> DEFINE got == Get(L[i + 1].type, SoFar(L, body, i).rest)
  <2>1. got = [ok |-> TRUE, value |-> v, rest |-> Left(bytes, Len(p))]
    BY <1>11, <1>14 DEF t
  <2>2. got.ok /\ got.rest = Left(total, Len(w(i + 1))) /\ got.value = v
    BY <2>1, <1>12
  <2>3. Fill(SoFar(L, body, i), L[i + 1])
          = [ok |-> SoFar(L, body, i).ok /\ got.ok, rest |-> got.rest,
             body |-> With(SoFar(L, body, i).body, L[i + 1].name, got.value)]
    BY Zenon DEF Fill
  <2> HIDE DEF got
  <2> QED
    BY <1>13, <1>14, <2>2, <2>3
<1> QED
  BY <1>15 DEF SoFar, w, total

\* The first reading: nothing is known yet.
LEMMA UnreadIs ==
  ASSUME NEW L, Len(L) \in Nat, Typed(L), NEW body, NEW V, HasSizes(V), Carries(L, body, V)
  PROVE  Unread(Written(L, body)[Len(L)]) = SoFar(L, body, 0)
<1> DEFINE total == Written(L, body)[Len(L)]
<1>1. Written(L, body)[0] = <<>>
  BY WrittenIs
<1>2. total \in Seq(Byte(V))
  BY WrittenType
<1> HIDE DEF total
<1>3. Left(total, 0) = total
  BY <1>2, SubSeqFull DEF Left
<1>4. Known(L, body, 0) = <<>>
  <2>1. 1..0 = {}
    OBVIOUS
  <2>2. {L[j].name : j \in 1..0} = {}
    BY <2>1
  <2> QED
    BY <2>2 DEF Known
<1>5. Len(<<>>) = 0
  OBVIOUS
<1> QED
  BY <1>1, <1>3, <1>4, <1>5 DEF SoFar, Unread, total

\* After each field exactly the fields up to it are known.
LEMMA ParsedAll ==
  ASSUME NEW L, Len(L) \in Nat, Readable(L), NEW body, NEW V, HasSizes(V),
         Carries(L, body, V), NEW i \in 0..Len(L)
  PROVE  Parsed(L, Written(L, body)[Len(L)])[i] = SoFar(L, body, i)
<1> DEFINE P(j) == Parsed(L, Written(L, body)[Len(L)])[j]
           S == {n \in Nat : n <= Len(L) => P(n) = SoFar(L, body, n)}
<1>1. Typed(L)
  BY DEF Readable, Typed
<1>2. 0 \in S
  <2>1. P(0) = Unread(Written(L, body)[Len(L)])
    BY ParsedIs
  <2> QED
    BY <1>1, <2>1, UnreadIs
<1>3. ASSUME NEW n \in S PROVE n + 1 \in S
  <2>1. n \in Nat
    OBVIOUS
  <2>2. ASSUME n + 1 <= Len(L) PROVE P(n + 1) = SoFar(L, body, n + 1)
    <3> DEFINE m == n + 1
    <3>1. m \in 0..Len(L) /\ m # 0 /\ m - 1 = n /\ n <= Len(L) /\ n \in 0..(Len(L) - 1)
      BY <2>1, <2>2
    <3> HIDE DEF m
    <3>2. P(m) = Fill(P(m - 1), L[m])
      BY <3>1, ParsedIs
    <3>3. P(n) = SoFar(L, body, n)
      BY <3>1
    <3>4. Fill(SoFar(L, body, n), L[n + 1]) = SoFar(L, body, n + 1)
      BY <3>1, FillStep
    <3> HIDE DEF P
    <3> QED
      BY <3>1, <3>2, <3>3, <3>4 DEF m
  <2> QED
    BY <2>1, <2>2
<1> HIDE DEF S
<1>4. S = Nat
  BY <1>2, <1>3, Induction DEF S
<1> QED
  BY <1>4 DEF S

\* The names of the fields of a layout, a message that has just these, and a
\* message for which both ends have one layout.
Names(L) == {L[j].name : j \in 1..Len(L)}
IsRecord(N, body) == body = [x \in N |-> body[x]]
Agreed(writes, reads, tag, N) ==
  /\ tag \in DOMAIN reads /\ writes[tag] = reads[tag]
  /\ Len(reads[tag]) \in Nat /\ Readable(reads[tag]) /\ Names(reads[tag]) = N

\* What is written of a message is read back, field by field, whatever its values
\* are, if both ends have one layout for it, which names each field once and has
\* nothing behind the rest of the message (palmtop-proto; Protocol.java).
THEOREM Understood ==
  ASSUME NEW writes, NEW reads, NEW tag, NEW N, Agreed(writes, reads, tag, N),
         NEW body, IsRecord(N, body)
  PROVE  Decode(reads, Encode(writes, Message(tag, body))) = Message(tag, body)
<1> DEFINE L == reads[tag]
           V == {body[x] : x \in N} \cup {0, 2}
<1>1. /\ tag \in DOMAIN reads /\ writes[tag] = L
      /\ Len(L) \in Nat /\ Readable(L) /\ Names(L) = N
  BY DEF Agreed
<1>2. HasSizes(V)
  BY DEF HasSizes
<1>3. Carries(L, body, V)
  <2>1. \A i \in 1..Len(L) : L[i].name \in N
    BY <1>1 DEF Names
  <2> QED
    BY <2>1 DEF Carries
<1> HIDE DEF V
<1> DEFINE total == Written(L, body)[Len(L)]
<1>4. Encode(writes, Message(tag, body)) = [tag |-> tag, payload |-> total]
  BY <1>1 DEF Encode, Message
<1>5. Parsed(L, total)[Len(L)] = SoFar(L, body, Len(L))
  BY <1>1, <1>2, <1>3, ParsedAll
<1>6. Known(L, body, Len(L)) = body
  BY <1>1, Zenon DEF Known, Names, IsRecord
<1>7. SoFar(L, body, Len(L)).ok /\ SoFar(L, body, Len(L)).body = body
  BY <1>6 DEF SoFar
<1> HIDE DEF total
<1> QED
  BY <1>1, <1>4, <1>5, <1>7 DEF Decode

-----------------------------------------------------------------------------
(* The layouts of palmtop-proto and of Protocol.java agree on every message. *)

HelloAckWords == {"ok", "reason"}
LEMMA HelloAckAgreed == Agreed(RustWrites, JavaReads, "HelloAck", HelloAckWords)
<1> DEFINE L == JavaReads["HelloAck"]
<1>1. "HelloAck" \in DOMAIN JavaReads /\ RustWrites["HelloAck"] = L
  BY DEF RustWrites, JavaReads
<1>2. /\ Len(L) = 2
      /\ L[1].name = "ok" /\ L[1].type = "bool"
      /\ L[2].name = "reason" /\ L[2].type = "str"
  BY DEF JavaReads, Field, Each
<1> HIDE DEF L
<1>3. Readable(L)
  BY <1>2 DEF Types, Width, Readable
<1>4. Names(L) = HelloAckWords
  BY <1>2 DEF Names, HelloAckWords
<1> QED
  BY <1>1, <1>2, <1>3, <1>4 DEF L, Agreed

VideoConfigWords == {"codec", "width", "height", "fps", "mode", "drop_budget_ms"}
LEMMA VideoConfigAgreed == Agreed(RustWrites, JavaReads, "VideoConfig", VideoConfigWords)
<1> DEFINE L == JavaReads["VideoConfig"]
<1>1. "VideoConfig" \in DOMAIN JavaReads /\ RustWrites["VideoConfig"] = L
  BY DEF RustWrites, JavaReads
<1>2. /\ Len(L) = 6
      /\ L[1].name = "codec" /\ L[1].type = "str"
      /\ L[2].name = "width" /\ L[2].type = "u32"
      /\ L[3].name = "height" /\ L[3].type = "u32"
      /\ L[4].name = "fps" /\ L[4].type = "u32"
      /\ L[5].name = "mode" /\ L[5].type = "u8"
      /\ L[6].name = "drop_budget_ms" /\ L[6].type = "u32"
  BY DEF JavaReads, Field, Each
<1> HIDE DEF L
<1>3. Readable(L)
  BY <1>2 DEF Types, Width, Readable
<1>4. Names(L) = VideoConfigWords
  BY <1>2 DEF Names, VideoConfigWords
<1> QED
  BY <1>1, <1>2, <1>3, <1>4 DEF L, Agreed

VideoFrameWords == {"keyframe", "capture_us", "data"}
LEMMA VideoFrameAgreed == Agreed(RustWrites, JavaReads, "VideoFrame", VideoFrameWords)
<1> DEFINE L == JavaReads["VideoFrame"]
<1>1. "VideoFrame" \in DOMAIN JavaReads /\ RustWrites["VideoFrame"] = L
  BY DEF RustWrites, JavaReads
<1>2. /\ Len(L) = 3
      /\ L[1].name = "keyframe" /\ L[1].type = "bool"
      /\ L[2].name = "capture_us" /\ L[2].type = "u64"
      /\ L[3].name = "data" /\ L[3].type = "rest"
  BY DEF JavaReads, Field, Each
<1> HIDE DEF L
<1>3. Readable(L)
  BY <1>2 DEF Types, Width, Readable
<1>4. Names(L) = VideoFrameWords
  BY <1>2 DEF Names, VideoFrameWords
<1> QED
  BY <1>1, <1>2, <1>3, <1>4 DEF L, Agreed

PongWords == {"nonce", "t_client_us", "t_host_recv_us", "t_host_send_us"}
LEMMA PongAgreed == Agreed(RustWrites, JavaReads, "Pong", PongWords)
<1> DEFINE L == JavaReads["Pong"]
<1>1. "Pong" \in DOMAIN JavaReads /\ RustWrites["Pong"] = L
  BY DEF RustWrites, JavaReads
<1>2. /\ Len(L) = 4
      /\ L[1].name = "nonce" /\ L[1].type = "u64"
      /\ L[2].name = "t_client_us" /\ L[2].type = "u64"
      /\ L[3].name = "t_host_recv_us" /\ L[3].type = "u64"
      /\ L[4].name = "t_host_send_us" /\ L[4].type = "u64"
  BY DEF JavaReads, Field, Each
<1> HIDE DEF L
<1>3. Readable(L)
  BY <1>2 DEF Types, Width, Readable
<1>4. Names(L) = PongWords
  BY <1>2 DEF Names, PongWords
<1> QED
  BY <1>1, <1>2, <1>3, <1>4 DEF L, Agreed

StatusWords == {"stage", "ok", "detail"}
LEMMA StatusAgreed == Agreed(RustWrites, JavaReads, "Status", StatusWords)
<1> DEFINE L == JavaReads["Status"]
<1>1. "Status" \in DOMAIN JavaReads /\ RustWrites["Status"] = L
  BY DEF RustWrites, JavaReads
<1>2. /\ Len(L) = 3
      /\ L[1].name = "stage" /\ L[1].type = "str"
      /\ L[2].name = "ok" /\ L[2].type = "bool"
      /\ L[3].name = "detail" /\ L[3].type = "str"
  BY DEF JavaReads, Field, Each
<1> HIDE DEF L
<1>3. Readable(L)
  BY <1>2 DEF Types, Width, Readable
<1>4. Names(L) = StatusWords
  BY <1>2 DEF Names, StatusWords
<1> QED
  BY <1>1, <1>2, <1>3, <1>4 DEF L, Agreed

PointerMotionRelativeWords == {"dx", "dy"}
LEMMA PointerMotionRelativeAgreed ==
  Agreed(JavaWrites, RustReads, "PointerMotionRelative", PointerMotionRelativeWords)
<1> DEFINE L == RustReads["PointerMotionRelative"]
<1>1. "PointerMotionRelative" \in DOMAIN RustReads /\ JavaWrites["PointerMotionRelative"] = L
  BY DEF JavaWrites, RustReads
<1>2. /\ Len(L) = 2
      /\ L[1].name = "dx" /\ L[1].type = "f32"
      /\ L[2].name = "dy" /\ L[2].type = "f32"
  BY DEF RustReads, Field, Each
<1> HIDE DEF L
<1>3. Readable(L)
  BY <1>2 DEF Types, Width, Readable
<1>4. Names(L) = PointerMotionRelativeWords
  BY <1>2 DEF Names, PointerMotionRelativeWords
<1> QED
  BY <1>1, <1>2, <1>3, <1>4 DEF L, Agreed

PointerMotionAbsoluteWords == {"x", "y"}
LEMMA PointerMotionAbsoluteAgreed ==
  Agreed(JavaWrites, RustReads, "PointerMotionAbsolute", PointerMotionAbsoluteWords)
<1> DEFINE L == RustReads["PointerMotionAbsolute"]
<1>1. "PointerMotionAbsolute" \in DOMAIN RustReads /\ JavaWrites["PointerMotionAbsolute"] = L
  BY DEF JavaWrites, RustReads
<1>2. /\ Len(L) = 2
      /\ L[1].name = "x" /\ L[1].type = "f32"
      /\ L[2].name = "y" /\ L[2].type = "f32"
  BY DEF RustReads, Field, Each
<1> HIDE DEF L
<1>3. Readable(L)
  BY <1>2 DEF Types, Width, Readable
<1>4. Names(L) = PointerMotionAbsoluteWords
  BY <1>2 DEF Names, PointerMotionAbsoluteWords
<1> QED
  BY <1>1, <1>2, <1>3, <1>4 DEF L, Agreed

PointerButtonWords == {"button", "pressed"}
LEMMA PointerButtonAgreed == Agreed(JavaWrites, RustReads, "PointerButton", PointerButtonWords)
<1> DEFINE L == RustReads["PointerButton"]
<1>1. "PointerButton" \in DOMAIN RustReads /\ JavaWrites["PointerButton"] = L
  BY DEF JavaWrites, RustReads
<1>2. /\ Len(L) = 2
      /\ L[1].name = "button" /\ L[1].type = "u8"
      /\ L[2].name = "pressed" /\ L[2].type = "bool"
  BY DEF RustReads, Field, Each
<1> HIDE DEF L
<1>3. Readable(L)
  BY <1>2 DEF Types, Width, Readable
<1>4. Names(L) = PointerButtonWords
  BY <1>2 DEF Names, PointerButtonWords
<1> QED
  BY <1>1, <1>2, <1>3, <1>4 DEF L, Agreed

ScrollWords == {"dx", "dy"}
LEMMA ScrollAgreed == Agreed(JavaWrites, RustReads, "Scroll", ScrollWords)
<1> DEFINE L == RustReads["Scroll"]
<1>1. "Scroll" \in DOMAIN RustReads /\ JavaWrites["Scroll"] = L
  BY DEF JavaWrites, RustReads
<1>2. /\ Len(L) = 2
      /\ L[1].name = "dx" /\ L[1].type = "f32"
      /\ L[2].name = "dy" /\ L[2].type = "f32"
  BY DEF RustReads, Field, Each
<1> HIDE DEF L
<1>3. Readable(L)
  BY <1>2 DEF Types, Width, Readable
<1>4. Names(L) = ScrollWords
  BY <1>2 DEF Names, ScrollWords
<1> QED
  BY <1>1, <1>2, <1>3, <1>4 DEF L, Agreed

KeyWords == {"evdev_code", "pressed", "modifiers"}
LEMMA KeyAgreed == Agreed(JavaWrites, RustReads, "Key", KeyWords)
<1> DEFINE L == RustReads["Key"]
<1>1. "Key" \in DOMAIN RustReads /\ JavaWrites["Key"] = L
  BY DEF JavaWrites, RustReads
<1>2. /\ Len(L) = 3
      /\ L[1].name = "evdev_code" /\ L[1].type = "u32"
      /\ L[2].name = "pressed" /\ L[2].type = "bool"
      /\ L[3].name = "modifiers" /\ L[3].type = "u8"
  BY DEF RustReads, Field, Each
<1> HIDE DEF L
<1>3. Readable(L)
  BY <1>2 DEF Types, Width, Readable
<1>4. Names(L) = KeyWords
  BY <1>2 DEF Names, KeyWords
<1> QED
  BY <1>1, <1>2, <1>3, <1>4 DEF L, Agreed

TextWords == {"utf8"}
LEMMA TextAgreed == Agreed(JavaWrites, RustReads, "Text", TextWords)
<1> DEFINE L == RustReads["Text"]
<1>1. "Text" \in DOMAIN RustReads /\ JavaWrites["Text"] = L
  BY DEF JavaWrites, RustReads
<1>2. /\ Len(L) = 1
      /\ L[1].name = "utf8" /\ L[1].type = "str"
  BY DEF RustReads, Field, Each
<1> HIDE DEF L
<1>3. Readable(L)
  BY <1>2 DEF Types, Width, Readable
<1>4. Names(L) = TextWords
  BY <1>2 DEF Names, TextWords
<1> QED
  BY <1>1, <1>2, <1>3, <1>4 DEF L, Agreed

SetModeWords == {"mode"}
LEMMA SetModeAgreed == Agreed(JavaWrites, RustReads, "SetMode", SetModeWords)
<1> DEFINE L == RustReads["SetMode"]
<1>1. "SetMode" \in DOMAIN RustReads /\ JavaWrites["SetMode"] = L
  BY DEF JavaWrites, RustReads
<1>2. /\ Len(L) = 1
      /\ L[1].name = "mode" /\ L[1].type = "u8"
  BY DEF RustReads, Field, Each
<1> HIDE DEF L
<1>3. Readable(L)
  BY <1>2 DEF Types, Width, Readable
<1>4. Names(L) = SetModeWords
  BY <1>2 DEF Names, SetModeWords
<1> QED
  BY <1>1, <1>2, <1>3, <1>4 DEF L, Agreed

PingWords == {"nonce", "t_client_us"}
LEMMA PingAgreed == Agreed(JavaWrites, RustReads, "Ping", PingWords)
<1> DEFINE L == RustReads["Ping"]
<1>1. "Ping" \in DOMAIN RustReads /\ JavaWrites["Ping"] = L
  BY DEF JavaWrites, RustReads
<1>2. /\ Len(L) = 2
      /\ L[1].name = "nonce" /\ L[1].type = "u64"
      /\ L[2].name = "t_client_us" /\ L[2].type = "u64"
  BY DEF RustReads, Field, Each
<1> HIDE DEF L
<1>3. Readable(L)
  BY <1>2 DEF Types, Width, Readable
<1>4. Names(L) = PingWords
  BY <1>2 DEF Names, PingWords
<1> QED
  BY <1>1, <1>2, <1>3, <1>4 DEF L, Agreed

\* c is a with b behind it.
Joins(c, a, b) ==
  /\ Len(c) = Len(a) + Len(b)
  /\ \A i \in 1..Len(a) : c[i] = a[i]
  /\ \A i \in 1..Len(b) : c[Len(a) + i] = b[i]

LEMMA Joined ==
  ASSUME NEW S, NEW a \in Seq(S), NEW b \in Seq(S)
  PROVE  a \o b \in Seq(S) /\ Joins(a \o b, a, b)
<1>1. /\ a \o b \in Seq(S) /\ Len(a \o b) = Len(a) + Len(b)
      /\ \A i \in 1..(Len(a) + Len(b)) :
           (a \o b)[i] = IF i <= Len(a) THEN a[i] ELSE b[i - Len(a)]
  BY ConcatProperties
<1>2. Len(a) \in Nat /\ Len(b) \in Nat
  OBVIOUS
<1>3. ASSUME NEW i \in 1..Len(a) PROVE (a \o b)[i] = a[i]
  BY <1>1, <1>2
<1>4. ASSUME NEW i \in 1..Len(b) PROVE (a \o b)[Len(a) + i] = b[i]
  <2>1. Len(a) + i \in 1..(Len(a) + Len(b)) /\ ~(Len(a) + i <= Len(a)) /\ (Len(a) + i) - Len(a) = i
    BY <1>2
  <2> QED
    BY <1>1, <2>1
<1> QED
  BY <1>1, <1>3, <1>4 DEF Joins

LEMMA Framed ==
  ASSUME NEW a, NEW p, NEW b, NEW c, NEW l,
         Len(a) = 3, Len(p) = 7, Len(b) = 1, Joins(c, a, p), Joins(l, c, b)
  PROVE  /\ Len(l) = 11 /\ l[1] = a[1] /\ l[2] = a[2] /\ l[3] = a[3]
         /\ l[4] = p[1] /\ l[5] = p[2] /\ l[6] = p[3] /\ l[7] = p[4]
         /\ l[8] = p[5] /\ l[9] = p[6] /\ l[10] = p[7] /\ l[11] = b[1]
<1>1. /\ Len(c) = 10 /\ \A i \in 1..3 : c[i] = a[i]
      /\ \A i \in 1..7 : c[3 + i] = p[i]
  BY DEF Joins
<1>2. c[1] = a[1] /\ c[2] = a[2] /\ c[3] = a[3]
  BY <1>1
<1>3. /\ c[4] = p[1] /\ c[5] = p[2] /\ c[6] = p[3] /\ c[7] = p[4]
      /\ c[8] = p[5] /\ c[9] = p[6] /\ c[10] = p[7]
  BY <1>1
<1>4. Len(l) = 11 /\ (\A i \in 1..10 : l[i] = c[i]) /\ l[11] = b[1]
  <2>1. Len(l) = 11 /\ (\A i \in 1..10 : l[i] = c[i])
    BY <1>1 DEF Joins
  <2>2. l[10 + 1] = b[1]
    BY <1>1 DEF Joins
  <2> QED
    BY <2>1, <2>2
<1> QED
  BY <1>2, <1>3, <1>4

\* The Hello of a phone, which has its profile in the middle.
HelloWords ==
  {"protocol_version", "token", "model", "screen_width", "screen_height",
   "density_dpi", "refresh_hz", "max_decode_width", "max_decode_height",
   "max_decode_fps", "low_latency"}
HelloLayout(L) ==
  /\ Len(L) = 11
  /\ L[1].name = "protocol_version" /\ L[2].name = "token" /\ L[3].name = "model"
  /\ L[4].name = "screen_width" /\ L[5].name = "screen_height"
  /\ L[6].name = "density_dpi" /\ L[7].name = "refresh_hz"
  /\ L[8].name = "max_decode_width" /\ L[9].name = "max_decode_height"
  /\ L[10].name = "max_decode_fps" /\ L[11].name = "low_latency"
  /\ L[1].type = "u16" /\ L[2].type = "str" /\ L[3].type = "str" /\ L[11].type = "bool"
  /\ L[4].type = "u32" /\ L[5].type = "u32" /\ L[6].type = "u32" /\ L[7].type = "u32"
  /\ L[8].type = "u32" /\ L[9].type = "u32" /\ L[10].type = "u32"

LEMMA HelloIs == HelloLayout(RustReads["Hello"])
<1> DEFINE L == RustReads["Hello"]
           A == <<Field("protocol_version", "u16"), Field("token", "str"),
                  Field("model", "str")>>
           P == ProfileRead
           B == <<Field("low_latency", "bool")>>
           S == {A[i] : i \in 1..3} \cup {P[i] : i \in 1..7} \cup {B[1]}
<1>1. "Hello" \in DOMAIN RustReads /\ JavaWrites["Hello"] = L /\ L = (A \o P) \o B
  BY DEF JavaWrites, RustReads, ProfileRead, HelloFields
<1>2. /\ Len(A) = 3 /\ Len(B) = 1
      /\ A[1].name = "protocol_version" /\ A[1].type = "u16"
      /\ A[2].name = "token" /\ A[2].type = "str" /\ A[3].name = "model" /\ A[3].type = "str"
      /\ B[1].name = "low_latency" /\ B[1].type = "bool"
  BY DEF Field
<1>3. Len(ProfileWords) = 7 /\ DOMAIN ProfileWords = 1..7
  BY DEF ProfileWords
<1>4. P = [i \in 1..7 |-> Field(ProfileWords[i], "u32")]
  BY <1>3, Zenon DEF Each, ProfileRead
<1>5. /\ P[1].name = "screen_width" /\ P[2].name = "screen_height"
      /\ P[3].name = "density_dpi" /\ P[4].name = "refresh_hz"
      /\ P[5].name = "max_decode_width" /\ P[6].name = "max_decode_height"
      /\ P[7].name = "max_decode_fps"
      /\ \A i \in 1..7 : P[i].type = "u32"
  BY <1>4 DEF Field, ProfileWords
<1>6. A \in Seq(S) /\ B \in Seq(S)
  OBVIOUS
<1>7. P \in Seq(S) /\ Len(P) = 7
  BY <1>4
<1> HIDE DEF A, B, P, S
<1>8. A \o P \in Seq(S) /\ Joins(A \o P, A, P)
  BY <1>6, <1>7, Joined
<1>9. Joins((A \o P) \o B, A \o P, B)
  BY <1>6, <1>8, Joined
<1>10. Joins(L, A \o P, B)
  BY <1>1, <1>9, Zenon
<1> HIDE DEF L
<1>11. /\ Len(L) = 11 /\ L[1] = A[1] /\ L[2] = A[2] /\ L[3] = A[3] /\ L[4] = P[1]
       /\ L[5] = P[2] /\ L[6] = P[3] /\ L[7] = P[4] /\ L[8] = P[5] /\ L[9] = P[6]
       /\ L[10] = P[7] /\ L[11] = B[1]
  <2>1. Len(A) = 3 /\ Len(P) = 7 /\ Len(B) = 1
    BY <1>2, <1>7
  <2> DEFINE C == A \o P
  <2>2. Joins(C, A, P) /\ Joins(L, C, B)
    BY <1>8, <1>10
  <2> HIDE DEF C
  <2> QED
    BY <2>1, <2>2, Framed
<1> QED
  BY <1>2, <1>5, <1>11 DEF L, HelloLayout

LEMMA HelloAgreed == Agreed(JavaWrites, RustReads, "Hello", HelloWords)
<1> DEFINE L == RustReads["Hello"]
<1>1. "Hello" \in DOMAIN RustReads /\ JavaWrites["Hello"] = L
  BY DEF JavaWrites, RustReads, ProfileRead
<1>2. HelloLayout(L)
  BY HelloIs
<1> HIDE DEF L
<1>3. Readable(L)
  <2>1. \A i \in 1..Len(L) : L[i].type \in Types
    BY <1>2 DEF Types, Width, HelloLayout
  <2>2. \A i \in 1..Len(L) : L[i].type = "rest" => i = Len(L)
    BY <1>2 DEF HelloLayout
  <2>3. \A i, j \in 1..Len(L) : L[i].name = L[j].name => i = j
    BY <1>2 DEF HelloLayout
  <2> QED
    BY <2>1, <2>2, <2>3 DEF Readable
<1>4. Names(L) = HelloWords
  BY <1>2 DEF Names, HelloWords, HelloLayout
<1> QED
  BY <1>1, <1>2, <1>3, <1>4 DEF L, Agreed, HelloLayout

\* Once a field could not be read, the message is refused.
LEMMA FillFails ==
  ASSUME NEW s, NEW f, ~s.ok \/ ~Get(f.type, s.rest).ok
  PROVE  ~Fill(s, f).ok
BY DEF Fill

LEMMA NoString == ~Get(Str, <<>>).ok
<1>1. Take(U32, 4, <<>>) = Nothing
  BY DEF Take
<1>2. ~Nothing.ok
  BY DEF Nothing
<1> QED
  BY <1>1, <1>2, GetOfString

LEMMA FillSame ==
  ASSUME NEW s, NEW f, NEW g, f.type = g.type, f.name = g.name
  PROVE  Fill(s, f) = Fill(s, g)
BY DEF Fill

\* A Hello that ends after the token is refused by a host that expects the model
\* behind it.
LEMMA OldIsRefused ==
  ASSUME NEW body
  PROVE  Decode(RustReads, Encode(OldHello, Message("Hello", body))) = Refused
<1> DEFINE L == RustReads["Hello"]
           O == OldHello["Hello"]
           V == {body["protocol_version"], body["token"], 0, 2}
           total == Written(O, body)[Len(O)]
           P(i) == Parsed(L, total)[i]
<1>1. "Hello" \in DOMAIN RustReads
  BY DEF RustReads
<1>2. HelloLayout(L)
  BY HelloIs
<1>3. /\ Len(O) = 2 /\ O[1] = Field("protocol_version", "u16") /\ O[2] = Field("token", "str")
  BY DEF OldHello
<1>4. /\ O[1].name = "protocol_version" /\ O[1].type = "u16"
      /\ O[2].name = "token" /\ O[2].type = "str"
  BY <1>3 DEF Field
<1>5. Encode(OldHello, Message("Hello", body)) = [tag |-> "Hello", payload |-> total]
  BY Zenon DEF Encode, Message
<1>6. Readable(O) /\ HasSizes(V) /\ Carries(O, body, V)
  <2>1. Readable(O)
    BY <1>3, <1>4 DEF Readable, Types, Width
  <2>2. Carries(O, body, V)
    BY <1>3, <1>4 DEF Carries
  <2> QED
    BY <2>1, <2>2 DEF HasSizes
<1> HIDE DEF V, O, L
<1>7. Len(O) = 2 /\ Len(L) = 11
  BY <1>2, <1>3 DEF HelloLayout
<1>8. Len(O) \in Nat /\ Len(L) \in Nat
  BY <1>7
<1>9. Typed(O)
  BY <1>6 DEF Readable, Typed
<1>10. P(2) = SoFar(O, body, 2)
  <2> DEFINE Q(i) == Parsed(O, total)[i]
  <2>1. Q(2) = SoFar(O, body, 2)
    <3>1. \A i \in 0..Len(O) : Parsed(O, Written(O, body)[Len(O)])[i] = SoFar(O, body, i)
      BY <1>6, <1>8, ParsedAll, Zenon
    <3> QED
      BY <1>7, <3>1
  <2>2. Q(0) = Unread(total) /\ P(0) = Unread(total)
    BY <1>7, ParsedIs
  <2>3. Q(1) = Fill(Q(0), O[1]) /\ P(1) = Fill(P(0), L[1])
    <3>1. 1 \in 0..2 /\ 1 \in 0..11 /\ 1 # 0 /\ 1 - 1 = 0
      OBVIOUS
    <3> QED
      BY <1>7, <3>1, ParsedIs
  <2>4. Q(2) = Fill(Q(1), O[2]) /\ P(2) = Fill(P(1), L[2])
    <3>1. 2 \in 0..2 /\ 2 \in 0..11 /\ 2 # 0 /\ 2 - 1 = 1
      OBVIOUS
    <3> QED
      BY <1>7, <3>1, ParsedIs
  <2>5. L[1].type = O[1].type /\ L[1].name = O[1].name
        /\ L[2].type = O[2].type /\ L[2].name = O[2].name
    BY <1>2, <1>4 DEF HelloLayout
  <2> HIDE DEF P, Q
  <2>6. P(1) = Q(1)
    BY <2>2, <2>3, <2>5, FillSame
  <2>7. P(2) = Q(2)
    BY <2>4, <2>5, <2>6, FillSame
  <2> QED
    BY <2>1, <2>7
<1>11. SoFar(O, body, 2).rest = <<>>
  <2>1. SoFar(O, body, 2).rest = Left(total, Len(total))
    BY <1>7 DEF SoFar
  <2>2. total \in Seq(Byte(V))
    <3>1. \A i \in 0..Len(O) : Written(O, body)[i] \in Seq(Byte(V))
      BY <1>6, <1>8, <1>9, WrittenType, Zenon
    <3> QED
      BY <1>7, <3>1
  <2> HIDE DEF total
  <2>3. Len(total) \in 0..Len(total) /\ Len(total) - Len(total) = 0
    BY <2>2
  <2>4. Left(total, Len(total)) \in Seq(Byte(V)) /\ Len(Left(total, Len(total))) = 0
    BY <2>2, <2>3, LeftIs
  <2> QED
    BY <2>1, <2>4, EmptySeq
<1>12. ~P(3).ok
  <2>1. P(3) = Fill(P(2), L[3])
    <3>1. 3 \in 0..11 /\ 3 # 0 /\ 3 - 1 = 2
      OBVIOUS
    <3> QED
      BY <1>7, <3>1, ParsedIs
  <2>2. L[3].type = Str
    BY <1>2 DEF HelloLayout, Str
  <2>3. ~Get(L[3].type, P(2).rest).ok
    BY <1>10, <1>11, <2>2, NoString
  <2> HIDE DEF P
  <2> QED
    BY <2>1, <2>3, FillFails
<1>13. ASSUME NEW i \in 3..10, ~P(i).ok PROVE ~P(i + 1).ok
  <2> DEFINE j == i + 1
  <2>1. j \in 0..11 /\ j # 0 /\ j - 1 = i
    OBVIOUS
  <2> HIDE DEF j
  <2> HIDE DEF total
  <2>2. j \in 0..Len(L)
    BY <1>7, <2>1
  <2>3. P(j) = IF j = 0 THEN Unread(total) ELSE Fill(P(j - 1), L[j])
    BY <1>8, <2>2, ParsedIs, Zenon
  <2>4. P(j) = Fill(P(i), L[j])
    BY <2>1, <2>3
  <2> HIDE DEF P
  <2>5. ~P(j).ok
    BY <1>13, <2>4, FillFails
  <2> QED
    BY <2>5 DEF j
<1>14. ~P(11).ok
  <2> HIDE DEF P
  <2>1. ~P(3 + 1).ok
    BY <1>12, <1>13
  <2>2. ~P(4 + 1).ok
    BY <2>1, <1>13
  <2>3. ~P(5 + 1).ok
    BY <2>2, <1>13
  <2>4. ~P(6 + 1).ok
    BY <2>3, <1>13
  <2>5. ~P(7 + 1).ok
    BY <2>4, <1>13
  <2>6. ~P(8 + 1).ok
    BY <2>5, <1>13
  <2>7. ~P(9 + 1).ok
    BY <2>6, <1>13
  <2>8. ~P(10 + 1).ok
    BY <2>7, <1>13
  <2> QED
    BY <2>8
<1> HIDE DEF total
<1>15. ~Parsed(L, total)[Len(L)].ok
  BY <1>7, <1>14
<1> DEFINE frame == Encode(OldHello, Message("Hello", body))
<1>16. frame.tag = "Hello" /\ frame.payload = total
  BY <1>5
<1> HIDE DEF frame
<1>17. Decode(RustReads, frame) = Refused
  BY <1>1, <1>15, <1>16, Zenon DEF Decode, L
<1> QED
  BY <1>17 DEF frame

-----------------------------------------------------------------------------
(* The inductive invariant. *)

Ping == [nonce |-> "n", t_client_us |-> "t1"]
Status == Sent(RustWrites, Message("Status",
            [stage |-> "encode", ok |-> TRUE, detail |-> "text"]))

\* The streams a host can announce to this phone.
Streams(m) == ClampedTo(Preset(m), device)
Announcements == UNION {{VideoConfig(m, p) : p \in Streams(m)} : m \in Modes}
UpMessages == {SetMode(m) : m \in Modes} \cup {Sent(JavaWrites, m) : m \in FromPhone}
DownMessages ==
  {HelloAck(ok) : ok \in BOOLEAN} \cup Announcements
    \cup {Sent(RustWrites, m) : m \in FromHost} \cup {Pong(Ping)}

IsConfig(e) == e.said.tag = "VideoConfig"
NoConfigIn(s) == \A i \in 1..Len(s) : ~IsConfig(s[i])
LastConfigIs(s, e) ==
  \E i \in 1..Len(s) : s[i] = e /\ \A j \in (i + 1)..Len(s) : ~IsConfig(s[j])
AsksIn(s) == \E i \in 1..Len(s) : s[i].said.tag = "SetMode"
\* A choice is on its way to the main loop of the host.
Asked == outbox # <<>> \/ AsksIn(up) \/ pending # <<>>
Current == VideoConfig(mode, preset)
Describes ==
  config = [width |-> preset.width, height |-> preset.height, fps |-> preset.fps,
            mode |-> mode, budget |-> preset.budget]

Kept ==
  /\ device \in Devices /\ version \in 3..PROTOCOL_VERSION
  /\ at \in {"off", "greeting", "waiting", "opening", "open"}
  /\ host \in {"none", "greeting", "starting", "streaming", "ended"}
  /\ picked \in Modes /\ mode \in Modes /\ missed \in BOOLEAN
  /\ outbox \in Seq(Modes) /\ pending \in Seq(Modes)
  /\ down \in Seq(DownMessages)
  /\ missed => at \in {"opening", "open", "off"}

\* Of the host: who it speaks with, and what it makes for that phone.
Hosts ==
  /\ host = "greeting" => at = "greeting" /\ up = <<Hello>> /\ down = <<>>
  /\ host # "greeting" => up \in Seq(UpMessages)
  /\ host # "greeting" /\ version # PROTOCOL_VERSION => up = <<>>
  /\ host \in {"starting", "streaming"} =>
       profile = device /\ version = PROTOCOL_VERSION
  /\ host = "streaming" => preset \in Streams(mode)

\* Of the phone, before it has read the first announcement.
Greets ==
  at = "greeting" =>
    /\ outbox = <<>> /\ pending = <<>>
    /\ \/ host = "greeting"
       \/ up = <<>> /\ host = "ended" /\ down \in {<<>>, <<HelloAck(FALSE)>>}
       \/ up = <<>> /\ host = "starting" /\ down = <<HelloAck(TRUE)>>
       \/ up = <<>> /\ host = "streaming" /\ down = <<HelloAck(TRUE), Current>>
Waits ==
  at = "waiting" =>
    /\ outbox = <<>> /\ pending = <<>> /\ up = <<>>
    /\ \/ host = "starting" /\ down \in {<<>>, <<Status>>}
       \/ host = "streaming" /\ down \in {<<Current>>, <<Status, Current>>}

\* And from then on.
Agrees ==
  at \in {"opening", "open"} =>
    /\ host = "streaming"
    /\ Asked \/ picked = mode \/ missed \/ ~NoConfigIn(down)
    /\ (NoConfigIn(down) /\ Describes) \/ LastConfigIs(down, Current)
IInv == Kept /\ Hosts /\ Greets /\ Waits /\ Agrees

-----------------------------------------------------------------------------
(* The messages of a session are heard as they were meant. *)

LEMMA SentIs ==
  ASSUME NEW l, NEW m
  PROVE  Sent(l, m).frame = Encode(l, m) /\ Sent(l, m).said = m
BY DEF Sent

LEMMA PhoneUnderstands ==
  ASSUME NEW tag, NEW N, NEW body, Agreed(RustWrites, JavaReads, tag, N),
         IsRecord(N, body)
  PROVE  LET e == Sent(RustWrites, Message(tag, body))
         IN PhoneHears(e) = Message(tag, body) /\ e.said = Message(tag, body)
BY SentIs, Understood DEF PhoneHears

LEMMA HostUnderstands ==
  ASSUME NEW tag, NEW N, NEW body, Agreed(JavaWrites, RustReads, tag, N),
         IsRecord(N, body)
  PROVE  LET e == Sent(JavaWrites, Message(tag, body))
         IN HostHears(e) = Message(tag, body) /\ e.said = Message(tag, body)
BY SentIs, Understood DEF HostHears

LEMMA HelloAckIsHeard ==
  ASSUME NEW ok
  PROVE  /\ PhoneHears(HelloAck(ok)) = HelloAck(ok).said
         /\ HelloAck(ok).said.tag = "HelloAck" /\ HelloAck(ok).said.body.ok = ok
<1> DEFINE body == [ok |-> ok, reason |-> IF ok THEN "" ELSE "protocol mismatch"]
<1>1. IsRecord(HelloAckWords, body) /\ body.ok = ok
  BY DEF IsRecord, HelloAckWords
<1>2. HelloAck(ok) = Sent(RustWrites, Message("HelloAck", body))
  BY DEF HelloAck
<1> HIDE DEF body
<1>3. PhoneHears(HelloAck(ok)) = Message("HelloAck", body)
      /\ HelloAck(ok).said = Message("HelloAck", body)
  BY <1>1, <1>2, HelloAckAgreed, PhoneUnderstands
<1> QED
  BY <1>1, <1>3 DEF Message

LEMMA VideoConfigIsHeard ==
  ASSUME NEW m, NEW p
  PROVE  /\ PhoneHears(VideoConfig(m, p)) = VideoConfig(m, p).said
         /\ VideoConfig(m, p).said =
              Message("VideoConfig",
                [codec |-> "h264", width |-> p.width, height |-> p.height,
                 fps |-> p.fps, mode |-> m, drop_budget_ms |-> p.budget])
<1> DEFINE body == [codec |-> "h264", width |-> p.width, height |-> p.height,
                    fps |-> p.fps, mode |-> m, drop_budget_ms |-> p.budget]
<1>1. IsRecord(VideoConfigWords, body)
  BY DEF IsRecord, VideoConfigWords
<1>2. VideoConfig(m, p) = Sent(RustWrites, Message("VideoConfig", body))
  BY DEF VideoConfig
<1> HIDE DEF body
<1>3. PhoneHears(VideoConfig(m, p)) = Message("VideoConfig", body)
      /\ VideoConfig(m, p).said = Message("VideoConfig", body)
  BY <1>1, <1>2, VideoConfigAgreed, PhoneUnderstands
<1> QED
  BY <1>3 DEF body

LEMMA PongIsHeard ==
  ASSUME NEW ping
  PROVE  PhoneHears(Pong(ping)) = Pong(ping).said /\ Pong(ping).said.tag = "Pong"
<1> DEFINE body == [nonce |-> ping.nonce, t_client_us |-> ping.t_client_us,
                    t_host_recv_us |-> "t2", t_host_send_us |-> "t3"]
<1>1. IsRecord(PongWords, body)
  BY DEF IsRecord, PongWords
<1>2. Pong(ping) = Sent(RustWrites, Message("Pong", body))
  BY DEF Pong
<1> HIDE DEF body
<1>3. PhoneHears(Pong(ping)) = Message("Pong", body) /\ Pong(ping).said = Message("Pong", body)
  BY <1>1, <1>2, PongAgreed, PhoneUnderstands
<1> QED
  BY <1>3 DEF Message

LEMMA FromHostIsHeard ==
  ASSUME NEW m \in FromHost
  PROVE  LET e == Sent(RustWrites, m)
         IN PhoneHears(e) = m /\ e.said = m /\ m.tag \in {"Status", "VideoFrame"}
<1> DEFINE status == [stage |-> "encode", ok |-> TRUE, detail |-> "text"]
           frame == [keyframe |-> TRUE, capture_us |-> "t", data |-> "unit"]
<1>1. IsRecord(StatusWords, status) /\ IsRecord(VideoFrameWords, frame)
  BY DEF IsRecord, StatusWords, VideoFrameWords
<1>2. m = Message("Status", status) \/ m = Message("VideoFrame", frame)
  BY DEF FromHost
<1> HIDE DEF status, frame
<1>3. CASE m = Message("Status", status)
  <2>1. m.tag = "Status"
    BY <1>3 DEF Message
  <2> QED
    BY <1>1, <1>3, <2>1, StatusAgreed, PhoneUnderstands
<1>4. CASE m = Message("VideoFrame", frame)
  <2>1. m.tag = "VideoFrame"
    BY <1>4 DEF Message
  <2> QED
    BY <1>1, <1>4, <2>1, VideoFrameAgreed, PhoneUnderstands
<1> QED
  BY <1>2, <1>3, <1>4

LEMMA HelloIsHeard ==
  /\ HostHears(Hello) = IF version < 4 THEN Refused ELSE Message("Hello", HelloBody)
  /\ Hello.said = Message("Hello", HelloBody)
<1>1. IsRecord(HelloWords, HelloBody)
  BY DEF IsRecord, HelloWords, HelloBody
<1>2. CASE version < 4
  <2>1. Hello = Sent(OldHello, Message("Hello", HelloBody))
    BY <1>2 DEF Hello
  <2> QED
    BY <1>2, <2>1, SentIs, OldIsRefused DEF HostHears
<1>3. CASE ~(version < 4)
  <2>1. Hello = Sent(JavaWrites, Message("Hello", HelloBody))
    BY <1>3 DEF Hello
  <2> QED
    BY <1>1, <1>3, <2>1, HelloAgreed, HostUnderstands
<1> QED
  BY <1>2, <1>3

LEMMA SetModeIsHeard ==
  ASSUME NEW m
  PROVE  /\ HostHears(SetMode(m)) = Message("SetMode", [mode |-> m])
         /\ SetMode(m).said = Message("SetMode", [mode |-> m])
<1> DEFINE body == [mode |-> m]
<1>1. IsRecord(SetModeWords, body)
  BY DEF IsRecord, SetModeWords
<1>2. SetMode(m) = Sent(JavaWrites, Message("SetMode", body))
  BY DEF SetMode
<1> HIDE DEF body
<1>3. HostHears(SetMode(m)) = Message("SetMode", body) /\ SetMode(m).said = Message("SetMode", body)
  BY <1>1, <1>2, SetModeAgreed, HostUnderstands
<1> QED
  BY <1>3 DEF body

LEMMA FromPhoneIsHeard ==
  ASSUME NEW m \in FromPhone
  PROVE  LET e == Sent(JavaWrites, m)
         IN /\ HostHears(e) = m /\ e.said = m
            /\ m.tag \notin {"SetMode", "refused"}
            /\ m.tag = "Ping" => m.body = Ping
<1>1. PICK tag, N, body :
        /\ m = Message(tag, body) /\ Agreed(JavaWrites, RustReads, tag, N)
        /\ IsRecord(N, body)
  <2>1. CASE m = Message("PointerMotionRelative", [dx |-> "dx", dy |-> "dy"])
    <3>1. IsRecord(PointerMotionRelativeWords, [dx |-> "dx", dy |-> "dy"])
      BY DEF IsRecord, PointerMotionRelativeWords
    <3> QED
      BY <2>1, <3>1, PointerMotionRelativeAgreed, Zenon
  <2>2. CASE m = Message("PointerMotionAbsolute", [x |-> "x", y |-> "y"])
    <3>1. IsRecord(PointerMotionAbsoluteWords, [x |-> "x", y |-> "y"])
      BY DEF IsRecord, PointerMotionAbsoluteWords
    <3> QED
      BY <2>2, <3>1, PointerMotionAbsoluteAgreed, Zenon
  <2>3. CASE m = Message("PointerButton", [button |-> 2, pressed |-> FALSE])
    <3>1. IsRecord(PointerButtonWords, [button |-> 2, pressed |-> FALSE])
      BY DEF IsRecord, PointerButtonWords
    <3> QED
      BY <2>3, <3>1, PointerButtonAgreed, Zenon
  <2>4. CASE m = Message("Scroll", [dx |-> "dx", dy |-> "dy"])
    <3>1. IsRecord(ScrollWords, [dx |-> "dx", dy |-> "dy"])
      BY DEF IsRecord, ScrollWords
    <3> QED
      BY <2>4, <3>1, ScrollAgreed, Zenon
  <2>5. CASE m = Message("Key", [evdev_code |-> 30, pressed |-> TRUE, modifiers |-> 8])
    <3>1. IsRecord(KeyWords, [evdev_code |-> 30, pressed |-> TRUE, modifiers |-> 8])
      BY DEF IsRecord, KeyWords
    <3> QED
      BY <2>5, <3>1, KeyAgreed, Zenon
  <2>6. CASE m = Message("Text", [utf8 |-> "text"])
    <3>1. IsRecord(TextWords, [utf8 |-> "text"])
      BY DEF IsRecord, TextWords
    <3> QED
      BY <2>6, <3>1, TextAgreed, Zenon
  <2>7. CASE m = Message("Ping", Ping)
    <3>1. IsRecord(PingWords, Ping)
      BY DEF IsRecord, PingWords, Ping
    <3> QED
      BY <2>7, <3>1, PingAgreed, Zenon
  <2> QED
    BY <2>1, <2>2, <2>3, <2>4, <2>5, <2>6, <2>7, Zenon DEF FromPhone, Ping
<1>2. m.tag \notin {"SetMode", "refused"} /\ (m.tag = "Ping" => m.body = Ping)
  BY DEF FromPhone, Message, Ping
<1> QED
  BY <1>1, <1>2, HostUnderstands

LEMMA MessageIs ==
  ASSUME NEW tag, NEW body
  PROVE  Message(tag, body).tag = tag /\ Message(tag, body).body = body
BY DEF Message

LEMMA ConfigIs ==
  ASSUME NEW m, NEW p
  PROVE  LET said == VideoConfig(m, p).said
         IN /\ IsConfig(VideoConfig(m, p)) /\ said.tag = "VideoConfig"
            /\ said.body.width = p.width /\ said.body.height = p.height
            /\ said.body.fps = p.fps /\ said.body.mode = m
            /\ said.body.drop_budget_ms = p.budget
<1> DEFINE body == [codec |-> "h264", width |-> p.width, height |-> p.height,
                    fps |-> p.fps, mode |-> m, drop_budget_ms |-> p.budget]
<1>1. VideoConfig(m, p).said = Message("VideoConfig", body)
  BY VideoConfigIsHeard
<1>2. /\ body.width = p.width /\ body.height = p.height /\ body.fps = p.fps
      /\ body.mode = m /\ body.drop_budget_ms = p.budget
  OBVIOUS
<1> HIDE DEF body
<1>3. VideoConfig(m, p).said.tag = "VideoConfig" /\ VideoConfig(m, p).said.body = body
  BY <1>1 DEF Message
<1> QED
  BY <1>2, <1>3 DEF IsConfig

LEMMA UpHeard ==
  ASSUME NEW e \in UpMessages
  PROVE  /\ HostHears(e) = e.said /\ e.said # Refused
         /\ e.said.tag = "SetMode" =>
              e.said.body.mode \in Modes /\ FromU8(e.said.body.mode) # {}
         /\ e.said.tag = "Ping" => e.said.body = Ping
<1>1. ASSUME NEW m \in Modes, e = SetMode(m)
      PROVE  /\ HostHears(e) = e.said /\ e.said.tag = "SetMode" /\ e.said.body.mode = m
  <2>1. [mode |-> m].mode = m
    OBVIOUS
  <2>2. HostHears(e) = e.said /\ e.said = Message("SetMode", [mode |-> m])
    BY <1>1, SetModeIsHeard
  <2> QED
    BY <2>1, <2>2, MessageIs
<1>2. \A m \in Modes : FromU8(m) # {}
  BY DEF FromU8
<1>3. ASSUME NEW m \in FromPhone, e = Sent(JavaWrites, m)
      PROVE  /\ HostHears(e) = e.said /\ e.said.tag \notin {"SetMode", "refused"}
             /\ e.said.tag = "Ping" => e.said.body = Ping
  BY <1>3, FromPhoneIsHeard
<1>4. Refused.tag = "refused"
  BY DEF Refused, Message
<1>5. \A m \in Modes : e = SetMode(m) => e.said.tag = "SetMode"
  BY <1>1
<1>6. CASE \E m \in Modes : e = SetMode(m)
  <2>1. PICK m \in Modes : e = SetMode(m)
    BY <1>6
  <2>2. HostHears(e) = e.said /\ e.said.tag = "SetMode" /\ e.said.body.mode = m
    BY <1>1, <2>1
  <2>3. FromU8(e.said.body.mode) # {} /\ e.said.body.mode \in Modes
    BY <1>2, <2>2
  <2>4. e.said.tag # "Ping" /\ e.said # Refused
    BY <2>2, <1>4
  <2> QED
    BY <2>2, <2>3, <2>4
<1>7. CASE \E m \in FromPhone : e = Sent(JavaWrites, m)
  <2>1. /\ HostHears(e) = e.said /\ e.said.tag \notin {"SetMode", "refused"}
        /\ e.said.tag = "Ping" => e.said.body = Ping
    BY <1>3, <1>7
  <2> QED
    BY <2>1, <1>4
<1> QED
  BY <1>6, <1>7 DEF UpMessages

LEMMA DownHeard ==
  ASSUME NEW e \in DownMessages
  PROVE  /\ PhoneHears(e) = e.said /\ e.said # Refused
         /\ IsConfig(e) => \E m \in Modes : \E p \in Streams(m) : e = VideoConfig(m, p)
<1>1. Refused.tag = "refused"
  BY DEF Refused, Message
<1>2. CASE \E ok \in BOOLEAN : e = HelloAck(ok)
  <2>1. PhoneHears(e) = e.said /\ e.said.tag = "HelloAck"
    BY <1>2, HelloAckIsHeard
  <2> QED
    BY <1>1, <2>1 DEF IsConfig
<1>3. CASE \E m \in Modes : \E p \in Streams(m) : e = VideoConfig(m, p)
  <2>1. PhoneHears(e) = e.said /\ e.said.tag = "VideoConfig"
    <3>1. PICK m, p : e = VideoConfig(m, p)
      BY <1>3
    <3>2. PhoneHears(VideoConfig(m, p)) = VideoConfig(m, p).said
      BY VideoConfigIsHeard
    <3>3. VideoConfig(m, p).said.tag = "VideoConfig"
      BY ConfigIs
    <3> QED
      BY <3>1, <3>2, <3>3
  <2> QED
    BY <1>1, <1>3, <2>1
<1>4. CASE \E m \in FromHost : e = Sent(RustWrites, m)
  <2>1. PhoneHears(e) = e.said /\ e.said.tag \in {"Status", "VideoFrame"}
    BY <1>4, FromHostIsHeard
  <2> QED
    BY <1>1, <2>1 DEF IsConfig
<1>5. CASE e = Pong(Ping)
  <2>1. PhoneHears(e) = e.said /\ e.said.tag = "Pong"
    BY <1>5, PongIsHeard
  <2> QED
    BY <1>1, <2>1 DEF IsConfig
<1>6. e \in Announcements => \E m \in Modes : \E p \in Streams(m) : e = VideoConfig(m, p)
  BY Zenon DEF Announcements
<1>7. \/ \E ok \in BOOLEAN : e = HelloAck(ok)
      \/ e \in Announcements
      \/ \E m \in FromHost : e = Sent(RustWrites, m)
      \/ e = Pong(Ping)
  BY Zenon DEF DownMessages
<1> QED
  BY <1>2, <1>3, <1>4, <1>5, <1>6, <1>7

-----------------------------------------------------------------------------
(* Queues: what taking the first entry and adding one does to the last       *)
(* announcement, and to the choices under way.                               *)

LEMMA Taking ==
  ASSUME NEW S, NEW s \in Seq(S), s # <<>>
  PROVE  /\ Head(s) \in S /\ Tail(s) \in Seq(S)
         /\ Len(s) \in Nat \ {0} /\ Head(s) = s[1] /\ Len(Tail(s)) = Len(s) - 1
         /\ \A i \in 1..(Len(s) - 1) : Tail(s)[i] = s[i + 1]
OBVIOUS

LEMMA Adding ==
  ASSUME NEW S, NEW s \in Seq(S), NEW e \in S
  PROVE  /\ Append(s, e) \in Seq(S) /\ Append(s, e) # <<>>
         /\ Len(s) \in Nat /\ Len(Append(s, e)) = Len(s) + 1
         /\ Append(s, e)[Len(s) + 1] = e
         /\ \A i \in 1..Len(s) : Append(s, e)[i] = s[i]
OBVIOUS

LEMMA TakingConfigs ==
  ASSUME NEW S, NEW s \in Seq(S), s # <<>>
  PROVE  /\ NoConfigIn(s) => ~IsConfig(Head(s)) /\ NoConfigIn(Tail(s))
         /\ ~IsConfig(Head(s)) /\ NoConfigIn(Tail(s)) => NoConfigIn(s)
         /\ \A c : LastConfigIs(s, c) =>
              (Head(s) = c /\ NoConfigIn(Tail(s))) \/ LastConfigIs(Tail(s), c)
<1> DEFINE t == Tail(s)
           n == Len(s)
<1>1. n \in Nat \ {0} /\ Head(s) = s[1] /\ Len(t) = n - 1
      /\ \A i \in 1..(n - 1) : t[i] = s[i + 1]
  BY Taking
<1> HIDE DEF t, n
<1>2. ASSUME NoConfigIn(s) PROVE ~IsConfig(Head(s)) /\ NoConfigIn(t)
  <2>1. \A i \in 1..n : ~IsConfig(s[i])
    BY <1>2 DEF NoConfigIn, n
  <2>2. ~IsConfig(s[1])
    BY <1>1, <2>1
  <2>3. \A i \in 1..(n - 1) : ~IsConfig(t[i])
    BY <1>1, <2>1
  <2> QED
    BY <1>1, <2>2, <2>3 DEF NoConfigIn
<1>3. ASSUME ~IsConfig(Head(s)), NoConfigIn(t) PROVE NoConfigIn(s)
  <2>1. ASSUME NEW i \in 1..n PROVE ~IsConfig(s[i])
    <3>1. CASE i = 1
      BY <1>1, <1>3, <3>1
    <3>2. CASE i # 1
      <4>1. i - 1 \in 1..(n - 1) /\ (i - 1) + 1 = i
        BY <1>1, <3>2
      <4>2. ~IsConfig(t[i - 1]) /\ t[i - 1] = s[i]
        BY <1>1, <1>3, <4>1 DEF NoConfigIn
      <4> QED
        BY <4>2
    <3> QED
      BY <3>1, <3>2
  <2> QED
    BY <2>1 DEF NoConfigIn, n
<1>4. ASSUME NEW c, LastConfigIs(s, c)
      PROVE  (Head(s) = c /\ NoConfigIn(t)) \/ LastConfigIs(t, c)
  <2>1. PICK i \in 1..n : s[i] = c /\ \A j \in (i + 1)..n : ~IsConfig(s[j])
    BY <1>4 DEF LastConfigIs, n
  <2>2. ASSUME NEW k \in 1..(n - 1), k >= i PROVE ~IsConfig(t[k])
    <3>1. k + 1 \in (i + 1)..n
      BY <1>1, <2>2
    <3> QED
      BY <1>1, <2>1, <3>1
  <2>3. CASE i = 1
    <3>1. \A k \in 1..(n - 1) : ~IsConfig(t[k])
      BY <1>1, <2>2, <2>3
    <3> QED
      BY <1>1, <2>1, <2>3, <3>1 DEF NoConfigIn
  <2>4. CASE i # 1
    <3>1. i - 1 \in 1..(n - 1) /\ (i - 1) + 1 = i
      BY <1>1, <2>4
    <3>2. t[i - 1] = c
      BY <1>1, <2>1, <3>1
    <3>3. \A k \in ((i - 1) + 1)..(n - 1) : ~IsConfig(t[k])
      BY <1>1, <2>2, <3>1
    <3> QED
      BY <1>1, <3>1, <3>2, <3>3 DEF LastConfigIs
  <2> QED
    BY <2>3, <2>4
<1> QED
  BY <1>2, <1>3, <1>4 DEF t

LEMMA AddingConfigs ==
  ASSUME NEW S, NEW s \in Seq(S), NEW e \in S
  PROVE  /\ IsConfig(e) => LastConfigIs(Append(s, e), e) /\ ~NoConfigIn(Append(s, e))
         /\ ~IsConfig(e) =>
              /\ NoConfigIn(s) <=> NoConfigIn(Append(s, e))
              /\ \A c : LastConfigIs(s, c) => LastConfigIs(Append(s, e), c)
<1> DEFINE t == Append(s, e)
           n == Len(s)
<1>1. n \in Nat /\ Len(t) = n + 1 /\ t[n + 1] = e /\ \A i \in 1..n : t[i] = s[i]
  BY Adding
<1> HIDE DEF t, n
<1>2. ASSUME IsConfig(e) PROVE LastConfigIs(t, e) /\ ~NoConfigIn(t)
  <2>1. n + 1 \in 1..(n + 1) /\ ((n + 1) + 1)..(n + 1) = {}
    BY <1>1
  <2> QED
    BY <1>1, <1>2, <2>1 DEF LastConfigIs, NoConfigIn
<1>3. ASSUME ~IsConfig(e) PROVE NoConfigIn(s) <=> NoConfigIn(t)
  <2>1. ASSUME NoConfigIn(s), NEW i \in 1..(n + 1) PROVE ~IsConfig(t[i])
    <3>1. CASE i = n + 1
      BY <1>1, <1>3, <3>1
    <3>2. CASE i # n + 1
      <4>1. i \in 1..n
        BY <1>1, <3>2
      <4> QED
        BY <1>1, <2>1, <4>1 DEF NoConfigIn, n
    <3> QED
      BY <3>1, <3>2
  <2>2. ASSUME NoConfigIn(t), NEW i \in 1..n PROVE ~IsConfig(s[i])
    <3>1. i \in 1..(n + 1)
      BY <1>1
    <3> QED
      BY <1>1, <2>2, <3>1 DEF NoConfigIn
  <2> QED
    BY <1>1, <2>1, <2>2 DEF NoConfigIn, n
<1>4. ASSUME ~IsConfig(e), NEW c, LastConfigIs(s, c) PROVE LastConfigIs(t, c)
  <2>1. PICK i \in 1..n : s[i] = c /\ \A j \in (i + 1)..n : ~IsConfig(s[j])
    BY <1>4 DEF LastConfigIs, n
  <2>2. i \in 1..(n + 1) /\ t[i] = c
    BY <1>1, <2>1
  <2>3. ASSUME NEW j \in (i + 1)..(n + 1) PROVE ~IsConfig(t[j])
    <3>1. CASE j = n + 1
      BY <1>1, <1>4, <3>1
    <3>2. CASE j # n + 1
      <4>1. j \in (i + 1)..n /\ j \in 1..n
        BY <1>1, <3>2
      <4> QED
        BY <1>1, <2>1, <4>1
    <3> QED
      BY <3>1, <3>2
  <2> QED
    BY <1>1, <2>2, <2>3 DEF LastConfigIs
<1> QED
  BY <1>2, <1>3, <1>4 DEF t

LEMMA LastIsThere ==
  ASSUME NEW s, NEW c, LastConfigIs(s, c), IsConfig(c)
  PROVE  ~NoConfigIn(s)
BY DEF LastConfigIs, NoConfigIn

Asks(e) == e.said.tag = "SetMode"
LEMMA AskingQueues ==
  ASSUME NEW S, NEW s \in Seq(S)
  PROVE  /\ (s # <<>> /\ AsksIn(s)) => (Asks(Head(s)) \/ AsksIn(Tail(s)))
         /\ \A e \in S : Asks(e) => AsksIn(Append(s, e))
<1>1. ASSUME s # <<>>, AsksIn(s) PROVE Asks(Head(s)) \/ AsksIn(Tail(s))
  <2> DEFINE t == Tail(s)
             n == Len(s)
  <2>1. n \in Nat \ {0} /\ Head(s) = s[1] /\ Len(t) = n - 1
        /\ \A i \in 1..(n - 1) : t[i] = s[i + 1]
    BY <1>1, Taking
  <2>2. PICK i \in 1..n : Asks(s[i])
    BY <1>1 DEF AsksIn, Asks
  <2> HIDE DEF t, n
  <2>3. CASE i = 1
    BY <2>1, <2>2, <2>3
  <2>4. CASE i # 1
    <3>1. i - 1 \in 1..(n - 1) /\ (i - 1) + 1 = i
      BY <2>1, <2>4
    <3>2. Asks(t[i - 1])
      BY <2>1, <2>2, <3>1
    <3>3. AsksIn(t)
      BY <2>1, <3>1, <3>2 DEF AsksIn, Asks
    <3> QED
      BY <3>3 DEF t
  <2> QED
    BY <2>3, <2>4
<1>2. ASSUME NEW e \in S, Asks(e) PROVE AsksIn(Append(s, e))
  <2> DEFINE t == Append(s, e)
             n == Len(s)
  <2>1. n \in Nat /\ Len(t) = n + 1 /\ t[n + 1] = e
    BY Adding
  <2> HIDE DEF t, n
  <2>2. n + 1 \in 1..(n + 1)
    BY <2>1
  <2>3. AsksIn(t)
    BY <1>2, <2>1, <2>2 DEF AsksIn, Asks
  <2> QED
    BY <2>3 DEF t
<1> QED
  BY <1>1, <1>2

-----------------------------------------------------------------------------
(* What Preset::clamped_to leaves of a preset, for every preset and every  *)
(* profile a client can report, and then of the four presets.              *)

Count == Nat \ {0}
Presets == [width : Count, height : Count, fps : Count, maxrate : Nat,
            gop : Count, budget : Nat, sndbuf : Nat]

\* The fields of a DeviceProfile that clamped_to reads.
Profiles == [width : Nat, height : Nat, fps : Nat, refresh : Nat]

LEMMA Quotient ==
  ASSUME NEW x \in Nat, NEW y \in Nat, NEW m \in Nat \ {0}, x <= y * m
  PROVE  x \div m \in Nat /\ x \div m <= y
<1>1. x \div m \in Nat /\ (x \div m) * m <= x
  BY Z3
<1>2. ASSUME x \div m > y PROVE FALSE
  <2> DEFINE q == x \div m
  <2>1. q \in Nat /\ q * m <= x
    BY <1>1
  <2> HIDE DEF q
  <2>2. PICK k \in Nat : q = y + 1 + k
    <3>1. q - y - 1 \in Nat /\ q = y + 1 + (q - y - 1)
      BY <1>2, <2>1 DEF q
    <3>2. QED
      BY <3>1
  <2>3. q * m = y * m + m + k * m /\ k * m \in Nat /\ y * m \in Nat
    BY <2>2
  <2>4. QED
    BY <2>1, <2>3
<1>3. QED
  BY <1>1, <1>2

\* What scaling makes of x is even, and no more than a bound that the exact
\* product keeps.
LEMMA ScaledFits ==
  ASSUME NEW x \in Nat, NEW n \in Nat, NEW m \in Nat \ {0}, NEW y \in Nat,
         x * n <= y * m, NEW v \in Scaled(x, n, m)
  PROVE  v \in Int /\ v <= y /\ v % 2 = 0
<1> DEFINE whole == (x * n) \div m
<1>1. x * n \in Nat
  OBVIOUS
<1>2. whole \in Nat /\ whole <= y
  BY <1>1, Quotient
<1> HIDE DEF whole
<1>3. PICK u \in {whole, whole - 1} : v = 2 * (u \div 2)
  BY DEF Scaled, whole
<1>4. u \in Int /\ u <= y
  BY <1>2
<1>5. QED
  BY <1>3, <1>4

\* The axis whose ratio is the tighter one, here x with the limit w, is the one
\* that is too long; scaled by that ratio the other one fits as well.
LEMMA Tighter ==
  ASSUME NEW x \in Count, NEW y \in Count, NEW w \in Nat, NEW h \in Nat,
         x > w \/ y > h, w * y <= h * x
  PROVE  w <= x /\ x * w <= w * x /\ y * w <= h * x /\ y * w <= y * x
<1>1. w <= x
  <2>1. ASSUME w > x PROVE FALSE
    <3>1. PICK i \in Nat, j \in Nat : w = x + 1 + i /\ y = h + 1 + j
      <4>1. w - x - 1 \in Nat /\ y - h - 1 \in Nat
        BY <2>1 DEF Count
      <4>2. w = x + 1 + (w - x - 1) /\ y = h + 1 + (y - h - 1)
        BY DEF Count
      <4>3. QED
        BY <4>1, <4>2
    <3>2. w * y = h * x + (h + h * i) + (1 + j) * w /\ h * i \in Nat
          /\ (1 + j) * w = w + j * w /\ j * w \in Nat /\ h * x \in Nat
      BY <3>1 DEF Count
    <3>3. QED
      BY <2>1, <3>2 DEF Count
  <2>2. QED
    BY <2>1 DEF Count
<1>2. y * w <= y * x
  <2>1. PICK i \in Nat : x = w + i
    <3>1. x - w \in Nat /\ x = w + (x - w)
      BY <1>1 DEF Count
    <3>2. QED
      BY <3>1
  <2>2. y * x = y * w + y * i /\ y * i \in Nat /\ y * w \in Nat
    BY <2>1 DEF Count
  <2>3. QED
    BY <2>2
<1>3. QED
  BY <1>1, <1>2 DEF Count

LEMMA SizesFit ==
  ASSUME NEW p \in Presets, NEW d \in Profiles, NEW s \in Sizes(p, d)
  PROVE  /\ s.width <= p.width /\ s.width <= CredibleWidth(d)
         /\ s.height <= p.height /\ s.height <= CredibleHeight(d)
         /\ \/ s.width = p.width /\ s.height = p.height
            \/ s.width % 2 = 0 /\ s.height % 2 = 0
<1> DEFINE w == CredibleWidth(d)
           h == CredibleHeight(d)
           x == p.width
           y == p.height
<1>1. x \in Count /\ y \in Count /\ w \in Nat /\ h \in Nat
  BY DEF Presets, Profiles, CredibleWidth, CredibleHeight, Most
<1>2. CASE ~(x > w \/ y > h)
  <2>1. s = [width |-> x, height |-> y]
    BY <1>2 DEF Sizes
  <2> HIDE DEF w, h, x, y
  <2>2. x <= w /\ y <= h
    BY <1>1, <1>2 DEF Count
  <2>3. QED
    BY <1>1, <2>1, <2>2 DEF w, h, x, y, Count
<1>3. CASE (x > w \/ y > h) /\ w * y <= h * x
  <2>1. PICK a \in Scaled(x, w, x), b \in Scaled(y, w, x) :
          s = [width |-> a, height |-> b]
    BY <1>3 DEF Sizes
  <2> HIDE DEF w, h, x, y
  <2>2. w <= x /\ x * w <= w * x /\ y * w <= h * x /\ y * w <= y * x
    BY <1>1, <1>3, Tighter
  <2>3. a \in Int /\ a <= w /\ a % 2 = 0 /\ b \in Int /\ b <= h /\ b <= y /\ b % 2 = 0
    BY <1>1, <2>1, <2>2, ScaledFits DEF Count
  <2>4. a <= x
    BY <1>1, <2>2, <2>3 DEF Count
  <2>5. QED
    BY <2>1, <2>3, <2>4 DEF w, h, x, y
<1>4. CASE (x > w \/ y > h) /\ ~(w * y <= h * x)
  <2>1. PICK a \in Scaled(x, h, y), b \in Scaled(y, h, y) :
          s = [width |-> a, height |-> b]
    BY <1>4 DEF Sizes
  <2> HIDE DEF w, h, x, y
  <2>2. h * x <= w * y
    BY <1>1, <1>4 DEF Count
  <2>3. h <= y /\ y * h <= h * y /\ x * h <= w * y /\ x * h <= x * y
    BY <1>1, <1>4, <2>2, Tighter
  <2>4. a \in Int /\ a <= w /\ a <= x /\ a % 2 = 0 /\ b \in Int /\ b <= h /\ b % 2 = 0
    BY <1>1, <2>1, <2>3, ScaledFits DEF Count
  <2>5. b <= y
    BY <1>1, <2>3, <2>4 DEF Count
  <2>6. QED
    BY <2>1, <2>4, <2>5 DEF w, h, x, y
<1>5. QED
  BY <1>2, <1>3, <1>4

\* Only ever reduces, never raises: the size is no larger than the preset's and
\* than what the decoder is believed to manage, and even where it was scaled;
\* the frame rate likewise (the comment on clamped_to in modes.rs).
THEOREM OnlyReduces ==
  ASSUME NEW p \in Presets, NEW d \in Profiles, NEW c \in ClampedTo(p, d)
  PROVE  /\ c.width <= p.width /\ c.width <= CredibleWidth(d)
         /\ c.height <= p.height /\ c.height <= CredibleHeight(d)
         /\ \/ c.width = p.width /\ c.height = p.height
            \/ c.width % 2 = 0 /\ c.height % 2 = 0
         /\ c.fps <= p.fps /\ c.fps <= CredibleFps(d) /\ c.fps >= 1
<1>1. PICK s \in Sizes(p, d) :
        c.width = s.width /\ c.height = s.height /\ c.fps = Rate(p, d).fps
  BY DEF ClampedTo, Presets
<1>2. /\ Rate(p, d).fps <= p.fps /\ Rate(p, d).fps <= CredibleFps(d)
      /\ Rate(p, d).fps >= 1
  BY DEF Rate, CredibleFps, Least, Most, Presets, Profiles, Count
<1>3. QED
  BY <1>1, <1>2, SizesFit

\* Lowering the frame rate does not stretch the keyframe interval: in seconds
\* gop / fps stays within one frame of the preset's, which is what bounds how
\* long a lost frame spoils the picture (the comment on the gop in modes.rs).
THEOREM KeyframesKeepTime ==
  ASSUME NEW p \in Presets, NEW d \in Profiles, NEW c \in ClampedTo(p, d)
  PROVE  /\ c.gop >= 1
         /\ c.gop * p.fps <= p.gop * c.fps + p.fps
         /\ p.gop * c.fps <= c.gop * p.fps + p.fps
<1> DEFINE g == p.gop
           f == Rate(p, d).fps
           was == p.fps
           q == (2 * g * f + was) \div (2 * was)
<1>1. g \in Count /\ was \in Count /\ f \in Count
  BY DEF Rate, CredibleFps, Least, Most, Presets, Profiles, Count
<1>2. c.gop = Most(q, 1) /\ c.fps = f
  BY DEF ClampedTo, Rate, Rescaled, Presets
<1> HIDE DEF g, f, was
<1>3. 2 * g * f \in Nat /\ 2 * g * f = 2 * (g * f) /\ g * f \in Nat
  BY <1>1 DEF Count
<1>4. /\ q \in Nat /\ q * (2 * was) <= 2 * g * f + was
      /\ 2 * g * f + was < (q + 1) * (2 * was)
  <2>1. 2 * g * f + was \in Nat /\ 2 * was \in Nat \ {0}
    BY <1>1, <1>3 DEF Count
  <2>2. \A a \in Nat, m \in Nat \ {0} :
          /\ a \div m \in Nat /\ (a \div m) * m <= a /\ a < ((a \div m) + 1) * m
    BY Z3
  <2>3. QED
    BY <2>1, <2>2
<1> HIDE DEF q
<1>5. /\ q * (2 * was) = 2 * (q * was) /\ (q + 1) * (2 * was) = 2 * (q * was) + 2 * was
      /\ q * was \in Nat
  BY <1>1, <1>4 DEF Count
<1>6. q * was <= g * f + was /\ g * f <= q * was + was
  BY <1>1, <1>3, <1>4, <1>5 DEF Count
<1>7. CASE q >= 1
  <2>1. c.gop = q
    BY <1>2, <1>4, <1>7 DEF Most
  <2>2. QED
    BY <1>2, <1>6, <1>7, <2>1 DEF g, was
<1>8. CASE q = 0
  <2>1. c.gop = 1 /\ 1 * was = was /\ q * was = 0
    BY <1>1, <1>2, <1>8 DEF Most, Count
  <2>2. was <= g * f + was /\ g * f <= was + was
    BY <1>1, <1>3, <1>6, <2>1 DEF Count
  <2>3. QED
    BY <1>2, <2>1, <2>2 DEF g, was
<1>9. QED
  BY <1>4, <1>7, <1>8

\* The four presets.
LEMMA PresetIs ==
  ASSUME NEW m \in Modes
  PROVE  LET p == Preset(m)
         IN /\ p \in Presets
            /\ \/ p.width = 1280 /\ p.height = 720
               \/ p.width = 1920 /\ p.height = 1080
            /\ \/ p.fps = 30 /\ p.gop \in {8, 15, 30}
               \/ p.fps = 20 /\ p.gop = 20
            /\ Most(p.maxrate \div 10, 1) * 1000 <= p.sndbuf * 8
<1>1. CASE m = Sync
  <2>1. Preset(m) = Made(1280, 720, 30, 6000, 8, 40)
    BY <1>1 DEF Preset, Sync, Balanced, Quality, Battery
  <2>2. SndbufFor(6000) = 75000 /\ Most(6000 \div 10, 1) = 600
    BY DEF SndbufFor, Most
  <2> QED
    BY <2>1, <2>2 DEF Made, Presets, Count
<1>2. CASE m = Balanced
  <2>1. Preset(m) = Made(1920, 1080, 30, 8000, 15, 80)
    BY <1>2 DEF Preset, Sync, Balanced, Quality, Battery
  <2>2. SndbufFor(8000) = 100000 /\ Most(8000 \div 10, 1) = 800
    BY DEF SndbufFor, Most
  <2> QED
    BY <2>1, <2>2 DEF Made, Presets, Count
<1>3. CASE m = Quality
  <2>1. Preset(m) = Made(1920, 1080, 30, 16000, 30, 150)
    BY <1>3 DEF Preset, Sync, Balanced, Quality, Battery
  <2>2. SndbufFor(16000) = 200000 /\ Most(16000 \div 10, 1) = 1600
    BY DEF SndbufFor, Most
  <2> QED
    BY <2>1, <2>2 DEF Made, Presets, Count
<1>4. CASE m = Battery
  <2>1. Preset(m) = Made(1280, 720, 20, 3000, 20, 120)
    BY <1>4 DEF Preset, Sync, Balanced, Quality, Battery
  <2>2. SndbufFor(3000) = 65536 /\ Most(3000 \div 10, 1) = 300
    BY DEF SndbufFor, Most
  <2> QED
    BY <2>1, <2>2 DEF Made, Presets, Count
<1> QED
  BY <1>1, <1>2, <1>3, <1>4 DEF Modes

\* Scaling loses less than three lines.
LEMMA ScaledNear ==
  ASSUME NEW n \in Nat, NEW x, NEW y,
         (x = 1280 /\ y = 720) \/ (x = 1920 /\ y = 1080)
  PROVE  /\ \A v \in Scaled(x, n, x) : v \in Int /\ v <= n /\ n < v + 3
         /\ \A v \in Scaled(y, n, y) : v \in Int /\ v <= n /\ n < v + 3
         /\ \A v \in Scaled(x, n, y) : v \in Int /\ v * y <= x * n /\ x * n < (v + 3) * y
         /\ \A v \in Scaled(y, n, x) : v \in Int /\ v * x <= y * n /\ y * n < (v + 3) * x
<1>1. CASE x = 1280 /\ y = 720
  BY <1>1, Z3 DEF Scaled
<1>2. CASE x = 1920 /\ y = 1080
  BY <1>2, Z3 DEF Scaled
<1> QED
  BY <1>1, <1>2

\* A size that is left of a preset keeps its shape to within three lines.
LEMMA ShapeKept ==
  ASSUME NEW p \in Presets, NEW d \in Profiles, NEW s \in Sizes(p, d),
         (p.width = 1280 /\ p.height = 720) \/ (p.width = 1920 /\ p.height = 1080)
  PROVE  /\ s.width \in Nat \ {0} /\ s.height \in Nat \ {0}
         /\ -3 * p.width <= s.width * p.height - s.height * p.width
         /\ s.width * p.height - s.height * p.width <= 3 * p.width
<1> DEFINE w == CredibleWidth(d)
           h == CredibleHeight(d)
           x == p.width
           y == p.height
<1>1. w \in Nat /\ h \in Nat /\ w >= 320 /\ h >= 240
  BY DEF Profiles, CredibleWidth, CredibleHeight, Most
<1>2. (x = 1280 /\ y = 720) \/ (x = 1920 /\ y = 1080)
  OBVIOUS
<1>3. CASE ~(x > w \/ y > h)
  <2>1. s = [width |-> x, height |-> y]
    BY <1>3 DEF Sizes
  <2>2. s.width = x /\ s.height = y
    BY <2>1
  <2> HIDE DEF x, y
  <2>3. CASE x = 1280 /\ y = 720
    BY <2>2, <2>3 DEF x, y
  <2>4. CASE x = 1920 /\ y = 1080
    BY <2>2, <2>4 DEF x, y
  <2> QED
    BY <1>2, <2>3, <2>4
<1>4. CASE (x > w \/ y > h) /\ w * y <= h * x
  <2>1. PICK a \in Scaled(x, w, x), b \in Scaled(y, w, x) :
          s = [width |-> a, height |-> b]
    BY <1>4 DEF Sizes
  <2>2. s.width = a /\ s.height = b
    BY <2>1
  <2> HIDE DEF w, h, x, y
  <2>3. /\ a \in Int /\ a <= w /\ w < a + 3
        /\ b \in Int /\ b * x <= y * w /\ y * w < (b + 3) * x
    BY <1>1, <1>2, <2>1, ScaledNear
  <2>4. CASE x = 1280 /\ y = 720
    BY <1>1, <2>2, <2>3, <2>4, Z3 DEF x, y
  <2>5. CASE x = 1920 /\ y = 1080
    BY <1>1, <2>2, <2>3, <2>5, Z3 DEF x, y
  <2> QED
    BY <1>2, <2>4, <2>5
<1>5. CASE (x > w \/ y > h) /\ ~(w * y <= h * x)
  <2>1. PICK a \in Scaled(x, h, y), b \in Scaled(y, h, y) :
          s = [width |-> a, height |-> b]
    BY <1>5 DEF Sizes
  <2>2. s.width = a /\ s.height = b
    BY <2>1
  <2> HIDE DEF w, h, x, y
  <2>3. /\ b \in Int /\ b <= h /\ h < b + 3
        /\ a \in Int /\ a * y <= x * h /\ x * h < (a + 3) * y
    BY <1>1, <1>2, <2>1, ScaledNear
  <2>4. CASE x = 1280 /\ y = 720
    BY <1>1, <2>2, <2>3, <2>4, Z3 DEF x, y
  <2>5. CASE x = 1920 /\ y = 1080
    BY <1>1, <2>2, <2>3, <2>5, Z3 DEF x, y
  <2> QED
    BY <1>2, <2>4, <2>5
<1> QED
  BY <1>3, <1>4, <1>5

\* And a lowered frame rate the time between keyframes, to within half a frame.
LEMMA KeyframesStay ==
  ASSUME NEW p \in Presets, NEW d \in Profiles,
         \/ p.fps = 30 /\ p.gop \in {8, 15, 30}
         \/ p.fps = 20 /\ p.gop = 20
  PROVE  LET r == Rate(p, d)
             late == r.gop * p.fps - p.gop * r.fps
         IN -p.fps <= 2 * late /\ 2 * late <= p.fps
<1> DEFINE f == Rate(p, d).fps
           g == Rate(p, d).gop
<1>1. f \in 15..30 /\ g = Rescaled(p.gop, f, p.fps)
  BY DEF Rate, CredibleFps, Least, Most, Presets, Profiles, Count
<1> HIDE DEF f, g
<1>2. CASE p.fps = 30 /\ p.gop = 8
  <2>1. g = Most((2 * 8 * f + 30) \div 60, 1)
    BY <1>1, <1>2 DEF Rescaled
  <2> QED
    BY <1>1, <1>2, <2>1, Z3 DEF Most, f, g
<1>3. CASE p.fps = 30 /\ p.gop = 15
  <2>1. g = Most((2 * 15 * f + 30) \div 60, 1)
    BY <1>1, <1>3 DEF Rescaled
  <2> QED
    BY <1>1, <1>3, <2>1, Z3 DEF Most, f, g
<1>4. CASE p.fps = 30 /\ p.gop = 30
  <2>1. g = Most((2 * 30 * f + 30) \div 60, 1)
    BY <1>1, <1>4 DEF Rescaled
  <2> QED
    BY <1>1, <1>4, <2>1, Z3 DEF Most, f, g
<1>5. CASE p.fps = 20 /\ p.gop = 20
  <2>1. g = Most((2 * 20 * f + 20) \div 40, 1)
    BY <1>1, <1>5 DEF Rescaled
  <2> QED
    BY <1>1, <1>5, <2>1, Z3 DEF Most, f, g
<1> QED
  BY <1>2, <1>3, <1>4, <1>5

-----------------------------------------------------------------------------
(* The invariant holds at first and is kept by every step. *)

LEMMA Starts == Init => IInv
<1> SUFFICES ASSUME Init PROVE IInv
  OBVIOUS
<1>1. /\ device \in Devices /\ version \in 3..PROTOCOL_VERSION /\ at = "off"
      /\ picked \in Modes /\ outbox = <<>> /\ missed = FALSE /\ up = <<>> /\ down = <<>>
      /\ host = "none" /\ mode = Balanced /\ pending = <<>>
  BY DEF Init
<1>2. Kept
  <2>1. \A S : <<>> \in Seq(S)
    OBVIOUS
  <2>2. Balanced \in Modes
    BY DEF Modes
  <2> QED
    BY <1>1, <2>1, <2>2 DEF Kept
<1>3. Hosts
  <2>1. <<>> \in Seq(UpMessages)
    OBVIOUS
  <2> QED
    BY <1>1, <2>1 DEF Hosts
<1> QED
  BY <1>1, <1>2, <1>3 DEF IInv, Greets, Waits, Agrees

LEMMA Fixed ==
  ASSUME device' = device, version' = version
  PROVE  DownMessages' = DownMessages /\ Hello' = Hello /\ (\A m : Streams(m)' = Streams(m))
<1>1. \A m : Streams(m)' = Streams(m)
  BY DEF Streams
<1>2. DownMessages' = DownMessages
  BY DEF DownMessages, Announcements, Streams
<1>3. Hello' = Hello
  BY DEF Hello, HelloBody
<1> QED
  BY <1>1, <1>2, <1>3

LEMMA ConnectKeeps == IInv /\ Connect => IInv'
<1> SUFFICES ASSUME IInv, Connect PROVE IInv'
  OBVIOUS
<1>1. /\ at' = "greeting" /\ outbox' = <<>> /\ missed' = FALSE
      /\ up' = <<Hello>> /\ down' = <<>> /\ host' = "greeting" /\ pending' = <<>>
      /\ device' = device /\ version' = version /\ picked' = picked /\ mode' = mode
      /\ up' = <<Hello'>>
  BY Fixed DEF Connect
<1>2. Kept'
  <2>1. \A S : <<>> \in Seq(S)
    OBVIOUS
  <2> QED
    BY <1>1, <2>1 DEF Kept, IInv
<1> QED
  BY <1>1, <1>2 DEF IInv, Hosts, Greets, Waits, Agrees

LEMMA LoseKeeps == IInv /\ Lose => IInv'
<1> SUFFICES ASSUME IInv, Lose PROVE IInv'
  OBVIOUS
<1>1. /\ at' = "off" /\ host' = "ended" /\ up' = <<>> /\ down' = <<>> /\ pending' = <<>>
      /\ mode' = Balanced /\ device' = device /\ version' = version
      /\ picked' = picked /\ outbox' = outbox /\ missed' = missed
  BY DEF Lose
<1>2. Kept'
  <2>1. \A S : <<>> \in Seq(S)
    OBVIOUS
  <2>2. Balanced \in Modes
    BY DEF Modes
  <2> QED
    BY <1>1, <2>1, <2>2 DEF Kept, IInv
<1>3. Hosts'
  <2>1. <<>> \in Seq(UpMessages')
    OBVIOUS
  <2> QED
    BY <1>1, <2>1 DEF Hosts
<1> QED
  BY <1>1, <1>2, <1>3 DEF IInv, Greets, Waits, Agrees

LEMMA PhoneOpensKeeps == IInv /\ PhoneOpens => IInv'
<1> SUFFICES ASSUME IInv, PhoneOpens PROVE IInv'
  OBVIOUS
<1>1. at = "opening" /\ at' = "open"
      /\ UNCHANGED <<device, version, picked, config, outbox, missed, up, down,
                     host, profile, mode, pending, preset>>
  BY DEF PhoneOpens, wires, session
<1>2. DownMessages' = DownMessages /\ Hello' = Hello /\ (\A m : Streams(m)' = Streams(m))
  BY <1>1, Fixed
<1>3. Kept'
  BY <1>1, <1>2 DEF Kept, IInv
<1>4. Hosts'
  BY <1>1, <1>2 DEF Hosts, IInv, UpMessages
<1>5. Agrees'
  BY <1>1 DEF Agrees, IInv, Asked, Describes, Current
<1> QED
  BY <1>1, <1>3, <1>4, <1>5 DEF IInv, Greets, Waits

LEMMA UserPicksKeeps == IInv /\ UserPicks => IInv'
<1> SUFFICES ASSUME IInv, UserPicks PROVE IInv'
  OBVIOUS
<1>1. PICK m \in Modes :
        /\ picked' = m
        /\ outbox' = IF at = "open" THEN Append(outbox, m) ELSE outbox
        /\ missed' = (at = "opening")
        /\ UNCHANGED <<device, version, at, config, up, down,
                       host, profile, mode, pending, preset>>
  BY DEF UserPicks, wires, session
<1>2. DownMessages' = DownMessages /\ Hello' = Hello /\ (\A p : Streams(p)' = Streams(p))
  BY <1>1, Fixed
<1>3. Kept'
  <2>1. outbox' \in Seq(Modes)
    BY <1>1 DEF Kept, IInv
  <2> QED
    BY <1>1, <1>2, <2>1 DEF Kept, IInv
<1>4. Hosts'
  BY <1>1, <1>2 DEF Hosts, IInv, UpMessages
<1>5. Agrees'
  <2>1. at = "open" => outbox' # <<>>
    BY <1>1, Adding DEF Kept, IInv
  <2> QED
    BY <1>1, <2>1 DEF Agrees, IInv, Asked, Describes, Current
<1>6. Greets' /\ Waits'
  BY <1>1 DEF IInv, Greets, Waits, Current
<1> QED
  BY <1>3, <1>4, <1>5, <1>6 DEF IInv

LEMMA PhoneWritesKeeps == IInv /\ PhoneWrites => IInv'
<1> SUFFICES ASSUME IInv, PhoneWrites PROVE IInv'
  OBVIOUS
<1>1. /\ at = "open" /\ outbox # <<>> /\ at' = at
      /\ up' = Append(up, SetMode(Head(outbox))) /\ outbox' = Tail(outbox)
      /\ UNCHANGED <<device, version, picked, config, missed, down,
                     host, profile, mode, pending, preset>>
  BY DEF PhoneWrites, session
<1>2. DownMessages' = DownMessages /\ Hello' = Hello /\ (\A p : Streams(p)' = Streams(p))
  BY <1>1, Fixed
<1>3. Head(outbox) \in Modes /\ Tail(outbox) \in Seq(Modes)
  BY <1>1, Taking DEF Kept, IInv
<1> DEFINE e == SetMode(Head(outbox))
<1>4. e \in UpMessages /\ Asks(e)
  <2>1. e \in UpMessages
    BY <1>3 DEF UpMessages
  <2>2. e.said.tag = "SetMode"
    <3> DEFINE body == [mode |-> Head(outbox)]
    <3>1. e.said = Message("SetMode", body)
      BY SetModeIsHeard
    <3> HIDE DEF body, e
    <3> QED
      BY <3>1, MessageIs
  <2> QED
    BY <2>1, <2>2 DEF Asks
<1> HIDE DEF e
<1>5. host = "streaming" /\ version = PROTOCOL_VERSION /\ up \in Seq(UpMessages)
  BY <1>1 DEF IInv, Agrees, Hosts
<1>6. up' = Append(up, e) /\ up' \in Seq(UpMessages) /\ AsksIn(up')
  BY <1>1, <1>4, <1>5, Adding, AskingQueues DEF e
<1>7. Kept'
  BY <1>1, <1>2, <1>3 DEF Kept, IInv
<1>8. Hosts'
  BY <1>1, <1>2, <1>5, <1>6 DEF Hosts, IInv, UpMessages
<1>9. Agrees'
  BY <1>1, <1>6 DEF Agrees, IInv, Asked, Describes, Current
<1> QED
  BY <1>1, <1>7, <1>8, <1>9 DEF IInv, Greets, Waits

LEMMA PhoneSaysKeeps == IInv /\ PhoneSays => IInv'
<1> SUFFICES ASSUME IInv, PhoneSays PROVE IInv'
  OBVIOUS
<1>1. PICK m \in FromPhone : at = "open" /\ Quiet /\ up' = <<Sent(JavaWrites, m)>>
  BY DEF PhoneSays
<1>2. UNCHANGED <<device, version, at, picked, config, outbox, missed, down,
                  host, profile, mode, pending, preset>>
  BY DEF PhoneSays, session, phone
<1>3. DownMessages' = DownMessages /\ Hello' = Hello /\ (\A p : Streams(p)' = Streams(p))
  BY <1>2, Fixed
<1>4. up' \in Seq(UpMessages)
  <2>1. Sent(JavaWrites, m) \in UpMessages
    BY DEF UpMessages
  <2> QED
    BY <1>1, <2>1
<1>5. host = "streaming" /\ version = PROTOCOL_VERSION
  BY <1>1 DEF IInv, Agrees, Hosts
<1>6. Kept'
  BY <1>2, <1>3 DEF Kept, IInv
<1>7. Hosts'
  BY <1>2, <1>3, <1>4, <1>5 DEF Hosts, IInv, UpMessages
<1>8. Agrees'
  <2>1. ~AsksIn(up)
    <3>1. outbox \in Seq(Modes) /\ pending \in Seq(Modes) /\ down \in Seq(DownMessages)
          /\ up \in Seq(UpMessages)
      BY <1>5 DEF IInv, Kept, Hosts
    <3>2. up = <<>>
      BY <1>1, <3>1 DEF Quiet
    <3> QED
      BY <3>2 DEF AsksIn
  <2> QED
    BY <1>2, <2>1 DEF Agrees, IInv, Asked, Describes, Current
<1> QED
  BY <1>1, <1>2, <1>6, <1>7, <1>8 DEF IInv, Greets, Waits

LEMMA HelloBodyIs ==
  /\ HelloBody.protocol_version = version /\ HelloBody.refresh_hz = device.refresh
  /\ HelloBody.max_decode_width = device.width
  /\ HelloBody.max_decode_height = device.height
  /\ HelloBody.max_decode_fps = device.fps
BY DEF HelloBody

LEMMA Profiled ==
  ASSUME NEW d \in Devices
  PROVE  d = [width |-> d.width, height |-> d.height, fps |-> d.fps, refresh |-> d.refresh]
BY NegotiationAssumption DEF NegotiationAssumption

LEMMA Short ==
  ASSUME NEW S, NEW x \in S, NEW y \in S
  PROVE  Append(<<>>, x) = <<x>> /\ Append(<<x>>, y) = <<x, y>>
<1>1. ASSUME NEW s \in Seq(S), Len(s) = 1, s[1] = x,
             NEW u \in Seq(S), Len(u) = 2, u[1] = x, u[2] = y
      PROVE  Append(s, y) = u
  <2> DEFINE t == Append(s, y)
  <2>1. t \in Seq(S) /\ Len(t) = 2 /\ t[1] = x /\ t[2] = y
    <3> DEFINE n == Len(s)
    <3>1. /\ t \in Seq(S) /\ Len(t) = n + 1 /\ t[n + 1] = y
          /\ \A i \in 1..n : t[i] = s[i]
      BY Adding
    <3> HIDE DEF t, n
    <3>2. n = 1
      BY <1>1 DEF n
    <3> QED
      BY <1>1, <3>1, <3>2
  <2> HIDE DEF t
  <2>2. \A i \in 1..Len(t) : t[i] = u[i]
    BY <1>1, <2>1
  <2>3. t = u
    BY <1>1, <2>1, <2>2, SeqEqual
  <2> QED
    BY <2>3 DEF t
<1>2. <<x>> \in Seq(S) /\ Len(<<x>>) = 1 /\ <<x>>[1] = x
  OBVIOUS
<1>3. <<x, y>> \in Seq(S) /\ Len(<<x, y>>) = 2 /\ <<x, y>>[1] = x /\ <<x, y>>[2] = y
  OBVIOUS
<1>4. Append(<<>>, x) = <<x>>
  OBVIOUS
<1> QED
  BY <1>1, <1>2, <1>3, <1>4, Zenon

LEMMA ShortType ==
  ASSUME NEW S, NEW x \in S
  PROVE  <<>> \in Seq(S) /\ <<x>> \in Seq(S)
OBVIOUS

LEMMA DownHas == (\A ok \in BOOLEAN : HelloAck(ok) \in DownMessages) /\ Status \in DownMessages
<1>1. \A ok \in BOOLEAN : HelloAck(ok) \in DownMessages
  BY DEF DownMessages
<1>2. \A m \in FromHost : Sent(RustWrites, m) \in DownMessages
  BY DEF DownMessages
<1>3. Message("Status", [stage |-> "encode", ok |-> TRUE, detail |-> "text"]) \in FromHost
  BY DEF FromHost
<1> QED
  BY <1>1, <1>2, <1>3 DEF Status

LEMMA HostGreetsKeeps == IInv /\ HostGreets => IInv'
<1> SUFFICES ASSUME IInv, HostGreets PROVE IInv'
  OBVIOUS
<1>1. /\ host = "greeting" /\ at = "greeting" /\ up = <<Hello>> /\ down = <<>>
      /\ outbox = <<>> /\ pending = <<>> /\ device \in Devices
      /\ version \in 3..PROTOCOL_VERSION /\ ~missed
  BY DEF IInv, Hosts, Greets, HostGreets, Kept
<1>2. UNCHANGED <<device, version, at, picked, config, outbox, missed, mode, pending, preset>>
  BY DEF HostGreets, phone
<1>3. DownMessages' = DownMessages
  BY <1>2, Fixed
<1>4. up' = <<>>
  BY <1>1 DEF HostGreets
<1> DEFINE hello == HostHears(Hello)
<1>5. hello = IF version < 4 THEN Refused ELSE Message("Hello", HelloBody)
  BY HelloIsHeard
<1>6. Head(up) = Hello
  BY <1>1
<1>7. /\ hello = Refused => host' = "ended" /\ down' = down
      /\ hello # Refused =>
           /\ down' = Append(down, HelloAck(Speaks(hello.body)))
           /\ host' = IF Speaks(hello.body) THEN "starting" ELSE "ended"
           /\ profile' = [width |-> hello.body.max_decode_width,
                          height |-> hello.body.max_decode_height,
                          fps |-> hello.body.max_decode_fps,
                          refresh |-> hello.body.refresh_hz]
  BY <1>6 DEF HostGreets
<1>8. /\ version < 4 => hello = Refused
      /\ ~(version < 4) => hello # Refused /\ hello.body = HelloBody
  <2>1. Refused.tag = "refused" /\ Message("Hello", HelloBody).tag = "Hello"
        /\ Message("Hello", HelloBody).body = HelloBody
    BY MessageIs DEF Refused
  <2> QED
    BY <1>5, <2>1
<1> HIDE DEF hello
<1>9. \/ host' = "ended" /\ down' = <<>>
      \/ host' = "ended" /\ down' = <<HelloAck(FALSE)>>
      \/ /\ host' = "starting" /\ down' = <<HelloAck(TRUE)>>
         /\ profile' = device /\ version = PROTOCOL_VERSION
  <2>1. CASE version < 4
    BY <1>1, <1>7, <1>8, <2>1
  <2>2. CASE ~(version < 4) /\ version # PROTOCOL_VERSION
    <3>1. Speaks(hello.body) = FALSE
      BY <1>8, <2>2, HelloBodyIs DEF Speaks
    <3>2. down' = Append(down, HelloAck(FALSE)) /\ host' = "ended"
      BY <1>7, <1>8, <2>2, <3>1
    <3> QED
      BY <1>1, <3>2
  <2>3. CASE version = PROTOCOL_VERSION
    <3>1. ~(version < 4)
      BY <2>3 DEF PROTOCOL_VERSION
    <3>2. Speaks(hello.body) = TRUE
      BY <1>8, <2>3, <3>1, HelloBodyIs DEF Speaks
    <3>3. down' = Append(down, HelloAck(TRUE)) /\ host' = "starting"
      BY <1>7, <1>8, <3>1, <3>2
    <3>4. profile' = [width |-> device.width, height |-> device.height,
                      fps |-> device.fps, refresh |-> device.refresh]
      BY <1>7, <1>8, <3>1, HelloBodyIs
    <3>5. profile' = device
      BY <1>1, <3>4, Profiled
    <3> QED
      BY <1>1, <2>3, <3>3, <3>5
  <2> QED
    BY <2>1, <2>2, <2>3
<1>10. Kept'
  <2>1. down' \in Seq(DownMessages)
    <3>1. \A ok \in BOOLEAN : HelloAck(ok) \in DownMessages
      BY DEF DownMessages
    <3>2. /\ <<>> \in Seq(DownMessages) /\ <<HelloAck(FALSE)>> \in Seq(DownMessages)
          /\ <<HelloAck(TRUE)>> \in Seq(DownMessages)
      BY <3>1, ShortType
    <3> QED
      BY <1>9, <3>2, Zenon
  <2> QED
    BY <1>2, <1>3, <1>9, <2>1 DEF Kept, IInv
<1>11. Hosts'
  <2>1. <<>> \in Seq(UpMessages)
    OBVIOUS
  <2> QED
    BY <1>2, <1>4, <1>9, <2>1 DEF Hosts, UpMessages
<1>12. Greets'
  BY <1>1, <1>2, <1>4, <1>9 DEF Greets
<1> QED
  BY <1>1, <1>2, <1>10, <1>11, <1>12 DEF IInv, Waits, Agrees

\* A stream that is started is one of those this phone can be announced.
LEMMA Started ==
  ASSUME IInv, host \in {"starting", "streaming"}, NEW m \in Modes,
         device' = device, Start(m)
  PROVE  /\ mode' = m /\ preset' \in Streams(m) /\ Current' \in DownMessages
         /\ IsConfig(Current') /\ down' = Append(down, Current')
<1>1. profile = device
  BY DEF IInv, Hosts
<1>2. PICK p \in Streams(m) : preset' = p /\ down' = Append(down, VideoConfig(m, p))
  BY <1>1 DEF Start, Streams
<1>3. mode' = m
  BY DEF Start
<1>4. Current' = VideoConfig(m, p)
  BY <1>2, <1>3 DEF Current
<1>5. VideoConfig(m, p) \in Announcements
  BY DEF Announcements
<1>6. IsConfig(VideoConfig(m, p))
  BY ConfigIs
<1> QED
  BY <1>2, <1>3, <1>4, <1>5, <1>6 DEF DownMessages

LEMMA HostStartsKeeps == IInv /\ HostStarts => IInv'
<1> SUFFICES ASSUME IInv, HostStarts PROVE IInv'
  OBVIOUS
<1>1. /\ host = "starting" /\ host' = "streaming" /\ Start(Balanced)
      /\ UNCHANGED <<device, version, at, picked, config, outbox, missed, up, profile, pending>>
  BY DEF HostStarts, phone
<1>2. DownMessages' = DownMessages /\ (\A m : Streams(m)' = Streams(m))
  BY <1>1, Fixed
<1>3. Balanced \in Modes
  BY DEF Modes
<1>4. /\ mode' = Balanced /\ preset' \in Streams(Balanced) /\ Current' \in DownMessages
      /\ IsConfig(Current') /\ down' = Append(down, Current')
  BY <1>1, <1>3, Started
<1>5. Kept'
  <2>1. down' \in Seq(DownMessages)
    BY <1>4, Adding DEF IInv, Kept
  <2> QED
    BY <1>1, <1>2, <1>3, <1>4, <2>1 DEF Kept, IInv
<1>6. Hosts'
  <2>1. Streams(mode)' = Streams(mode')
    BY <1>1 DEF Streams
  <2> QED
    BY <1>1, <1>4, <2>1 DEF Hosts, IInv, UpMessages, Streams
<1>7. at \notin {"opening", "open"}
  BY <1>1 DEF IInv, Agrees
<1> DEFINE c == Current'
<1> HIDE DEF c
<1>8. Greets'
  <2>1. ASSUME at = "greeting"
        PROVE  down = <<HelloAck(TRUE)>> /\ up = <<>> /\ outbox = <<>> /\ pending = <<>>
    BY <1>1, <2>1 DEF IInv, Greets
  <2>2. at = "greeting" => down' = <<HelloAck(TRUE), c>>
    BY <1>4, <2>1, DownHas, Short DEF c
  <2> QED
    BY <1>1, <2>1, <2>2 DEF Greets, c
<1>9. Waits'
  <2>1. ASSUME at = "waiting"
        PROVE  down \in {<<>>, <<Status>>} /\ up = <<>> /\ outbox = <<>> /\ pending = <<>>
    BY <1>1, <2>1 DEF IInv, Waits
  <2>2. at = "waiting" => down' \in {<<c>>, <<Status, c>>}
    BY <1>4, <2>1, DownHas, Short DEF c
  <2> QED
    BY <1>1, <2>1, <2>2 DEF Waits, c, Status
<1> QED
  BY <1>1, <1>5, <1>6, <1>7, <1>8, <1>9 DEF IInv, Agrees

LEMMA HostSwitchesKeeps == IInv /\ HostSwitches => IInv'
<1> SUFFICES ASSUME IInv, HostSwitches PROVE IInv'
  OBVIOUS
<1>1. /\ host = "streaming" /\ pending # <<>> /\ host' = host /\ Start(Head(pending))
      /\ pending' = Tail(pending)
      /\ UNCHANGED <<device, version, at, picked, config, outbox, missed, up, profile>>
  BY DEF HostSwitches, phone
<1>2. DownMessages' = DownMessages /\ (\A m : Streams(m)' = Streams(m))
  BY <1>1, Fixed
<1>3. Head(pending) \in Modes /\ Tail(pending) \in Seq(Modes)
  BY <1>1, Taking DEF Kept, IInv
<1>4. /\ mode' = Head(pending) /\ preset' \in Streams(Head(pending))
      /\ Current' \in DownMessages
      /\ IsConfig(Current') /\ down' = Append(down, Current')
  BY <1>1, <1>3, Started
<1> DEFINE c == Current'
<1> HIDE DEF c
<1>5. down \in Seq(DownMessages)
  BY DEF IInv, Kept
<1>6. /\ down' \in Seq(DownMessages) /\ LastConfigIs(down', c) /\ ~NoConfigIn(down')
  BY <1>4, <1>5, Adding, AddingConfigs DEF c
<1>7. Kept'
  BY <1>1, <1>2, <1>3, <1>4, <1>6 DEF Kept, IInv
<1>8. Hosts'
  BY <1>1, <1>4 DEF Hosts, IInv, UpMessages, Streams
<1>9. at \notin {"greeting", "waiting"}
  BY <1>1 DEF IInv, Greets, Waits
<1>10. Agrees'
  BY <1>1, <1>6 DEF Agrees, c
<1> QED
  BY <1>1, <1>7, <1>8, <1>9, <1>10 DEF IInv, Greets, Waits

LEMMA HostReadsKeeps == IInv /\ HostReads => IInv'
<1> SUFFICES ASSUME IInv, HostReads PROVE IInv'
  OBVIOUS
<1> DEFINE m == HostHears(Head(up))
<1>1. /\ host = "streaming" /\ up # <<>> /\ up' = Tail(up)
      /\ host' = IF m = Refused THEN "ended" ELSE host
      /\ pending' = IF m.tag = "SetMode" /\ FromU8(m.body.mode) # {}
                    THEN Append(pending, m.body.mode) ELSE pending
      /\ down' = IF m.tag = "Ping" THEN Append(down, Pong(m.body)) ELSE down
      /\ UNCHANGED <<device, version, at, picked, config, outbox, missed, profile, mode, preset>>
  BY DEF HostReads, phone
<1>2. DownMessages' = DownMessages /\ (\A p : Streams(p)' = Streams(p))
  BY <1>1, Fixed
<1>3. up \in Seq(UpMessages) /\ down \in Seq(DownMessages) /\ pending \in Seq(Modes)
  BY <1>1 DEF IInv, Hosts, Kept
<1>4. Head(up) \in UpMessages /\ up' \in Seq(UpMessages)
  BY <1>1, <1>3, Taking
<1>5. /\ m = Head(up).said /\ m # Refused
      /\ m.tag = "SetMode" => m.body.mode \in Modes /\ FromU8(m.body.mode) # {}
      /\ m.tag = "Ping" => m.body = Ping
  BY <1>4, UpHeard
<1> HIDE DEF m
<1>6. host' = "streaming"
  BY <1>1, <1>5
<1>7. pending' \in Seq(Modes) /\ (m.tag = "SetMode" => pending' # <<>>)
      /\ (m.tag # "SetMode" => pending' = pending)
  BY <1>1, <1>3, <1>5, Adding
<1>8. Pong(Ping) \in DownMessages /\ ~IsConfig(Pong(Ping))
  <2>1. Pong(Ping).said.tag = "Pong"
    BY PongIsHeard
  <2> QED
    BY <2>1 DEF DownMessages, IsConfig
<1>9. /\ down' \in Seq(DownMessages)
      /\ NoConfigIn(down) <=> NoConfigIn(down')
      /\ \A c : LastConfigIs(down, c) => LastConfigIs(down', c)
  <2>1. CASE m.tag = "Ping"
    <3>1. down' = Append(down, Pong(Ping))
      BY <1>1, <1>5, <2>1
    <3> QED
      BY <1>3, <1>8, <3>1, Adding, AddingConfigs
  <2>2. CASE m.tag # "Ping"
    BY <1>1, <1>3, <2>2
  <2> QED
    BY <2>1, <2>2
<1>10. Asked => Asked'
  <2>1. AsksIn(up) => Asks(Head(up)) \/ AsksIn(up')
    BY <1>1, <1>3, AskingQueues
  <2>2. Asks(Head(up)) => m.tag = "SetMode"
    BY <1>5 DEF Asks
  <2> QED
    BY <1>1, <1>7, <2>1, <2>2 DEF Asked
<1>11. Kept'
  BY <1>1, <1>2, <1>6, <1>7, <1>9 DEF Kept, IInv
<1>12. Hosts'
  BY <1>1, <1>4, <1>6 DEF Hosts, IInv, UpMessages, Streams
<1>13. at \notin {"greeting", "waiting"}
  BY <1>1 DEF IInv, Greets, Waits
<1>14. Agrees'
  <2>1. Current' = Current /\ (Describes <=> Describes')
    BY <1>1 DEF Current, Describes
  <2> QED
    BY <1>1, <1>6, <1>9, <1>10, <2>1 DEF Agrees, IInv
<1> QED
  BY <1>1, <1>11, <1>12, <1>13, <1>14 DEF IInv, Greets, Waits

LEMMA HostSaysKeeps == IInv /\ HostSays => IInv'
<1> SUFFICES ASSUME IInv, HostSays PROVE IInv'
  OBVIOUS
<1>1. /\ host \in {"starting", "streaming"} /\ Quiet
      /\ UNCHANGED <<device, version, at, picked, config, outbox, missed, up,
                     host, profile, mode, pending, preset>>
  BY DEF HostSays, phone, session
<1>2. PICK m \in FromHost :
        (m.tag = "VideoFrame" => host = "streaming") /\ down' = <<Sent(RustWrites, m)>>
  BY DEF HostSays
<1>3. DownMessages' = DownMessages /\ (\A p : Streams(p)' = Streams(p))
  BY <1>1, Fixed
<1>4. down = <<>>
  <2>1. outbox \in Seq(Modes) /\ pending \in Seq(Modes) /\ down \in Seq(DownMessages)
        /\ up \in Seq(UpMessages)
    BY <1>1 DEF IInv, Kept, Hosts
  <2> QED
    BY <1>1, <2>1 DEF Quiet
<1> DEFINE e == Sent(RustWrites, m)
<1>5. e \in DownMessages /\ ~IsConfig(e)
  <2>1. e.said.tag \in {"Status", "VideoFrame"}
    BY FromHostIsHeard
  <2> QED
    BY <2>1 DEF DownMessages, IsConfig
<1>6. host = "starting" => e = Status
  <2>1. ASSUME m = Message("VideoFrame",
                     [keyframe |-> TRUE, capture_us |-> "t", data |-> "unit"])
        PROVE  m.tag = "VideoFrame"
    BY <2>1, MessageIs
  <2> QED
    BY <1>2, <2>1 DEF FromHost, Status
<1> HIDE DEF e
<1>7. down' = <<e>>
  BY <1>2 DEF e
<1>8. down' \in Seq(DownMessages) /\ NoConfigIn(down')
  <2>1. <<e>> \in Seq(DownMessages)
    BY <1>5, ShortType
  <2>2. Len(<<e>>) = 1 /\ <<e>>[1] = e
    OBVIOUS
  <2>3. NoConfigIn(<<e>>)
    BY <1>5, <2>2 DEF NoConfigIn
  <2> QED
    BY <1>7, <2>1, <2>3
<1>9. Kept'
  BY <1>1, <1>3, <1>8 DEF Kept, IInv
<1>10. Hosts'
  BY <1>1, <1>3 DEF Hosts, IInv, UpMessages, Streams
<1>11. at # "greeting"
  <2>1. ASSUME NEW x, NEW y PROVE <<x>> # <<>> /\ <<x, y>> # <<>>
    OBVIOUS
  <2> QED
    BY <1>1, <1>4, <2>1 DEF IInv, Greets
<1>12. Waits'
  <2>1. ASSUME NEW x, NEW y PROVE <<x>> # <<>> /\ <<x, y>> # <<>>
    OBVIOUS
  <2>2. at = "waiting" => host = "starting" /\ outbox = <<>> /\ pending = <<>> /\ up = <<>>
    BY <1>1, <1>4, <2>1 DEF IInv, Waits
  <2>3. at = "waiting" => down' = <<Status>>
    BY <1>6, <1>7, <2>2
  <2>4. Status' = Status
    BY DEF Status
  <2> QED
    BY <1>1, <2>2, <2>3, <2>4 DEF Waits
<1>13. Agrees'
  <2>1. NoConfigIn(down)
    BY <1>4 DEF NoConfigIn
  <2>2. ~LastConfigIs(down, Current)
    BY <1>4 DEF LastConfigIs
  <2>3. (Asked <=> Asked') /\ (Describes <=> Describes')
    BY <1>1 DEF Asked, Describes
  <2> QED
    BY <1>1, <1>8, <2>1, <2>2, <2>3 DEF Agrees, IInv
<1> QED
  BY <1>1, <1>9, <1>10, <1>11, <1>12, <1>13 DEF IInv, Greets

LEMMA PhoneGreetsKeeps == IInv /\ PhoneGreets => IInv'
<1> SUFFICES ASSUME IInv, PhoneGreets PROVE IInv'
  OBVIOUS
<1>1. /\ at = "greeting" /\ down # <<>> /\ down' = Tail(down)
      /\ UNCHANGED <<device, version, picked, config, outbox, missed, up,
                     host, profile, mode, pending, preset>>
  BY DEF PhoneGreets, session
<1> DEFINE ack == PhoneHears(Head(down))
<1>2. at' = IF ack.tag = "HelloAck" /\ ack.body.ok THEN "waiting" ELSE "off"
  BY DEF PhoneGreets
<1>3. DownMessages' = DownMessages /\ (\A p : Streams(p)' = Streams(p))
  BY <1>1, Fixed
<1>4. /\ outbox = <<>> /\ pending = <<>> /\ down \in Seq(DownMessages) /\ host # "greeting"
      /\ ~missed
  BY <1>1 DEF IInv, Greets, Hosts, Kept
<1>5. down' \in Seq(DownMessages)
  BY <1>1, <1>4, Taking
<1>6. Kept'
  BY <1>1, <1>2, <1>3, <1>4, <1>5 DEF Kept, IInv
<1>7. Hosts'
  BY <1>1, <1>3, <1>4 DEF Hosts, IInv, UpMessages, Streams
<1>8. Waits'
  <2>1. CASE host = "ended"
    <3>1. down = <<HelloAck(FALSE)>>
      BY <1>1, <2>1 DEF IInv, Greets
    <3>2. Head(down) = HelloAck(FALSE)
      BY <3>1
    <3>3. ~ack.body.ok
      BY <3>2, HelloAckIsHeard
    <3> QED
      BY <1>2, <3>3 DEF Waits
  <2>2. CASE host = "starting"
    <3>1. down = <<HelloAck(TRUE)>> /\ up = <<>>
      BY <1>1, <2>2 DEF IInv, Greets
    <3>2. down' = <<>>
      BY <1>1, <3>1
    <3> QED
      BY <1>1, <1>4, <2>2, <3>1, <3>2 DEF Waits
  <2>3. CASE host = "streaming"
    <3>1. down = <<HelloAck(TRUE), Current>> /\ up = <<>>
      BY <1>1, <2>3 DEF IInv, Greets
    <3>2. \A x, y : Tail(<<x, y>>) = <<y>>
      OBVIOUS
    <3>3. down' = <<Current>> /\ Current' = Current
      BY <1>1, <3>1, <3>2 DEF Current
    <3> QED
      BY <1>1, <1>4, <2>3, <3>1, <3>3 DEF Waits
  <2> QED
    BY <1>1, <1>4, <2>1, <2>2, <2>3 DEF IInv, Greets
<1> QED
  BY <1>2, <1>6, <1>7, <1>8 DEF IInv, Greets, Agrees

LEMMA Reasserted ==
  ASSUME NEW x, NEW m
  PROVE  /\ x \in Modes => SetToSeq({x} \ {m}) \in Seq(Modes)
         /\ x # m => SetToSeq({x} \ {m}) # <<>>
<1> DEFINE S == {x} \ {m}
<1>1. CASE x = m
  <2>1. S = {} /\ Cardinality(S) = 0
    BY <1>1, FS_EmptySet
  <2> HIDE DEF S
  <2> DEFINE P(f) == f \in [1..Cardinality(S) -> S] /\ IsInjective(f)
  <2>2. 1..Cardinality(S) = {}
    BY <2>1
  <2>3. P([i \in 1..Cardinality(S) |-> i])
    BY <2>2 DEF IsInjective
  <2>4. P(CHOOSE f : P(f))
    BY <2>3
  <2>5. SetToSeq(S) = CHOOSE f : P(f)
    BY DEF SetToSeq
  <2>6. SetToSeq(S) \in [{} -> S]
    BY <2>2, <2>4, <2>5
  <2>7. SetToSeq(S) \in Seq(Modes)
    <3>1. SetToSeq(S) \in [1..0 -> Modes]
      BY <2>1, <2>6
    <3> QED
      BY <3>1
  <2> QED
    BY <1>1, <2>7 DEF S
<1>2. CASE x # m
  <2>1. S = {x} /\ Cardinality(S) = 1
    BY <1>2, FS_Singleton
  <2> HIDE DEF S
  <2> DEFINE P(f) == f \in [1..Cardinality(S) -> S] /\ IsInjective(f)
  <2>2. P([i \in 1..Cardinality(S) |-> x])
    BY <2>1 DEF IsInjective
  <2>3. P(CHOOSE f : P(f))
    BY <2>2
  <2>4. SetToSeq(S) = CHOOSE f : P(f)
    BY DEF SetToSeq
  <2>5. SetToSeq(S) \in [1..1 -> {x}]
    BY <2>1, <2>3, <2>4
  <2> DEFINE s == SetToSeq(S)
  <2>6. s \in [1..1 -> {x}]
    BY <2>5
  <2> HIDE DEF s
  <2>7. x \in Modes => s \in Seq(Modes)
    <3>1. x \in Modes => s \in [1..1 -> Modes]
      BY <2>6
    <3>2. \A T : \A f \in [1..1 -> T] : f \in Seq(T)
      <4>1. 1 \in Nat
        OBVIOUS
      <4> QED
        BY <4>1, SeqDef, Zenon
    <3> QED
      BY <3>1, <3>2
  <2>8. s # <<>>
    <3>1. s \in Seq({x})
      <4>1. 1 \in Nat
        OBVIOUS
      <4> QED
        BY <2>6, <4>1, SeqDef, Zenon
    <3>2. s # <<>>
      <4>1. DOMAIN s = 1..1 /\ DOMAIN s = 1..Len(s) /\ Len(s) \in Nat
        BY <2>6, <3>1, LenProperties
      <4>2. Len(s) # 0
        BY <4>1
      <4> QED
        BY <4>2, EmptySeq
    <3> QED
      BY <3>2
  <2> QED
    BY <2>7, <2>8 DEF s, S
<1> QED
  BY <1>1, <1>2

LEMMA CurrentIsHeard == PhoneHears(Current).tag = "VideoConfig"
<1>1. PhoneHears(Current) = Current.said
  BY VideoConfigIsHeard DEF Current
<1>2. Current.said.tag = "VideoConfig"
  BY ConfigIs DEF Current
<1> QED
  BY <1>1, <1>2

LEMMA PhoneWaitsKeeps == IInv /\ PhoneWaits => IInv'
<1> SUFFICES ASSUME IInv, PhoneWaits PROVE IInv'
  OBVIOUS
<1>1. /\ at = "waiting" /\ down # <<>> /\ down' = Tail(down)
      /\ UNCHANGED <<device, version, picked, missed, up,
                     host, profile, mode, pending, preset>>
  BY DEF PhoneWaits, session
<1> DEFINE m == PhoneHears(Head(down))
<1>2. /\ m.tag = "VideoConfig" =>
             /\ at' = "opening" /\ Takes(m.body)
             /\ outbox' = outbox \o SetToSeq(Reassert(m.body.mode))
      /\ m.tag = "Status" /\ m.body.ok => UNCHANGED <<at, config, outbox>>
  BY DEF PhoneWaits
<1>3. DownMessages' = DownMessages /\ (\A p : Streams(p)' = Streams(p))
  BY <1>1, Fixed
<1>4. /\ outbox = <<>> /\ pending = <<>> /\ up = <<>>
      /\ \/ host = "starting" /\ down = <<Status>>
         \/ host = "streaming" /\ down \in {<<Current>>, <<Status, Current>>}
      /\ down \in Seq(DownMessages) /\ picked \in Modes /\ ~missed
  BY <1>1 DEF IInv, Waits, Kept
<1>5. down' \in Seq(DownMessages)
  BY <1>1, <1>4, Taking
<1>6. /\ PhoneHears(Status).tag = "Status" /\ PhoneHears(Status).body.ok
  <2> DEFINE body == [stage |-> "encode", ok |-> TRUE, detail |-> "text"]
  <2>1. body.ok = TRUE
    OBVIOUS
  <2>2. IsRecord(StatusWords, body)
    BY DEF IsRecord, StatusWords
  <2>3. Status = Sent(RustWrites, Message("Status", body))
    BY DEF Status
  <2> HIDE DEF body
  <2>4. PhoneHears(Status) = Message("Status", body)
    BY <2>2, <2>3, StatusAgreed, PhoneUnderstands
  <2> QED
    BY <2>1, <2>4, MessageIs
<1>7. Hosts'
  BY <1>1, <1>3, <1>4 DEF Hosts, IInv, UpMessages, Streams
<1>8. CASE Head(down) = Status
  <2>1. at' = at /\ outbox' = outbox
    BY <1>2, <1>6, <1>8
  <2>2. Waits'
    <3>1. CASE down = <<Status>>
      <4>1. down' = <<>>
        BY <1>1, <3>1
      <4>2. host = "starting"
        <5>1. ASSUME down = <<Current>> PROVE FALSE
          <6>1. Current = Status
            BY <5>1, <3>1
          <6>2. PhoneHears(Current).tag = "VideoConfig"
            BY CurrentIsHeard
          <6> QED
            BY <6>1, <6>2, <1>6
        <5>2. \A x, y : <<x>> # <<x, y>>
          OBVIOUS
        <5> QED
          BY <1>4, <3>1, <5>1, <5>2
      <4> QED
        BY <1>1, <1>4, <2>1, <4>1, <4>2 DEF Waits
    <3>2. CASE host = "streaming" /\ down = <<Status, Current>>
      <4>1. \A x, y : Tail(<<x, y>>) = <<y>>
        OBVIOUS
      <4>2. down' = <<Current>> /\ Current' = Current
        BY <1>1, <3>2, <4>1 DEF Current
      <4> QED
        BY <1>1, <1>4, <2>1, <3>2, <4>2 DEF Waits
    <3>3. CASE down = <<Current>>
      <4>1. Current = Status
        BY <1>8, <3>3
      <4>2. PhoneHears(Current).tag = "VideoConfig"
        BY CurrentIsHeard
      <4> QED
        BY <4>1, <4>2, <1>6
    <3> QED
      BY <1>4, <3>1, <3>2, <3>3
  <2>3. Kept'
    BY <1>1, <1>3, <1>4, <1>5, <2>1 DEF Kept, IInv
  <2> QED
    BY <1>1, <1>7, <2>1, <2>2, <2>3 DEF IInv, Greets, Agrees
<1>9. CASE host = "streaming" /\ down = <<Current>>
  <2>1. Head(down) = Current
    BY <1>9
  <2>2. m = Current.said
    BY <2>1, VideoConfigIsHeard DEF Current
  <2>3. /\ m.tag = "VideoConfig" /\ m.body.width = preset.width
        /\ m.body.height = preset.height /\ m.body.fps = preset.fps
        /\ m.body.mode = mode /\ m.body.drop_budget_ms = preset.budget
    BY <2>2, ConfigIs DEF Current
  <2> HIDE DEF m
  <2>4. at' = "opening" /\ Takes(m.body) /\ outbox' = outbox \o SetToSeq(Reassert(m.body.mode))
    BY <1>2, <2>3
  <2>5. down' = <<>>
    BY <1>1, <1>9
  <2> DEFINE again == SetToSeq({picked} \ {mode})
  <2>6. again \in Seq(Modes) /\ (picked # mode => again # <<>>)
    BY <1>4, Reasserted
  <2>7. outbox' = <<>> \o again
    BY <1>4, <2>3, <2>4 DEF Reassert
  <2> HIDE DEF again
  <2>8. outbox' = again
    BY <2>6, <2>7
  <2>9. Describes'
    BY <1>1, <2>3, <2>4 DEF Takes, Describes
  <2>10. NoConfigIn(down')
    BY <2>5 DEF NoConfigIn
  <2>11. Agrees'
    BY <1>1, <1>9, <2>6, <2>8, <2>9, <2>10 DEF Agrees, Asked
  <2>12. Kept'
    BY <1>1, <1>3, <1>4, <1>5, <2>4, <2>6, <2>8 DEF Kept, IInv
  <2> QED
    BY <1>7, <2>4, <2>11, <2>12 DEF IInv, Greets, Waits
<1> QED
  <2>1. \A x, y : Head(<<x>>) = x /\ Head(<<x, y>>) = x
    OBVIOUS
  <2> QED
    BY <1>4, <1>8, <1>9, <2>1

LEMMA PhoneReadsKeeps == IInv /\ PhoneReads => IInv'
<1> SUFFICES ASSUME IInv, PhoneReads PROVE IInv'
  OBVIOUS
<1>1. /\ at = "open" /\ down # <<>> /\ down' = Tail(down)
      /\ UNCHANGED <<device, version, outbox, up, host, profile, mode, pending, preset>>
  BY DEF PhoneReads, session
<1> DEFINE m == PhoneHears(Head(down))
<1>2. /\ at' = IF m = Refused THEN "off" ELSE at
      /\ IF m.tag = "VideoConfig"
         THEN Takes(m.body) /\ picked' = m.body.mode /\ missed' = FALSE
         ELSE UNCHANGED <<config, picked, missed>>
  BY DEF PhoneReads
<1>3. DownMessages' = DownMessages /\ (\A p : Streams(p)' = Streams(p))
  BY <1>1, Fixed
<1>4. down \in Seq(DownMessages) /\ host = "streaming"
  BY <1>1 DEF IInv, Agrees, Kept
<1> DEFINE e == Head(down)
<1>5. e \in DownMessages /\ down' \in Seq(DownMessages)
  BY <1>1, <1>4, Taking
<1>6. /\ m = e.said /\ m # Refused
      /\ IsConfig(e) => \E c \in Modes : \E p \in Streams(c) : e = VideoConfig(c, p)
  BY <1>5, DownHeard
<1>7. /\ NoConfigIn(down) => ~IsConfig(e) /\ NoConfigIn(down')
      /\ ~IsConfig(e) /\ NoConfigIn(down') => NoConfigIn(down)
      /\ \A c : LastConfigIs(down, c) =>
              (e = c /\ NoConfigIn(down')) \/ LastConfigIs(down', c)
  BY <1>1, <1>4, TakingConfigs
<1>8. m.tag = "VideoConfig" <=> IsConfig(e)
  BY <1>6 DEF IsConfig
<1> HIDE DEF m, e
<1>9. at' = "open"
  BY <1>1, <1>2, <1>6
<1>10. IsConfig(e) => m.body.mode \in Modes
  <2>1. ASSUME NEW c \in Modes, NEW p, e = VideoConfig(c, p) PROVE m.body.mode \in Modes
    BY <1>6, <2>1, ConfigIs
  <2> QED
    BY <1>6, <2>1
<1>11. Kept'
  BY <1>1, <1>2, <1>3, <1>5, <1>8, <1>9, <1>10 DEF Kept, IInv
<1>12. Hosts'
  BY <1>1, <1>3, <1>4 DEF Hosts, IInv, UpMessages, Streams
<1>13. IsConfig(Current) /\ Current' = Current
  BY <1>1, ConfigIs DEF Current
<1>14. e = Current => m.body.mode = mode /\ Describes'
  <2>1. ASSUME e = Current
        PROVE  /\ m.body.width = preset.width
               /\ m.body.height = preset.height /\ m.body.fps = preset.fps
               /\ m.body.mode = mode /\ m.body.drop_budget_ms = preset.budget
    BY <1>6, <2>1, ConfigIs DEF Current
  <2>2. e = Current => Takes(m.body)
    BY <1>2, <1>8, <1>13
  <2> QED
    BY <1>1, <2>1, <2>2 DEF Takes, Describes
<1>15. (NoConfigIn(down) /\ Describes) \/ LastConfigIs(down, Current)
  BY <1>1 DEF IInv, Agrees
<1>16. Asked \/ picked = mode \/ missed \/ ~NoConfigIn(down)
  BY <1>1 DEF IInv, Agrees
<1>17. Asked' <=> Asked
  BY <1>1 DEF Asked
<1>18. (NoConfigIn(down') /\ Describes') \/ LastConfigIs(down', Current')
  <2>1. CASE NoConfigIn(down) /\ Describes
    <3>1. NoConfigIn(down') /\ config' = config
      BY <1>2, <1>7, <1>8, <2>1
    <3> QED
      BY <1>1, <2>1, <3>1 DEF Describes
  <2>2. CASE LastConfigIs(down, Current)
    BY <1>7, <1>13, <1>14, <2>2
  <2> QED
    BY <1>15, <2>1, <2>2
<1>19. Asked' \/ picked' = mode \/ missed' \/ ~NoConfigIn(down')
  <2>1. CASE ~IsConfig(e)
    BY <1>2, <1>7, <1>8, <1>16, <1>17, <2>1
  <2>2. CASE IsConfig(e) /\ e = Current
    BY <1>2, <1>8, <1>14, <2>2
  <2>3. CASE IsConfig(e) /\ e # Current
    <3>1. LastConfigIs(down', Current)
      BY <1>7, <1>15, <2>3
    <3> QED
      BY <1>13, <3>1, LastIsThere
  <2> QED
    BY <2>1, <2>2, <2>3
<1>20. Agrees'
  BY <1>1, <1>4, <1>18, <1>19 DEF Agrees
<1> QED
  BY <1>9, <1>11, <1>12, <1>20 DEF IInv, Greets, Waits

-----------------------------------------------------------------------------
(* The theorems. *)

LEMMA NextKeeps == IInv /\ [Next]_vars => IInv'
<1> SUFFICES ASSUME IInv, [Next]_vars PROVE IInv'
  OBVIOUS
<1>1. CASE UNCHANGED vars
  <2>1. UNCHANGED <<device, version, at, picked, config, outbox, missed, up, down,
                    host, profile, mode, pending, preset>>
    BY <1>1 DEF vars, phone, wires, session
  <2>2. DownMessages' = DownMessages /\ Hello' = Hello /\ (\A m : Streams(m)' = Streams(m))
    BY <2>1, Fixed
  <2>3. Current' = Current
    BY <2>1 DEF Current
  <2> QED
    BY <2>1, <2>2, <2>3 DEF IInv, Kept, Hosts, Greets, Waits, Agrees, Asked, Describes,
                            Streams, Status, UpMessages
<1> QED
  BY <1>1, ConnectKeeps, LoseKeeps, PhoneOpensKeeps, UserPicksKeeps, PhoneWritesKeeps,
     PhoneSaysKeeps, HostGreetsKeeps, HostStartsKeeps, HostSwitchesKeeps, HostReadsKeeps,
     HostSaysKeeps, PhoneGreetsKeeps, PhoneWaitsKeeps, PhoneReadsKeeps DEF Next

LEMMA Invariance == Spec => []IInv
<1> QED
  BY Starts, NextKeeps, PTL DEF Spec

\* Both ends stay in the states they know, the modes that are picked, asked for and
\* waiting are ones that exist (from_u8 of a byte off the wire), and only a phone of
\* the host's own protocol version gets past the handshake (handle_client).
THEOREM TypeCorrect == Spec => []TypeOK
<1>1. IInv => TypeOK
  <2> SUFFICES ASSUME IInv PROVE TypeOK
    OBVIOUS
  <2>1. Range(pending \o outbox) \subseteq Modes
    <3>1. pending \o outbox \in Seq(Modes)
      BY ConcatProperties DEF IInv, Kept
    <3> DEFINE s == pending \o outbox
    <3>2. s \in Seq(Modes)
      BY <3>1
    <3> HIDE DEF s
    <3>3. Range(s) \subseteq Modes
      BY <3>2 DEF Range
    <3> QED
      BY <3>3 DEF s
  <2>2. at \in {"waiting", "opening", "open"} => host \in {"starting", "streaming"}
    BY DEF IInv, Waits, Agrees
  <2>3. host \in {"starting", "streaming"} => version = PROTOCOL_VERSION
    BY DEF IInv, Hosts
  <2> QED
    BY <2>1, <2>2, <2>3 DEF IInv, Kept, TypeOK
<1> QED
  BY Invariance, <1>1, PTL

\* At every moment, what either end would read of any message under way is what its
\* sender meant, field by field; and the Hello of a client from before the profile
\* is refused, not misread.
THEOREM Understanding == Spec => []HeardAsSaid
<1>1. IInv => HeardAsSaid
  <2> SUFFICES ASSUME IInv PROVE HeardAsSaid
    OBVIOUS
  <2>1. ASSUME NEW e \in Range(down) PROVE PhoneHears(e) = e.said
    <3>1. e \in DownMessages
      BY DEF IInv, Kept, Range
    <3> QED
      BY <3>1, DownHeard
  <2>2. ASSUME NEW e \in Range(up)
        PROVE  HostHears(e) = IF version < 4 THEN Refused ELSE e.said
    <3>1. CASE host = "greeting"
      <4>1. up = <<Hello>>
        BY <3>1 DEF IInv, Hosts
      <4>2. e = Hello
        BY <4>1 DEF Range
      <4> QED
        BY <4>2, HelloIsHeard
    <3>2. CASE host # "greeting"
      <4>1. up \in Seq(UpMessages) /\ (version # PROTOCOL_VERSION => up = <<>>)
        BY <3>2 DEF IInv, Hosts
      <4>2. up # <<>>
        BY <2>2 DEF Range
      <4>3. ~(version < 4)
        BY <4>1, <4>2 DEF PROTOCOL_VERSION
      <4>4. e \in UpMessages
        BY <4>1 DEF Range
      <4> QED
        BY <4>3, <4>4, UpHeard
    <3> QED
      BY <3>1, <3>2
  <2> QED
    BY <2>1, <2>2 DEF HeardAsSaid
<1> QED
  BY Invariance, <1>1, PTL

LEMMA PictureIs ==
  ASSUME preset.width \in Nat \ {0}
  PROVE  Picture = [width |-> preset.width, height |-> preset.height]
<1> DEFINE size == [width |-> preset.width, height |-> preset.height]
           a == Arguments(preset, Source)
<1>1. a.size = Source /\ a.scale = IF size # Source THEN size ELSE NoScale
  BY DEF Arguments
<1>2. size # NoScale
  <2>1. size.width = preset.width /\ NoScale.width = 0
    BY DEF NoScale
  <2> QED
    BY <2>1
<1> HIDE DEF a, size
<1>3. Encoded(a) = size
  BY <1>1, <1>2 DEF Encoded
<1> QED
  BY <1>3 DEF Picture, a, size

LEMMA StreamIs ==
  ASSUME IInv, host = "streaming"
  PROVE  /\ preset.width \in Nat \ {0}
         /\ FitsTheDevice
<1>1. mode \in Modes /\ device \in Profiles /\ preset \in ClampedTo(Preset(mode), device)
  BY NegotiationAssumption DEF IInv, Kept, Hosts, Streams, NegotiationAssumption, Profiles
<1> DEFINE p == Preset(mode)
<1>2. /\ p \in Presets
      /\ \/ p.width = 1280 /\ p.height = 720
         \/ p.width = 1920 /\ p.height = 1080
      /\ \/ p.fps = 30 /\ p.gop \in {8, 15, 30}
         \/ p.fps = 20 /\ p.gop = 20
      /\ Most(p.maxrate \div 10, 1) * 1000 <= p.sndbuf * 8
  BY <1>1, PresetIs
<1>3. /\ preset.width <= CredibleWidth(device) /\ preset.height <= CredibleHeight(device)
      /\ \/ preset.width = p.width /\ preset.height = p.height
         \/ preset.width % 2 = 0 /\ preset.height % 2 = 0
      /\ preset.fps <= CredibleFps(device)
  BY <1>1, <1>2, OnlyReduces
<1> HIDE DEF p
<1>4. preset \in ClampedTo(p, device)
  BY <1>1 DEF p
<1>5. PICK s \in Sizes(p, device) :
        preset = [p EXCEPT !.width = s.width, !.height = s.height,
                           !.fps = Rate(p, device).fps, !.gop = Rate(p, device).gop]
  BY <1>4 DEF ClampedTo
<1>6. /\ preset.width = s.width /\ preset.height = s.height
      /\ preset.fps = Rate(p, device).fps /\ preset.gop = Rate(p, device).gop
      /\ preset.maxrate = p.maxrate /\ preset.sndbuf = p.sndbuf
  BY <1>2, <1>5 DEF Presets
<1>7. /\ preset.width \in Nat \ {0} /\ preset.height \in Nat \ {0}
      /\ -3 * p.width <= preset.width * p.height - preset.height * p.width
      /\ preset.width * p.height - preset.height * p.width <= 3 * p.width
  BY <1>1, <1>2, <1>6, ShapeKept
<1>8. LET late == preset.gop * p.fps - p.gop * preset.fps
      IN -p.fps <= 2 * late /\ 2 * late <= p.fps
  BY <1>1, <1>2, <1>6, KeyframesStay
<1>9. preset.width % 2 = 0 /\ preset.height % 2 = 0
  BY <1>2, <1>3
<1>10. Picture.width = preset.width /\ Picture.height = preset.height
  BY <1>7, PictureIs
<1>11. Arguments(preset, Source).bufsize * 1000 <= preset.sndbuf * 8
  <2>1. Arguments(preset, Source).bufsize = Most(preset.maxrate \div 10, 1)
    BY DEF Arguments
  <2> QED
    BY <1>2, <1>6, <2>1
<1>12. FitsTheDevice
  BY <1>3, <1>7, <1>8, <1>9, <1>10, <1>11 DEF FitsTheDevice, p
<1> QED
  BY <1>7, <1>12

\* What the encoder is started with fits the decoder the phone has described, after
\* every switch of the mode and every reconnection: no larger, no faster, even, of
\* the preset's shape, its keyframes as far apart in time (clamped_to; spawn).
THEOREM StreamFits == Spec => []FitsTheDevice
<1>1. IInv => FitsTheDevice
  BY StreamIs DEF FitsTheDevice
<1> QED
  BY Invariance, <1>1, PTL

\* Once no choice and no announcement is under way, the picker of the phone shows
\* the mode the host streams in and the phone knows its size and rate, but for a
\* mode picked before the connection counts as open (applyInitialVideoConfig;
\* selectMode; the main loop of handle_client).
THEOREM PickerIsRight == Spec => []PickerTellsTheTruth
<1>1. IInv => PickerTellsTheTruth
  <2> SUFFICES ASSUME IInv, at = "open", host = "streaming", Quiet
               PROVE  /\ picked = mode \/ missed
                      /\ config = [width |-> Picture.width, height |-> Picture.height,
                                   fps |-> preset.fps, mode |-> mode,
                                   budget |-> preset.budget]
    BY DEF PickerTellsTheTruth
  <2>1. outbox = <<>> /\ up = <<>> /\ down = <<>> /\ pending = <<>>
    <3>1. outbox \in Seq(Modes) /\ pending \in Seq(Modes) /\ down \in Seq(DownMessages)
          /\ up \in Seq(UpMessages)
      BY DEF IInv, Kept, Hosts
    <3> QED
      BY <3>1 DEF Quiet
  <2>2. ~Asked /\ NoConfigIn(down) /\ ~LastConfigIs(down, Current)
    BY <2>1 DEF Asked, AsksIn, NoConfigIn, LastConfigIs
  <2>3. (picked = mode \/ missed) /\ Describes
    BY <2>2 DEF IInv, Agrees
  <2>4. Picture = [width |-> preset.width, height |-> preset.height]
    BY StreamIs, PictureIs
  <2>5. Picture.width = preset.width /\ Picture.height = preset.height
    BY <2>4
  <2> QED
    BY <2>3, <2>5 DEF Describes
<1> QED
  BY Invariance, <1>1, PTL
=============================================================================
