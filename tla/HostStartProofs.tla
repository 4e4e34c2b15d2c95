--------------------------- MODULE HostStartProofs ---------------------------
(***************************************************************************)
(* Proofs about the configuration file and the start-up of the host.       *)
(*                                                                         *)
(* The first half is about HostConfig alone: completing a file adds the    *)
(* secrets and changes nothing else (CompletingIsExact), and rewriting the *)
(* codec changes the codec and nothing else (RewritingIsExact), for every  *)
(* text the file may have.  The second half proves the invariants of       *)
(* HostStart from one inductive invariant, for processes that start one    *)
(* after the other: HostStart_race shows that two of them that load at the *)
(* same time do break PersistForever.                                      *)
(***************************************************************************)
EXTENDS HostStart, FiniteSetTheorems, SequenceTheorems, TLAPS

-----------------------------------------------------------------------------
(* Places in a text: at most one, the first, the last. *)

Lines == Seq([key : Headers \cup Keys \cup {Comment.key}, value : Values])
Once(S) == \A i, j \in S : i = j

\* A set of places has at most one element iff any two are equal.
LEMMA OnceIsCardinality ==
  ASSUME NEW n \in Nat, NEW S \in SUBSET (1..n)
  PROVE  Cardinality(S) <= 1 <=> Once(S)
<1>1. IsFiniteSet(S)
  <2>1. IsFiniteSet(1..n)
    BY FS_Interval
  <2> QED
    BY <2>1, FS_Subset
<1>2. Cardinality(S) \in Nat
  BY <1>1, FS_CardinalityType
<1>3. ASSUME Cardinality(S) <= 1, NEW i \in S, NEW j \in S
      PROVE  i = j
  <2>1. Cardinality(S) # 0
    BY <1>1, FS_EmptySet
  <2>2. Cardinality(S) = 1
    BY <1>2, <1>3, <2>1
  <2> QED
    BY <1>1, <2>2, FS_Singleton
<1>4. ASSUME Once(S) PROVE Cardinality(S) <= 1
  <2>1. CASE S = {}
    BY <2>1, FS_EmptySet
  <2>2. CASE S # {}
    <3>1. PICK i \in S : TRUE
      BY <2>2
    <3>2. S = {i}
      BY <1>4, <3>1 DEF Once
    <3> QED
      BY <3>2, FS_Singleton
  <2> QED
    BY <2>1, <2>2
<1> QED
  BY <1>3, <1>4 DEF Once

\* Moved to other places in their order, they stay as many.
LEMMA OnceOfImage ==
  ASSUME NEW n \in Nat, NEW at \in [1..n -> Nat], NEW S \in SUBSET (1..n),
         \A i, j \in 1..n : i < j => at[i] < at[j]
  PROVE  Once({at[i] : i \in S}) <=> Once(S)
<1>1. ASSUME NEW i \in S, NEW j \in S, at[i] = at[j]
      PROVE  i = j
  <2>1. i \in 1..n /\ j \in 1..n /\ at[i] \in Nat /\ at[j] \in Nat
    OBVIOUS
  <2>2. ~(i < j) /\ ~(j < i)
    BY <1>1, <2>1
  <2> QED
    BY <2>1, <2>2
<1>2. ASSUME Once(S), NEW x \in {at[i] : i \in S}, NEW y \in {at[i] : i \in S}
      PROVE  x = y
  BY <1>2 DEF Once
<1>3. ASSUME Once({at[i] : i \in S}), NEW i \in S, NEW j \in S
      PROVE  i = j
  <2>1. at[i] = at[j]
    BY <1>3 DEF Once
  <2> QED
    BY <1>1, <2>1
<1> QED
  BY <1>2, <1>3 DEF Once

\* A set of places that is not empty has a first and a last element.
LEMMA LeastPlace ==
  ASSUME NEW S \in SUBSET Nat, S # {}
  PROVE  \E m \in S : \A k \in S : m <= k
<1>1. PICK m \in S : \A k \in S : <<k, m>> \notin OpToRel(<, Nat)
  BY NatLessThanWellFounded, WFMin
<1>2. \A k \in S : ~(k < m)
  BY <1>1 DEF OpToRel
<1> QED
  BY <1>2

LEMMA LastPlace ==
  ASSUME NEW n \in Nat, NEW S \in SUBSET (1..n), S # {}
  PROVE  \E m \in S : \A k \in S : k <= m
<1> DEFINE T == {n - k : k \in S}
<1>1. T \in SUBSET Nat /\ T # {}
  <2>1. \A k \in S : n - k \in Nat
    OBVIOUS
  <2> QED
    BY <2>1
<1>2. PICK u \in T : \A v \in T : u <= v
  BY <1>1, LeastPlace
<1>3. PICK m \in S : u = n - m
  BY <1>2
<1>4. \A k \in S : n - m <= n - k
  BY <1>2, <1>3
<1> QED
  BY <1>4

-----------------------------------------------------------------------------
(* Tables. *)

\* The table of a line is what the last header up to it says.
LEMMA TableIs ==
  ASSUME NEW text, NEW i \in Nat, NEW j \in 1..i, IsHeader(text[j]),
         \A l \in 1..i : IsHeader(text[l]) => l <= j
  PROVE  TableOf(text, i) = text[j].key
<1> DEFINE hs == {l \in 1..i : IsHeader(text[l])}
<1>1. hs # {} /\ j \in hs /\ \A l \in hs : l <= j
  OBVIOUS
<1>2. (CHOOSE m \in hs : \A l \in hs : l <= m) = j
  <2> DEFINE P(m) == m \in hs /\ \A l \in hs : l <= m
  <2>1. P(j)
    BY <1>1
  <2>2. \A m : P(m) => m = j
    BY <1>1
  <2>3. P(CHOOSE m : P(m))
    BY <2>1
  <2> QED
    BY <2>2, <2>3
<1> QED
  BY <1>1, <1>2 DEF TableOf

LEMMA TableCases ==
  ASSUME NEW text, NEW i \in Nat
  PROVE  \/ (\A l \in 1..i : ~IsHeader(text[l])) /\ TableOf(text, i) = ""
         \/ \E j \in 1..i : /\ IsHeader(text[j])
                            /\ \A l \in 1..i : IsHeader(text[l]) => l <= j
                            /\ TableOf(text, i) = text[j].key
<1> DEFINE hs == {l \in 1..i : IsHeader(text[l])}
<1>1. CASE hs = {}
  BY <1>1 DEF TableOf
<1>2. CASE hs # {}
  <2>1. PICK j \in hs : \A l \in hs : l <= j
    BY <1>2, LastPlace
  <2>2. j \in 1..i /\ IsHeader(text[j]) /\ \A l \in 1..i : IsHeader(text[l]) => l <= j
    BY <2>1
  <2> QED
    BY <2>2, TableIs
<1> QED
  BY <1>1, <1>2

-----------------------------------------------------------------------------
(* A text that contains another. *)

\* new has the lines of old at the places `at`, in their order, with their keys;
\* a header that was added comes behind all of them.
Added(new, old, at) == 1..Len(new) \ {at[i] : i \in 1..Len(old)}
Includes(new, old, at) ==
  /\ at \in [1..Len(old) -> 1..Len(new)]
  /\ \A i, j \in 1..Len(old) : i < j => at[i] < at[j]
  /\ \A i \in 1..Len(old) : new[at[i]].key = old[i].key
  /\ \A j \in Added(new, old, at) : IsHeader(new[j]) =>
       \A i \in 1..Len(old) : at[i] < j

\* A line stays in its table.
LEMMA TableKept ==
  ASSUME NEW old \in Lines, NEW new \in Lines, NEW at, Includes(new, old, at),
         NEW i \in 1..Len(old)
  PROVE  TableOf(new, at[i]) = TableOf(old, i)
<1>0. Len(old) \in Nat /\ Len(new) \in Nat /\ at[i] \in 1..Len(new) /\ i \in Nat
  BY DEF Lines, Includes
<1>1. ASSUME NEW l \in 1..at[i], IsHeader(new[l])
      PROVE  \E j \in 1..i : l = at[j] /\ IsHeader(old[j])
  <2>1. l \in 1..Len(new)
    BY <1>0
  <2>2. l \notin Added(new, old, at)
    BY <1>0, <1>1 DEF Includes
  <2>3. PICK j \in 1..Len(old) : l = at[j]
    BY <2>1, <2>2 DEF Added
  <2>4. j <= i
    BY <1>0, <2>3 DEF Includes
  <2>5. IsHeader(old[j])
    BY <1>1, <2>3 DEF Includes, IsHeader
  <2> QED
    BY <1>0, <2>3, <2>4, <2>5
<1>2. CASE \A l \in 1..i : ~IsHeader(old[l])
  <2>1. \A l \in 1..at[i] : ~IsHeader(new[l])
    BY <1>1, <1>2
  <2>2. TableOf(new, at[i]) = ""
    <3>1. at[i] \in Nat
      BY <1>0
    <3> QED
      BY <2>1, <3>1, TableCases
  <2>3. TableOf(old, i) = ""
    BY <1>0, <1>2, TableCases
  <2> QED
    BY <2>2, <2>3
<1>3. CASE \E j \in 1..i : /\ IsHeader(old[j])
                           /\ \A l \in 1..i : IsHeader(old[l]) => l <= j
                           /\ TableOf(old, i) = old[j].key
  <2>1. PICK j \in 1..i : /\ IsHeader(old[j])
                          /\ \A l \in 1..i : IsHeader(old[l]) => l <= j
                          /\ TableOf(old, i) = old[j].key
    BY <1>3
  <2>2. j \in 1..Len(old) /\ (j < i \/ j = i)
    BY <1>0
  <2>3. at[j] \in 1..at[i]
    BY <1>0, <2>2 DEF Includes
  <2>4. new[at[j]].key = old[j].key
    BY <2>2 DEF Includes
  <2>5. IsHeader(new[at[j]])
    BY <2>1, <2>4 DEF IsHeader
  <2>6. ASSUME NEW l \in 1..at[i], IsHeader(new[l]) PROVE l <= at[j]
    <3>1. PICK m \in 1..i : l = at[m] /\ IsHeader(old[m])
      BY <1>1, <2>6
    <3>2. m <= j /\ m \in 1..Len(old)
      BY <1>0, <2>1, <3>1
    <3> QED
      BY <1>0, <2>2, <3>1, <3>2 DEF Includes
  <2>7. TableOf(new, at[i]) = new[at[j]].key
    BY <1>0, <2>3, <2>5, <2>6, TableIs
  <2> QED
    BY <2>1, <2>4, <2>7
<1> QED
  BY <1>0, <1>2, <1>3, TableCases

\* The places of a key in a table: those it had, and those that were added.
LEMMA PlacesKept ==
  ASSUME NEW old \in Lines, NEW new \in Lines, NEW at, Includes(new, old, at),
         NEW t, NEW k
  PROVE  Places(new, t, k) =
           {at[i] : i \in Places(old, t, k)} \cup
           {j \in Added(new, old, at) : new[j].key = k /\ TableOf(new, j) = t}
<1>1. \A i \in 1..Len(old) : /\ at[i] \in 1..Len(new)
                             /\ new[at[i]].key = old[i].key
                             /\ TableOf(new, at[i]) = TableOf(old, i)
  BY TableKept DEF Includes
<1> QED
  BY <1>1 DEF Places, Added

\* If none were added, there are as many as there were, and the value is as it
\* was if those lines are.
LEMMA ValueKept ==
  ASSUME NEW old \in Lines, NEW new \in Lines, NEW at, Includes(new, old, at),
         NEW t, NEW k,
         \A j \in Added(new, old, at) : ~(new[j].key = k /\ TableOf(new, j) = t)
  PROVE  /\ Once(Places(new, t, k)) <=> Once(Places(old, t, k))
         /\ Places(new, t, k) = {} <=> Places(old, t, k) = {}
         /\ Once(Places(old, t, k))
            /\ (\A i \in Places(old, t, k) : new[at[i]].value = old[i].value) =>
              \A d : Value(new, t, k, d) = Value(old, t, k, d)
<1>1. Places(new, t, k) = {at[i] : i \in Places(old, t, k)}
  BY PlacesKept
<1>2. Places(old, t, k) \subseteq 1..Len(old)
  BY DEF Places
<1>3. Once({at[i] : i \in Places(old, t, k)}) <=> Once(Places(old, t, k))
  <2>1. Len(old) \in Nat /\ at \in [1..Len(old) -> Nat]
    BY DEF Includes, Lines
  <2>2. \A i, j \in 1..Len(old) : i < j => at[i] < at[j]
    BY DEF Includes
  <2> QED
    BY <1>2, <2>1, <2>2, OnceOfImage
<1>4. Once(Places(new, t, k)) <=> Once(Places(old, t, k))
  BY <1>1, <1>3
<1>5. Places(new, t, k) = {} <=> Places(old, t, k) = {}
  BY <1>1
<1>6. ASSUME Once(Places(old, t, k)), NEW d,
             \A i \in Places(old, t, k) : new[at[i]].value = old[i].value
      PROVE  Value(new, t, k, d) = Value(old, t, k, d)
  <2>1. CASE Places(old, t, k) = {}
    BY <1>5, <2>1 DEF Value
  <2>2. CASE Places(old, t, k) # {}
    <3>1. PICK i \in Places(old, t, k) : TRUE
      BY <2>2
    <3>2. Places(old, t, k) = {i} /\ Places(new, t, k) = {at[i]}
      BY <1>1, <1>6, <3>1 DEF Once
    <3>3. Value(new, t, k, d) = new[at[i]].value /\ Value(old, t, k, d) = old[i].value
      BY <3>2 DEF Value
    <3> QED
      BY <1>6, <3>1, <3>3
  <2> QED
    BY <2>1, <2>2
<1> QED
  BY <1>4, <1>5, <1>6

\* The same for the lines of a header.
Heads(text, h) == {i \in 1..Len(text) : text[i].key = h}
LEMMA HeadsKept ==
  ASSUME NEW old \in Lines, NEW new \in Lines, NEW at, Includes(new, old, at),
         NEW h, \A j \in Added(new, old, at) : new[j].key # h
  PROVE  /\ Once(Heads(new, h)) <=> Once(Heads(old, h))
         /\ Heads(new, h) = {} <=> Heads(old, h) = {}
<1>1. Heads(new, h) = {at[i] : i \in Heads(old, h)}
  BY DEF Includes, Added, Heads
<1>2. Heads(old, h) \subseteq 1..Len(old)
  BY DEF Heads
<1>3. Once({at[i] : i \in Heads(old, h)}) <=> Once(Heads(old, h))
  <2>1. Len(old) \in Nat /\ at \in [1..Len(old) -> Nat]
    BY DEF Includes, Lines
  <2>2. \A i, j \in 1..Len(old) : i < j => at[i] < at[j]
    BY DEF Includes
  <2> QED
    BY <1>2, <2>1, <2>2, OnceOfImage
<1> QED
  BY <1>1, <1>3

LEMMA ParsesIs ==
  ASSUME NEW text \in Lines
  PROVE  Parses(text) <=>
           /\ \A h \in Headers : Once(Heads(text, h))
           /\ \A t \in Headers, k \in Keys : Once(Places(text, t, k))
           /\ Heads(text, "[host]") # {} /\ Heads(text, "[gpu]") # {}
           /\ Places(text, "[gpu]", "vaapi_render_node") # {}
<1>1. Len(text) \in Nat
  BY DEF Lines
<1>2. \A h : Cardinality(Heads(text, h)) <= 1 <=> Once(Heads(text, h))
  <2> TAKE h
  <2>1. Heads(text, h) \in SUBSET (1..Len(text))
    BY DEF Heads
  <2> QED
    BY <1>1, <2>1, OnceIsCardinality
<1>3. \A t, k : Cardinality(Places(text, t, k)) <= 1 <=> Once(Places(text, t, k))
  <2> TAKE t, k
  <2>1. Places(text, t, k) \in SUBSET (1..Len(text))
    BY DEF Places
  <2> QED
    BY <1>1, <2>1, OnceIsCardinality
<1>4. \A h : (\E i \in 1..Len(text) : text[i].key = h) <=> Heads(text, h) # {}
  BY DEF Heads
<1>5. Parses(text) <=>
        /\ \A h \in Headers : Cardinality(Heads(text, h)) <= 1
        /\ \A t \in Headers, k \in Keys : Cardinality(Places(text, t, k)) <= 1
        /\ \A h \in {"[host]", "[gpu]"} : \E i \in 1..Len(text) : text[i].key = h
        /\ Places(text, "[gpu]", "vaapi_render_node") # {}
  BY DEF Parses, Heads
<1> QED
  BY <1>2, <1>3, <1>4, <1>5

-----------------------------------------------------------------------------
(* What load appends. *)

Nowhere(text) == \A i \in 1..Len(text) : text[i] # Header("[pairing]")
Needs(text) == NeedsToken(Parse(text)) \/ NeedsKeys(Parse(text))

OneLine == [key : Headers \cup Keys \cup {Comment.key}, value : Values]
LEMMA LineType ==
  /\ \A k \in Headers \cup Keys, v \in Values : Line(k, v) \in OneLine
  /\ \A h \in Headers : Header(h) \in OneLine
  /\ "" \in Values /\ SelectableCodecs \subseteq Values
<1>1. "" \in Values /\ SelectableCodecs \subseteq Values
  BY DEF Values
<1>2. \A k \in Headers \cup Keys, v \in Values : Line(k, v) \in OneLine
  BY DEF Line, OneLine
<1> QED
  BY <1>1, <1>2 DEF Header

LEMMA ShortLines ==
  /\ <<>> \in Lines /\ Len(<<>>) = 0
  /\ \A a \in OneLine :
       <<a>> \in Lines /\ Len(<<a>>) = 1 /\ <<a>>[1] = a
  /\ \A a, b \in OneLine :
       <<a, b>> \in Lines /\ Len(<<a, b>>) = 2 /\ <<a, b>>[1] = a /\ <<a, b>>[2] = b
BY DEF Lines, OneLine

LEMMA Concatenated ==
  ASSUME NEW s1 \in Lines, NEW s2 \in Lines
  PROVE  /\ s1 \o s2 \in Lines
         /\ Len(s1 \o s2) = Len(s1) + Len(s2)
         /\ \A i \in 1..(Len(s1) + Len(s2)) :
              (s1 \o s2)[i] = IF i <= Len(s1) THEN s1[i] ELSE s2[i - Len(s1)]
BY ConcatProperties DEF Lines

LEMMA LineOfText ==
  ASSUME NEW text \in Lines, NEW i \in 1..Len(text)
  PROVE  text[i] \in [key : Headers \cup Keys \cup {Comment.key}, value : Values]
BY ElementOfSeq DEF Lines

\* Which lines are headers.
LEMMA HeaderLines ==
  /\ \A h \in Headers : IsHeader(Header(h)) /\ Header(h).key = h
  /\ \A k \in Keys : \A v : ~IsHeader(Line(k, v)) /\ Line(k, v).key = k
<1>1. \A h \in Headers : Header(h).key = h
  BY DEF Header, Line
<1>2. \A k, v : Line(k, v).key = k
  BY DEF Line
<1>3. \A k \in Keys : k \notin Headers
  BY DEF Keys, Headers
<1> QED
  BY <1>1, <1>2, <1>3 DEF IsHeader

\* The lines of Appended, by what they are.
LEMMA AppendedLines ==
  ASSUME NEW text \in Lines, NEW fresh \in Values
  PROVE  /\ Appended(text, fresh) \in Lines
         /\ Appended(text, fresh) = <<>> <=> ~Needs(text)
         /\ \A i \in 1..Len(Appended(text, fresh)) :
              LET line == Appended(text, fresh)[i]
              IN \/ line = Header("[pairing]") /\ i = 1 /\ Nowhere(text)
                 \/ line = Line("token", fresh) /\ NeedsToken(Parse(text))
                 \/ /\ line \in {Line("noise_private_key", fresh),
                                 Line("noise_public_key", fresh)}
                    /\ NeedsKeys(Parse(text))
         /\ Needs(text) /\ Nowhere(text) =>
              Appended(text, fresh)[1] = Header("[pairing]")
         /\ \A k \in {"token", "noise_private_key", "noise_public_key"} :
              Once(Heads(Appended(text, fresh), k))
         /\ NeedsToken(Parse(text)) => Heads(Appended(text, fresh), "token") # {}
         /\ NeedsKeys(Parse(text)) =>
              /\ Heads(Appended(text, fresh), "noise_private_key") # {}
              /\ Heads(Appended(text, fresh), "noise_public_key") # {}
<1>0. /\ Header("[pairing]") \in OneLine
      /\ Line("token", fresh) \in OneLine
      /\ Line("noise_private_key", fresh) \in OneLine
      /\ Line("noise_public_key", fresh) \in OneLine
  BY LineType DEF Headers, Keys
<1> DEFINE header == IF Nowhere(text) /\ Needs(text) THEN <<Header("[pairing]")>>
                                                     ELSE <<>>
           token == IF NeedsToken(Parse(text)) THEN <<Line("token", fresh)>> ELSE <<>>
           keys == IF NeedsKeys(Parse(text))
                   THEN <<Line("noise_private_key", fresh),
                          Line("noise_public_key", fresh)>> ELSE <<>>
           more == header \o token \o keys
<1>1. Appended(text, fresh) = more
  BY DEF Appended, HasPairingHeader, Nowhere, Needs
<1>2. /\ header \in Lines /\ token \in Lines /\ keys \in Lines
      /\ Len(header) = IF Nowhere(text) /\ Needs(text) THEN 1 ELSE 0
      /\ Len(token) = IF NeedsToken(Parse(text)) THEN 1 ELSE 0
      /\ Len(keys) = IF NeedsKeys(Parse(text)) THEN 2 ELSE 0
      /\ Nowhere(text) /\ Needs(text) => header[1] = Header("[pairing]")
      /\ NeedsToken(Parse(text)) => token[1] = Line("token", fresh)
      /\ NeedsKeys(Parse(text)) => /\ keys[1] = Line("noise_private_key", fresh)
                                   /\ keys[2] = Line("noise_public_key", fresh)
  <2>5. header \in Lines /\ Len(header) = (IF Nowhere(text) /\ Needs(text) THEN 1 ELSE 0)
        /\ (Nowhere(text) /\ Needs(text) => header[1] = Header("[pairing]"))
    <3>1. CASE Nowhere(text) /\ Needs(text)
      <4>1. header = <<Header("[pairing]")>>
        BY <3>1
      <4> HIDE DEF header
      <4> QED
        BY <1>0, <3>1, <4>1, ShortLines
    <3>2. CASE ~(Nowhere(text) /\ Needs(text))
      <4>1. header = <<>>
        BY <3>2
      <4> HIDE DEF header
      <4> QED
        BY <3>2, <4>1, ShortLines
    <3> QED
      BY <3>1, <3>2
  <2>6. token \in Lines /\ Len(token) = (IF NeedsToken(Parse(text)) THEN 1 ELSE 0)
        /\ (NeedsToken(Parse(text)) => token[1] = Line("token", fresh))
    <3>1. CASE NeedsToken(Parse(text))
      <4>1. token = <<Line("token", fresh)>>
        BY <3>1
      <4> HIDE DEF token
      <4> QED
        BY <1>0, <3>1, <4>1, ShortLines
    <3>2. CASE ~NeedsToken(Parse(text))
      <4>1. token = <<>>
        BY <3>2
      <4> HIDE DEF token
      <4> QED
        BY <3>2, <4>1, ShortLines
    <3> QED
      BY <3>1, <3>2
  <2>7. keys \in Lines /\ Len(keys) = (IF NeedsKeys(Parse(text)) THEN 2 ELSE 0)
        /\ (NeedsKeys(Parse(text)) => keys[1] = Line("noise_private_key", fresh)
                                    /\ keys[2] = Line("noise_public_key", fresh))
    <3>1. CASE NeedsKeys(Parse(text))
      <4>1. keys = <<Line("noise_private_key", fresh), Line("noise_public_key", fresh)>>
        BY <3>1
      <4> HIDE DEF keys
      <4> QED
        BY <1>0, <3>1, <4>1, ShortLines
    <3>2. CASE ~NeedsKeys(Parse(text))
      <4>1. keys = <<>>
        BY <3>2
      <4> HIDE DEF keys
      <4> QED
        BY <3>2, <4>1, ShortLines
    <3> QED
      BY <3>1, <3>2
  <2> QED
    BY <2>5, <2>6, <2>7
<1> DEFINE n == Len(header)
           m == Len(header) + Len(token)
<1>3. /\ header \o token \in Lines
      /\ Len(header \o token) = m
      /\ \A i \in 1..m : (header \o token)[i] = IF i <= n THEN header[i] ELSE token[i - n]
  <2> HIDE DEF header, token, keys
  <2> QED
    BY <1>2, ConcatProperties DEF Lines
<1>4. /\ more \in Lines
      /\ Len(more) = m + Len(keys)
      /\ \A i \in 1..(m + Len(keys)) :
           more[i] = IF i <= m THEN (header \o token)[i] ELSE keys[i - m]
  <2> DEFINE ht == header \o token
  <2>1. ht \in Lines /\ Len(ht) = m /\ more = ht \o keys
    BY <1>3
  <2> HIDE DEF ht, keys, header, token, m
  <2>2. /\ ht \o keys \in Lines
        /\ Len(ht \o keys) = Len(ht) + Len(keys)
        /\ \A i \in 1..(Len(ht) + Len(keys)) :
             (ht \o keys)[i] = IF i <= Len(ht) THEN ht[i] ELSE keys[i - Len(ht)]
    BY <1>2, <2>1, ConcatProperties DEF Lines
  <2>3. ht = header \o token
    BY DEF ht
  <2> QED
    BY <2>1, <2>2, <2>3
<1>5. \A i \in 1..(m + Len(keys)) :
        more[i] = IF i <= n THEN header[i]
                  ELSE IF i <= m THEN token[i - n] ELSE keys[i - m]
  <2> HIDE DEF more, header, token, keys
  <2>1. n \in Nat /\ Len(token) \in Nat /\ Len(keys) \in Nat
    BY <1>2
  <2> QED
    BY <1>3, <1>4, <2>1
<1> HIDE DEF more, header, token, keys
<1> DEFINE T == NeedsToken(Parse(text))
           K == NeedsKeys(Parse(text))
<1>6. n \in {0, 1} /\ m \in {n, n + 1} /\ Len(keys) \in {0, 2}
  BY <1>2
<1>7. \A i \in 1..Len(more) :
        \/ i = 1 /\ n = 1 /\ more[i] = Header("[pairing]") /\ Nowhere(text)
        \/ i = n + 1 /\ m = n + 1 /\ T /\ more[i] = Line("token", fresh)
        \/ i = m + 1 /\ K /\ more[i] = Line("noise_private_key", fresh)
        \/ i = m + 2 /\ K /\ more[i] = Line("noise_public_key", fresh)
  BY <1>2, <1>4, <1>5, <1>6
<1>8. /\ T => n + 1 \in 1..Len(more) /\ more[n + 1] = Line("token", fresh)
      /\ K => /\ m + 1 \in 1..Len(more) /\ more[m + 1] = Line("noise_private_key", fresh)
              /\ m + 2 \in 1..Len(more) /\ more[m + 2] = Line("noise_public_key", fresh)
      /\ Needs(text) /\ Nowhere(text) => more[1] = Header("[pairing]")
  BY <1>2, <1>4, <1>5, <1>6 DEF Needs
<1>9. more = <<>> <=> ~Needs(text)
  <2>1. Len(more) = 0 <=> ~Needs(text)
    BY <1>2, <1>4, <1>6 DEF Needs
  <2> QED
    BY <1>4, <2>1, EmptySeq DEF Lines
<1>10. /\ Header("[pairing]").key = "[pairing]"
       /\ Line("token", fresh).key = "token"
       /\ Line("noise_private_key", fresh).key = "noise_private_key"
       /\ Line("noise_public_key", fresh).key = "noise_public_key"
  BY DEF Header, Line
<1>11. /\ Heads(more, "token") \subseteq {n + 1}
       /\ Heads(more, "noise_private_key") \subseteq {m + 1}
       /\ Heads(more, "noise_public_key") \subseteq {m + 2}
  BY <1>7, <1>10 DEF Heads
<1>12. /\ T => Heads(more, "token") # {}
       /\ K => Heads(more, "noise_private_key") # {} /\ Heads(more, "noise_public_key") # {}
  BY <1>8, <1>10 DEF Heads
<1>13. \A k \in {"token", "noise_private_key", "noise_public_key"} : Once(Heads(more, k))
  BY <1>11 DEF Once
<1>14. \A i \in 1..Len(more) :
         \/ more[i] = Header("[pairing]") /\ i = 1 /\ Nowhere(text)
         \/ more[i] = Line("token", fresh) /\ T
         \/ /\ more[i] \in {Line("noise_private_key", fresh), Line("noise_public_key", fresh)}
            /\ K
  BY <1>7
<1> QED
  BY <1>1, <1>4, <1>8, <1>9, <1>12, <1>13, <1>14

\* What load appends to a file becomes part of its [pairing].
LEMMA AppendedToPairing ==
  ASSUME NEW text, WellFormed(text, Values), Appendable(text),
         NEW fresh \in Values, Needs(text)
  PROVE  LET more == Appended(text, fresh)
             new == text \o more
             at == [i \in 1..Len(text) |-> i]
         IN /\ text \in Lines /\ new \in Lines /\ more \in Lines
            /\ Len(new) = Len(text) + Len(more)
            /\ \A i \in 1..Len(text) : new[i] = text[i]
            /\ \A i \in 1..Len(more) : new[Len(text) + i] = more[i]
            /\ Includes(new, text, at)
            /\ Added(new, text, at) = (Len(text) + 1)..(Len(text) + Len(more))
            /\ \A j \in Added(new, text, at) : TableOf(new, j) = "[pairing]"
<1> DEFINE more == Appended(text, fresh)
           new == text \o more
           n == Len(text)
           at == [i \in 1..n |-> i]
<1>1. text \in Lines /\ n \in Nat
  BY DEF WellFormed, Lines
<1>2. more \in Lines /\ Len(more) \in Nat
  <2>1. more \in Lines
    BY <1>1, AppendedLines
  <2> QED
    BY <2>1, LenProperties DEF Lines
<1>3. \A i \in 1..Len(more) :
        IsHeader(more[i]) => more[i] = Header("[pairing]") /\ i = 1 /\ Nowhere(text)
  <2>1. \A i \in 1..Len(more) :
          \/ more[i] = Header("[pairing]") /\ i = 1 /\ Nowhere(text)
          \/ more[i] \in {Line("token", fresh), Line("noise_private_key", fresh),
                          Line("noise_public_key", fresh)}
    BY <1>1, AppendedLines
  <2>2. \A l \in {Line("token", fresh), Line("noise_private_key", fresh),
                  Line("noise_public_key", fresh)} : ~IsHeader(l)
    BY DEF IsHeader, Line, Headers
  <2> QED
    BY <2>1, <2>2
<1>4. Nowhere(text) => Len(more) >= 1 /\ more[1] = Header("[pairing]")
  <2>1. Nowhere(text) => more[1] = Header("[pairing]")
    BY <1>1, AppendedLines
  <2>2. more # <<>>
    BY <1>1, AppendedLines
  <2>3. Len(more) # 0
    BY <1>2, <2>2, EmptySeq DEF Lines
  <2> QED
    BY <1>2, <2>1, <2>3
<1> HIDE DEF more
<1>5. /\ new \in Lines /\ Len(new) = n + Len(more)
      /\ \A i \in 1..(n + Len(more)) : new[i] = IF i <= n THEN text[i] ELSE more[i - n]
  BY <1>1, <1>2, ConcatProperties DEF Lines
<1> HIDE DEF new
<1>6. /\ \A i \in 1..n : new[i] = text[i]
      /\ \A i \in 1..Len(more) : new[n + i] = more[i]
  <2>1. ASSUME NEW i \in 1..n PROVE new[i] = text[i]
    BY <1>1, <1>2, <1>5
  <2>2. ASSUME NEW i \in 1..Len(more) PROVE new[n + i] = more[i]
    <3>1. n + i \in 1..(n + Len(more)) /\ ~(n + i <= n) /\ (n + i) - n = i
      BY <1>1, <1>2
    <3> QED
      BY <1>5, <3>1
  <2> QED
    BY <2>1, <2>2
<1>7. at \in [1..n -> 1..Len(new)] /\ \A i \in 1..n : at[i] = i
  BY <1>1, <1>2, <1>5
<1>8. {at[i] : i \in 1..n} = 1..n
  BY <1>7
<1>9. Added(new, text, at) = (n + 1)..(n + Len(more))
  <2>1. 1..(n + Len(more)) \ 1..n = (n + 1)..(n + Len(more))
    BY <1>1, <1>2
  <2> QED
    BY <1>5, <1>8, <2>1 DEF Added
<1>10. Includes(new, text, at)
  <2>1. \A i, j \in 1..n : i < j => at[i] < at[j]
    BY <1>7
  <2>2. \A i \in 1..n : new[at[i]].key = text[i].key
    BY <1>6, <1>7
  <2>3. \A j \in Added(new, text, at) : \A i \in 1..n : at[i] < j
    BY <1>1, <1>2, <1>7, <1>9
  <2> QED
    BY <1>7, <2>1, <2>2, <2>3 DEF Includes
<1>11. ASSUME NEW j \in (n + 1)..(n + Len(more))
       PROVE  TableOf(new, j) = "[pairing]"
  <2>1. j \in Nat /\ j - n \in 1..Len(more) /\ j > n
    BY <1>1, <1>2
  <2>2. Header("[pairing]").key = "[pairing]" /\ IsHeader(Header("[pairing]"))
    BY DEF Header, Line, IsHeader, Headers
  <2>3. CASE Nowhere(text)
    <3>1. n + 1 \in 1..j /\ new[n + 1] = Header("[pairing]")
      BY <1>1, <1>2, <1>4, <1>6, <2>1, <2>3
    <3>2. \A l \in 1..j : IsHeader(new[l]) => l <= n + 1
      <4> SUFFICES ASSUME NEW l \in 1..j, IsHeader(new[l]), ~(l <= n + 1)
                   PROVE  FALSE
        OBVIOUS
      <4>1. l - n \in 1..Len(more) /\ l = n + (l - n) /\ l - n # 1
        BY <1>1, <1>2
      <4>2. IsHeader(more[l - n])
        BY <1>6, <4>1
      <4> QED
        BY <1>3, <4>1, <4>2
    <3> QED
      BY <2>1, <2>2, <3>1, <3>2, TableIs
  <2>4. CASE ~Nowhere(text)
    <3>1. PICK i \in 1..n : text[i] = Header("[pairing]")
      BY <2>4 DEF Nowhere
    <3>2. \A l \in 1..n : IsHeader(text[l]) => l <= i
      BY <2>2, <3>1 DEF Appendable, Needs
    <3>3. \A l \in 1..j : IsHeader(new[l]) => l <= i
      <4> SUFFICES ASSUME NEW l \in 1..j, IsHeader(new[l]) PROVE l <= i
        OBVIOUS
      <4>1. CASE l <= n
        <5>1. l \in 1..n
          BY <1>1, <4>1
        <5> QED
          BY <1>6, <3>2, <5>1
      <4>2. CASE ~(l <= n)
        <5>1. l - n \in 1..Len(more) /\ l = n + (l - n)
          BY <1>1, <1>2, <4>2
        <5>2. IsHeader(more[l - n])
          BY <1>6, <5>1
        <5> QED
          BY <1>3, <2>4, <5>1, <5>2
      <4> QED
        BY <4>1, <4>2
    <3>4. i \in 1..j /\ new[i] = Header("[pairing]")
      BY <1>1, <1>6, <2>1, <3>1
    <3> QED
      BY <2>1, <2>2, <3>3, <3>4, TableIs
  <2> QED
    BY <2>3, <2>4
<1>12. at = [i \in 1..Len(text) |-> i]
  OBVIOUS
<1> HIDE DEF at
<1>13. \A j \in Added(new, text, at) : TableOf(new, j) = "[pairing]"
  BY <1>9, <1>11
<1>14. /\ text \in Lines /\ new \in Lines /\ more \in Lines
       /\ Len(new) = Len(text) + Len(more)
       /\ \A i \in 1..Len(text) : new[i] = text[i]
       /\ \A i \in 1..Len(more) : new[Len(text) + i] = more[i]
  BY <1>1, <1>2, <1>5, <1>6
<1> QED
  BY <1>9, <1>10, <1>12, <1>13, <1>14 DEF new, more

\* Completing a file that parses gives one that parses, with the secrets that
\* were missing and everything else as it was: what load returns is what the
\* next load will read (HostConfig::load).
THEOREM CompletingIsExact ==
  ASSUME NEW text, WellFormed(text, Values), Parses(text), Appendable(text),
         NEW fresh \in Values
  PROVE  LET new == text \o Appended(text, fresh)
         IN /\ WellFormed(new, Values)
            /\ Parses(new)
            /\ Parse(new) = Complete(Parse(text), fresh)
<1> DEFINE more == Appended(text, fresh)
           new == text \o more
           n == Len(text)
           at == [i \in 1..n |-> i]
           T == NeedsToken(Parse(text))
           K == NeedsKeys(Parse(text))
           New(k) == \/ k = "token" /\ T
                     \/ k \in {"noise_private_key", "noise_public_key"} /\ K
<1>1. CASE ~Needs(text)
  <2>1. text \in Lines
    BY DEF WellFormed, Lines
  <2>2. more = <<>>
    BY <1>1, <2>1, AppendedLines
  <2>3. new = text
    BY <2>1, <2>2, ConcatEmptySeq DEF Lines
  <2>4. Complete(Parse(text), fresh) = Parse(text)
    BY <1>1 DEF Complete, Needs, Parse
  <2> QED
    BY <2>3, <2>4
<1>2. CASE Needs(text)
  <2>1. /\ text \in Lines /\ new \in Lines /\ more \in Lines
        /\ Len(new) = n + Len(more)
        /\ \A i \in 1..n : new[i] = text[i]
        /\ \A i \in 1..Len(more) : new[n + i] = more[i]
        /\ Includes(new, text, at)
        /\ Added(new, text, at) = (n + 1)..(n + Len(more))
        /\ \A j \in Added(new, text, at) : TableOf(new, j) = "[pairing]"
    BY <1>2, AppendedToPairing
  <2>2. /\ \A i \in 1..Len(more) :
              \/ more[i] = Header("[pairing]") /\ i = 1 /\ Nowhere(text)
              \/ more[i] = Line("token", fresh) /\ T
              \/ more[i] \in {Line("noise_private_key", fresh),
                              Line("noise_public_key", fresh)} /\ K
        /\ \A k \in {"token", "noise_private_key", "noise_public_key"} :
             Once(Heads(more, k))
        /\ T => Heads(more, "token") # {}
        /\ K => /\ Heads(more, "noise_private_key") # {}
                /\ Heads(more, "noise_public_key") # {}
    BY <2>1, AppendedLines
  <2>3. n \in Nat /\ Len(more) \in Nat
    BY <2>1, LenProperties DEF Lines
  <2>4. /\ Header("[pairing]").key = "[pairing]"
        /\ Line("token", fresh).key = "token"
        /\ Line("noise_private_key", fresh).key = "noise_private_key"
        /\ Line("noise_public_key", fresh).key = "noise_public_key"
    BY DEF Header, Line
  <2> HIDE DEF at, more
  <2> DEFINE A == Added(new, text, at)
  <2>5. \A j \in A : j - n \in 1..Len(more) /\ new[j] = more[j - n] /\ j = n + (j - n)
    BY <2>1, <2>3
  <2>6. \A i \in 1..Len(more) : n + i \in A
    BY <2>1, <2>3
  <2>7. \A i \in 1..n : at[i] = i
    BY DEF at
  <2> HIDE DEF A, new, T, K, New
  <2>8. \A j \in A :
          \/ new[j].key = "[pairing]" /\ j = n + 1 /\ Nowhere(text)
          \/ new[j] = Line("token", fresh) /\ new[j].key = "token" /\ T
          \/ /\ new[j] \in {Line("noise_private_key", fresh),
                            Line("noise_public_key", fresh)}
             /\ new[j].key \in {"noise_private_key", "noise_public_key"} /\ K
    BY <2>2, <2>4, <2>5
  <2>9. ASSUME NEW t \in Headers, NEW k \in Keys,
               t # "[pairing]" \/ ~New(k)
        PROVE  /\ Once(Places(new, t, k))
               /\ Places(new, t, k) = {} <=> Places(text, t, k) = {}
               /\ \A d : Value(new, t, k, d) = Value(text, t, k, d)
    <3>1. \A j \in A : ~(new[j].key = k /\ TableOf(new, j) = t)
      <4> SUFFICES ASSUME NEW j \in A, new[j].key = k, TableOf(new, j) = t
                   PROVE  FALSE
        OBVIOUS
      <4>1. t = "[pairing]"
        BY <2>1 DEF A
      <4>2. k # "[pairing]"
        BY DEF Keys
      <4>3. New(k)
        <5>1. \/ new[j].key = "[pairing]"
              \/ new[j].key = "token" /\ T
              \/ new[j].key \in {"noise_private_key", "noise_public_key"} /\ K
          BY <2>8
        <5> QED
          BY <4>2, <5>1 DEF New
      <4> QED
        BY <2>9, <4>1, <4>3
    <3>2. Once(Places(text, t, k))
      BY <2>1, ParsesIs
    <3>3. \A i \in Places(text, t, k) : new[at[i]].value = text[i].value
      BY <2>1, <2>7 DEF Places
    <3> QED
      <4>1. \A j \in Added(new, text, at) : ~(new[j].key = k /\ TableOf(new, j) = t)
        BY <3>1 DEF A
      <4>2. text \in Lines /\ new \in Lines /\ Includes(new, text, at)
        BY <2>1
      <4> QED
        BY <3>2, <3>3, <4>1, <4>2, ValueKept
  <2>10. ASSUME NEW k \in {"token", "noise_private_key", "noise_public_key"}, New(k)
         PROVE  /\ Once(Places(new, "[pairing]", k))
                /\ \A d : Value(new, "[pairing]", k, d) = fresh
    <3>1. Places(text, "[pairing]", k) = {}
      BY <2>10 DEF Appendable, T, K, New
    <3>2. Places(new, "[pairing]", k) = {j \in A : new[j].key = k}
      <4>1. Places(new, "[pairing]", k) =
              {at[i] : i \in Places(text, "[pairing]", k)} \cup
              {j \in A : new[j].key = k /\ TableOf(new, j) = "[pairing]"}
        BY <2>1, PlacesKept DEF A
      <4> QED
        BY <2>1, <3>1, <4>1 DEF A
    <3>3. PICK i \in Heads(more, k) : \A l \in Heads(more, k) : l = i
      <4>1. Heads(more, k) # {}
        BY <2>2, <2>10 DEF New
      <4>2. Once(Heads(more, k))
        BY <2>2
      <4> QED
        BY <4>1, <4>2 DEF Once
    <3>4. i \in 1..Len(more) /\ more[i].key = k
      BY <3>3 DEF Heads
    <3>5. {j \in A : new[j].key = k} = {n + i}
      <4>1. n + i \in A /\ new[n + i].key = k
        BY <2>1, <2>6, <3>4
      <4>2. ASSUME NEW j \in A, new[j].key = k PROVE j = n + i
        <5>1. j - n \in Heads(more, k)
          BY <2>5, <4>2 DEF Heads
        <5> QED
          BY <2>5, <3>3, <5>1
      <4> QED
        BY <4>1, <4>2
    <3>6. new[n + i] = more[i] /\ more[i] = Line(k, fresh)
      <4>1. more[i] \in {Line("token", fresh), Line("noise_private_key", fresh),
                         Line("noise_public_key", fresh)}
        BY <2>2, <2>4, <2>10, <3>4
      <4> QED
        BY <2>1, <2>4, <3>4, <4>1
    <3>7. new[n + i].value = fresh
      BY <3>6 DEF Line
    <3> QED
      BY <3>2, <3>5, <3>7 DEF Once, Value
  <2>11. ASSUME NEW t \in Headers, NEW k \in Keys PROVE Once(Places(new, t, k))
    BY <2>9, <2>10 DEF New
  <2>12. ASSUME NEW h \in Headers
         PROVE  /\ Once(Heads(new, h))
                /\ Heads(text, h) # {} => Heads(new, h) # {}
    <3>1. CASE h # "[pairing]" \/ ~Nowhere(text)
      <4>1. \A j \in A : new[j].key # h
        BY <2>8, <3>1 DEF Headers
      <4> QED
        BY <2>1, <4>1, HeadsKept, ParsesIs DEF A
    <3>2. CASE h = "[pairing]" /\ Nowhere(text)
      <4>1. Heads(text, h) = {}
        <5> SUFFICES ASSUME NEW i \in 1..n, text[i].key = "[pairing]" PROVE FALSE
          BY <3>2 DEF Heads
        <5>1. text[i] = Header("[pairing]")
          BY DEF WellFormed, IsHeader, Headers
        <5> QED
          BY <3>2, <5>1 DEF Nowhere
      <4>2. Heads(new, h) \subseteq {n + 1}
        <5> SUFFICES ASSUME NEW j \in 1..Len(new), new[j].key = h PROVE j = n + 1
          BY DEF Heads
        <5>1. j \in A
          <6>1. ~(j \in 1..n)
            BY <2>1, <4>1 DEF Heads
          <6> QED
            BY <2>1, <2>3, <6>1 DEF A
        <5> QED
          BY <2>8, <3>2, <5>1
      <4> QED
        BY <4>1, <4>2 DEF Once
    <3> QED
      BY <3>1, <3>2
  <2>13. Parses(new)
    <3>1. /\ Heads(new, "[host]") # {} /\ Heads(new, "[gpu]") # {}
      BY <2>1, <2>12, ParsesIs DEF Headers
    <3>2. Places(new, "[gpu]", "vaapi_render_node") # {}
      BY <2>1, <2>9, ParsesIs DEF Headers, Keys
    <3> QED
      BY <2>1, <2>11, <2>12, <3>1, <3>2, ParsesIs
  <2>14. Parse(new) = Complete(Parse(text), fresh)
    <3>1. /\ Value(new, "[host]", "ip", "") = Value(text, "[host]", "ip", "")
          /\ Value(new, "[gpu]", "vaapi_render_node", "") =
               Value(text, "[gpu]", "vaapi_render_node", "")
          /\ Value(new, "[encode]", "codec", "h264_vaapi") =
               Value(text, "[encode]", "codec", "h264_vaapi")
      BY <2>9 DEF Headers, Keys
    <3>2. Value(new, "[pairing]", "token", "") =
            IF T THEN fresh ELSE Value(text, "[pairing]", "token", "")
      BY <2>9, <2>10 DEF Headers, Keys, New
    <3>3. /\ Value(new, "[pairing]", "noise_private_key", "") =
               IF K THEN fresh ELSE Value(text, "[pairing]", "noise_private_key", "")
          /\ Value(new, "[pairing]", "noise_public_key", "") =
               IF K THEN fresh ELSE Value(text, "[pairing]", "noise_public_key", "")
      BY <2>9, <2>10 DEF Headers, Keys, New
    <3>4. Parse(text).token = Value(text, "[pairing]", "token", "")
          /\ Parse(text).private = Value(text, "[pairing]", "noise_private_key", "")
          /\ Parse(text).public = Value(text, "[pairing]", "noise_public_key", "")
      BY DEF Parse
    <3>5. Complete(Parse(text), fresh) =
            [Parse(text) EXCEPT !.token = IF T THEN fresh ELSE @,
                                !.private = IF K THEN fresh ELSE @,
                                !.public = IF K THEN fresh ELSE @]
      BY DEF Complete, T, K
    <3> QED
      BY <3>1, <3>2, <3>3, <3>5 DEF Parse
  <2>15. WellFormed(new, Values)
    <3>1. \A j \in 1..Len(new) : IsHeader(new[j]) => new[j] = Header(new[j].key)
      <4> SUFFICES ASSUME NEW j \in 1..Len(new), IsHeader(new[j])
                   PROVE  new[j] = Header(new[j].key)
        OBVIOUS
      <4>1. CASE j \in 1..n
        BY <2>1, <4>1 DEF WellFormed
      <4>2. CASE j \notin 1..n
        <5>1. j \in A
          BY <2>1, <2>3, <4>2 DEF A
        <5>2. new[j] = more[j - n] /\ j - n \in 1..Len(more)
          BY <2>5, <5>1
        <5>3. new[j] = Header("[pairing]")
          BY <2>2, <2>4, <5>2 DEF IsHeader, Headers
        <5> QED
          BY <2>4, <5>3
      <4> QED
        BY <4>1, <4>2
    <3> QED
      BY <2>1, <3>1 DEF WellFormed, Lines
  <2> QED
    BY <2>13, <2>14, <2>15 DEF new, more
<1> QED
  BY <1>1, <1>2

-----------------------------------------------------------------------------
(* What rewrite_codec changes. *)

EncodeAt(text) == SelectInSeq(text, LAMBDA l : l = Header("[encode]"))

LEMMA FirstEncode ==
  ASSUME NEW text \in Lines
  PROVE  LET h == EncodeAt(text)
         IN \/ h = 0 /\ \A i \in 1..Len(text) : text[i] # Header("[encode]")
            \/ /\ h \in 1..Len(text) /\ text[h] = Header("[encode]")
               /\ \A i \in 1..Len(text) : text[i] = Header("[encode]") => h <= i
<1> DEFINE I == {i \in 1..Len(text) : text[i] = Header("[encode]")}
<1>1. EncodeAt(text) = IF I # {} THEN Min(I) ELSE 0
  BY DEF EncodeAt, SelectInSeq
<1>2. CASE I = {}
  BY <1>1, <1>2
<1>3. CASE I # {}
  <2>1. I \in SUBSET Nat
    BY DEF Lines
  <2>2. \E m \in I : \A k \in I : m <= k
    BY <1>3, <2>1, LeastPlace
  <2> HIDE DEF I
  <2>3. Min(I) \in I /\ \A k \in I : Min(I) <= k
    BY <2>2 DEF Min
  <2>4. EncodeAt(text) = Min(I)
    BY <1>1, <1>3
  <2> QED
    BY <2>3, <2>4 DEF I
<1> QED
  BY <1>2, <1>3

\* new is text with the line e of [encode] set to the codec: e is a line the
\* text had at another value, or one that is added, behind the header of
\* [encode], which may be added too.
NewSection(new, text, j) ==
  /\ j = Len(text) + 1 /\ new[j] = Header("[encode]")
  /\ \A i \in 1..Len(text) : text[i] # Header("[encode]")
Sets(new, text, at, e, codec) ==
  /\ new \in Lines
  /\ Includes(new, text, at)
  /\ e \in 1..Len(new) /\ new[e] = Line("codec", codec)
  /\ TableOf(new, e) = "[encode]"
  /\ \A i \in 1..Len(text) : at[i] # e => new[at[i]] = text[i]
  /\ \A j \in Added(new, text, at) : j = e \/ NewSection(new, text, j)
  /\ Added(new, text, at) # {} =>
       e \in Added(new, text, at) /\ Places(text, "[encode]", "codec") = {}

LEMMA AppendingSets ==
  ASSUME NEW text, WellFormed(text, Values), NEW codec \in Values,
         EncodeAt(text) = 0
  PROVE  LET new == text \o <<Header("[encode]"), Line("codec", codec)>>
         IN \E at, e : Sets(new, text, at, e, codec)
<1> DEFINE more == <<Header("[encode]"), Line("codec", codec)>>
           new == text \o more
           n == Len(text)
           at == [i \in 1..n |-> i]
           e == n + 2
<1>1. text \in Lines /\ n \in Nat
  BY DEF WellFormed, Lines
<1>2. more \in Lines /\ Len(more) = 2 /\ more[1] = Header("[encode]")
      /\ more[2] = Line("codec", codec)
  <2>1. Header("[encode]") \in OneLine /\ Line("codec", codec) \in OneLine
    BY LineType DEF Headers, Keys
  <2> QED
    BY <2>1, ShortLines
<1> HIDE DEF more
<1>3. /\ new \in Lines /\ Len(new) = n + 2
      /\ \A i \in 1..(n + 2) : new[i] = IF i <= n THEN text[i] ELSE more[i - n]
  <2>1. /\ new \in Lines /\ Len(new) = n + Len(more)
        /\ \A i \in 1..(n + Len(more)) : new[i] = IF i <= n THEN text[i] ELSE more[i - n]
    BY <1>1, <1>2, Concatenated
  <2> QED
    BY <1>2, <2>1
<1> HIDE DEF new
<1>4. /\ \A i \in 1..n : new[i] = text[i]
      /\ new[n + 1] = Header("[encode]") /\ new[e] = Line("codec", codec)
  <2>1. \A i \in 1..n : i \in 1..(n + 2) /\ i <= n
    BY <1>1
  <2>2. /\ n + 1 \in 1..(n + 2) /\ ~(n + 1 <= n) /\ (n + 1) - n = 1
        /\ n + 2 \in 1..(n + 2) /\ ~(n + 2 <= n) /\ (n + 2) - n = 2
    BY <1>1
  <2> QED
    BY <1>2, <1>3, <2>1, <2>2
<1>5. at \in [1..n -> 1..Len(new)] /\ \A i \in 1..n : at[i] = i
  BY <1>1, <1>3
<1>6. Added(new, text, at) = {n + 1, n + 2}
  <2>1. {at[i] : i \in 1..n} = 1..n
    BY <1>5
  <2>2. 1..(n + 2) \ 1..n = {n + 1, n + 2}
    BY <1>1
  <2> QED
    BY <1>3, <2>1, <2>2 DEF Added
<1>7. Includes(new, text, at)
  <2>1. \A i, j \in 1..n : i < j => at[i] < at[j]
    BY <1>5
  <2>2. \A i \in 1..n : new[at[i]].key = text[i].key
    BY <1>4, <1>5
  <2>3. \A j \in Added(new, text, at) : \A i \in 1..n : at[i] < j
    BY <1>1, <1>5, <1>6
  <2> QED
    BY <1>5, <2>1, <2>2, <2>3 DEF Includes
<1>8. \A i \in 1..n : text[i] # Header("[encode]")
  BY <1>1, FirstEncode
<1>9. Places(text, "[encode]", "codec") = {}
  <2> SUFFICES ASSUME NEW i \in 1..n, TableOf(text, i) = "[encode]" PROVE FALSE
    BY DEF Places
  <2>1. PICK j \in 1..i : IsHeader(text[j]) /\ text[j].key = "[encode]"
    <3>1. i \in Nat /\ TableOf(text, i) # ""
      OBVIOUS
    <3> QED
      BY <3>1, TableCases
  <2>2. j \in 1..n
    BY <1>1
  <2>3. text[j] = Header("[encode]")
    BY <2>1, <2>2 DEF WellFormed
  <2> QED
    BY <1>8, <2>2, <2>3
<1>10. TableOf(new, e) = "[encode]"
  <2>1. IsHeader(new[n + 1]) /\ new[n + 1].key = "[encode]" /\ ~IsHeader(new[n + 2])
    BY <1>4, HeaderLines DEF Headers, Keys
  <2>2. \A l \in 1..(n + 2) : IsHeader(new[l]) => l <= n + 1
    BY <1>1, <2>1
  <2>3. n + 2 \in Nat /\ n + 1 \in 1..(n + 2)
    BY <1>1
  <2> QED
    BY <2>1, <2>2, <2>3, TableIs
<1>11. e \in 1..Len(new) /\ \A i \in 1..n : new[at[i]] = text[i]
  BY <1>1, <1>3, <1>4, <1>5
<1> HIDE DEF at
<1>12. /\ \A j \in Added(new, text, at) : j = e \/ NewSection(new, text, j)
       /\ e \in Added(new, text, at)
  <2>1. \A j \in Added(new, text, at) : j = e \/ j = n + 1
    BY <1>6
  <2>2. e \in Added(new, text, at)
    BY <1>6
  <2>3. NewSection(new, text, n + 1)
    BY <1>4, <1>8 DEF NewSection
  <2> QED
    BY <2>1, <2>2, <2>3
<1> HIDE DEF e
<1>13. new[e] = Line("codec", codec)
  BY <1>4 DEF e
<1>14. Sets(new, text, at, e, codec)
  BY <1>3, <1>7, <1>9, <1>10, <1>11, <1>12, <1>13 DEF Sets
<1> QED
  BY <1>14 DEF new, more

LEMMA InsertingSets ==
  ASSUME NEW text, WellFormed(text, Values), NEW codec \in Values,
         EncodeAt(text) # 0, Places(text, "[encode]", "codec") = {}
  PROVE  LET new == InsertAt(text, EncodeAt(text) + 1, Line("codec", codec))
         IN \E at, e : Sets(new, text, at, e, codec)
<1> DEFINE h == EncodeAt(text)
           new == InsertAt(text, h + 1, Line("codec", codec))
           n == Len(text)
           at == [i \in 1..n |-> IF i <= h THEN i ELSE i + 1]
           e == h + 1
<1>1. text \in Lines /\ n \in Nat
  BY DEF WellFormed, Lines
<1>2. h \in 1..n /\ text[h] = Header("[encode]")
  BY <1>1, FirstEncode
<1> HIDE DEF h
<1> DEFINE one == <<Line("codec", codec)>>
           before == SubSeq(text, 1, h)
           after == SubSeq(text, h + 1, n)
<1>3. one \in Lines /\ Len(one) = 1 /\ one[1] = Line("codec", codec)
  <2>1. Line("codec", codec) \in OneLine
    BY LineType DEF Keys
  <2> QED
    BY <2>1, ShortLines
<1>4. /\ before \in Lines /\ Len(before) = h
      /\ \A i \in 1..h : before[i] = text[i]
  <2>1. \A i \in 1..h : text[i] \in [key : Headers \cup Keys \cup {Comment.key}, value : Values]
    BY <1>1, <1>2, LineOfText
  <2>2. 1 \in Int /\ h \in Int /\ h - 1 + 1 = h /\ 1 <= h
    BY <1>1, <1>2
  <2>3. /\ before \in Lines
        /\ Len(before) = IF 1 <= h THEN h - 1 + 1 ELSE 0
        /\ \A i \in 1..(h - 1 + 1) : before[i] = text[1 + i - 1]
    BY <2>1, <2>2, SubSeqProperties DEF Lines
  <2>4. \A i \in 1..h : 1 + i - 1 = i
    BY <2>2
  <2> QED
    BY <2>2, <2>3, <2>4
<1>5. /\ after \in Lines /\ Len(after) = n - h
      /\ \A i \in 1..(n - h) : after[i] = text[h + i]
  <2>1. \A i \in (h + 1)..n : text[i] \in [key : Headers \cup Keys \cup {Comment.key}, value : Values]
    <3>1. \A i \in (h + 1)..n : i \in 1..n
      BY <1>1, <1>2
    <3> QED
      BY <1>1, <3>1, LineOfText
  <2>2. h + 1 \in Int /\ n \in Int
    BY <1>1, <1>2
  <2>3. /\ after \in Lines
        /\ Len(after) = IF h + 1 <= n THEN n - (h + 1) + 1 ELSE 0
        /\ \A i \in 1..(n - (h + 1) + 1) : after[i] = text[(h + 1) + i - 1]
    BY <2>1, <2>2, SubSeqProperties DEF Lines
  <2>4. n - (h + 1) + 1 = n - h /\ \A i \in 1..(n - h) : (h + 1) + i - 1 = h + i
    BY <1>1, <1>2
  <2>5. (IF h + 1 <= n THEN n - (h + 1) + 1 ELSE 0) = n - h
    BY <1>1, <1>2
  <2> QED
    BY <2>3, <2>4, <2>5
<1>6. new = before \o one \o after
  <2>1. (h + 1) - 1 = h
    BY <1>1, <1>2
  <2> QED
    BY <2>1 DEF InsertAt
<1> HIDE DEF new, one, before, after
<1>7. /\ before \o one \in Lines /\ Len(before \o one) = h + 1
      /\ \A i \in 1..(h + 1) : (before \o one)[i] =
           IF i <= h THEN before[i] ELSE one[i - h]
  <2>1. /\ before \o one \in Lines /\ Len(before \o one) = Len(before) + Len(one)
        /\ \A i \in 1..(Len(before) + Len(one)) : (before \o one)[i] =
             IF i <= Len(before) THEN before[i] ELSE one[i - Len(before)]
    BY <1>3, <1>4, Concatenated
  <2> QED
    BY <1>3, <1>4, <2>1
<1> DEFINE start == before \o one
<1>8. start \in Lines /\ Len(start) = h + 1 /\ new = start \o after
      /\ \A i \in 1..(h + 1) : start[i] = IF i <= h THEN before[i] ELSE one[i - h]
  BY <1>6, <1>7
<1> HIDE DEF start
<1>9. /\ start \o after \in Lines /\ Len(start \o after) = (h + 1) + (n - h)
      /\ \A i \in 1..((h + 1) + (n - h)) : (start \o after)[i] =
           IF i <= h + 1 THEN start[i] ELSE after[i - (h + 1)]
  <2>1. /\ start \o after \in Lines /\ Len(start \o after) = Len(start) + Len(after)
        /\ \A i \in 1..(Len(start) + Len(after)) : (start \o after)[i] =
             IF i <= Len(start) THEN start[i] ELSE after[i - Len(start)]
    BY <1>5, <1>8, Concatenated
  <2> QED
    BY <1>5, <1>8, <2>1
<1>10. (h + 1) + (n - h) = n + 1
  BY <1>1, <1>2
<1>11. /\ new \in Lines /\ Len(new) = n + 1
       /\ \A i \in 1..h : new[i] = text[i]
       /\ new[h + 1] = Line("codec", codec)
       /\ \A i \in (h + 1)..n : new[i + 1] = text[i]
  <2>1. \A i \in 1..(n + 1) : new[i] = IF i <= h + 1 THEN start[i] ELSE after[i - (h + 1)]
    BY <1>8, <1>9, <1>10
  <2>2. ASSUME NEW i \in 1..h PROVE new[i] = text[i]
    <3>1. i \in 1..(n + 1) /\ i <= h + 1 /\ i <= h /\ i \in 1..(h + 1)
      BY <1>1, <1>2
    <3> QED
      BY <1>4, <1>8, <2>1, <3>1
  <2>3. new[h + 1] = Line("codec", codec)
    <3>1. h + 1 \in 1..(n + 1) /\ h + 1 <= h + 1 /\ ~(h + 1 <= h) /\ (h + 1) - h = 1
          /\ h + 1 \in 1..(h + 1)
      BY <1>1, <1>2
    <3> QED
      BY <1>3, <1>8, <2>1, <3>1
  <2>4. ASSUME NEW i \in (h + 1)..n PROVE new[i + 1] = text[i]
    <3>1. /\ i + 1 \in 1..(n + 1) /\ ~(i + 1 <= h + 1)
          /\ (i + 1) - (h + 1) = i - h /\ i - h \in 1..(n - h) /\ h + (i - h) = i
      BY <1>1, <1>2
    <3> QED
      BY <1>5, <2>1, <3>1
  <2> QED
    BY <1>8, <1>9, <1>10, <2>2, <2>3, <2>4
<1>12. at \in [1..n -> 1..Len(new)]
       /\ \A i \in 1..n : at[i] = IF i <= h THEN i ELSE i + 1
  BY <1>1, <1>2, <1>11
<1> HIDE DEF at
<1>13. \A i \in 1..n : new[at[i]] = text[i]
  <2> TAKE i \in 1..n
  <2>1. CASE i <= h
    <3>1. i \in 1..h
      BY <1>1, <1>2, <2>1
    <3> QED
      BY <1>11, <1>12, <2>1, <3>1
  <2>2. CASE ~(i <= h)
    <3>1. i \in (h + 1)..n
      BY <1>1, <1>2, <2>2
    <3> QED
      BY <1>11, <1>12, <2>2, <3>1
  <2> QED
    BY <2>1, <2>2
<1>14. Added(new, text, at) = {h + 1}
  <2>1. h + 1 \in 1..Len(new) /\ \A i \in 1..n : at[i] # h + 1
    BY <1>1, <1>2, <1>11, <1>12
  <2>2. ASSUME NEW j \in 1..Len(new), j # h + 1 PROVE \E i \in 1..n : j = at[i]
    <3>1. CASE j <= h
      <4>1. j \in 1..n
        BY <1>1, <1>2, <1>11, <3>1
      <4>2. at[j] = j
        BY <1>12, <3>1, <4>1
      <4> QED
        BY <4>1, <4>2
    <3>2. CASE ~(j <= h)
      <4>1. j - 1 \in 1..n /\ ~(j - 1 <= h) /\ (j - 1) + 1 = j
        BY <1>1, <1>2, <1>11, <2>2, <3>2
      <4>2. at[j - 1] = j
        BY <1>12, <4>1
      <4> QED
        BY <4>1, <4>2
    <3> QED
      BY <3>1, <3>2
  <2> QED
    BY <2>1, <2>2 DEF Added
<1>15. ~IsHeader(new[h + 1])
  BY <1>11, HeaderLines DEF Keys
<1>16. Includes(new, text, at)
  <2>1. \A i, j \in 1..n : i < j => at[i] < at[j]
    BY <1>1, <1>2, <1>12
  <2> QED
    BY <1>12, <1>13, <1>14, <1>15, <2>1 DEF Includes
<1>17. TableOf(new, e) = "[encode]"
  <2>1. new[h] = Header("[encode]")
    BY <1>2, <1>11
  <2>2. IsHeader(new[h]) /\ new[h].key = "[encode]"
    BY <2>1, HeaderLines DEF Headers
  <2>3. \A l \in 1..(h + 1) : IsHeader(new[l]) => l <= h
    BY <1>1, <1>2, <1>15
  <2>4. h + 1 \in Nat /\ h \in 1..(h + 1)
    BY <1>1, <1>2
  <2> QED
    BY <2>2, <2>3, <2>4, TableIs
<1>18. e \in 1..Len(new)
  BY <1>1, <1>2, <1>11
<1>20. \A j \in Added(new, text, at) : e \in Added(new, text, at) /\ j = e
  BY <1>14
<1>21. new[e] = Line("codec", codec) /\ new \in Lines
  BY <1>11
<1> HIDE DEF e
<1>19. Sets(new, text, at, e, codec)
  <2>1. /\ new \in Lines /\ Includes(new, text, at) /\ e \in 1..Len(new)
        /\ new[e] = Line("codec", codec) /\ TableOf(new, e) = "[encode]"
    BY <1>16, <1>17, <1>18, <1>21
  <2>2. \A i \in 1..Len(text) : at[i] # e => new[at[i]] = text[i]
    BY <1>13
  <2>3. /\ \A j \in Added(new, text, at) : j = e
        /\ Added(new, text, at) # {} => e \in Added(new, text, at)
    BY <1>20
  <2>4. Places(text, "[encode]", "codec") = {}
    OBVIOUS
  <2> QED
    BY <2>1, <2>2, <2>3, <2>4 DEF Sets
<1> QED
  BY <1>19 DEF new, h

LEMMA ReplacingSets ==
  ASSUME NEW text, WellFormed(text, Values), NEW codec \in Values,
         NEW e \in Places(text, "[encode]", "codec")
  PROVE  LET new == [text EXCEPT ![e] = Line("codec", codec)]
         IN \E at : Sets(new, text, at, e, codec)
<1> DEFINE new == [text EXCEPT ![e] = Line("codec", codec)]
           n == Len(text)
           at == [i \in 1..n |-> i]
<1>1. text \in Lines /\ n \in Nat /\ e \in 1..n /\ text[e].key = "codec"
      /\ TableOf(text, e) = "[encode]"
  BY DEF WellFormed, Lines, Places
<1>2. /\ new \in Lines /\ Len(new) = n
      /\ \A j \in 1..n : new[j] = IF j = e THEN Line("codec", codec) ELSE text[j]
  <2>1. Line("codec", codec) \in [key : Headers \cup Keys \cup {Comment.key}, value : Values]
    BY LineType DEF Keys, OneLine
  <2> QED
    BY <1>1, <2>1, ExceptSeq DEF Lines
<1> HIDE DEF new
<1>3. at \in [1..n -> 1..Len(new)] /\ \A i \in 1..n : at[i] = i
  BY <1>2
<1> HIDE DEF at
<1>4. Added(new, text, at) = {}
  BY <1>2, <1>3 DEF Added
<1>5. Includes(new, text, at)
  <2>1. \A i \in 1..n : new[at[i]].key = text[i].key
    BY <1>1, <1>2, <1>3 DEF Line
  <2>2. \A i, j \in 1..n : i < j => at[i] < at[j]
    BY <1>3
  <2> QED
    BY <1>3, <1>4, <2>1, <2>2 DEF Includes
<1>6. TableOf(new, e) = "[encode]"
  BY <1>1, <1>2, <1>3, <1>5, TableKept
<1>7. Sets(new, text, at, e, codec)
  BY <1>1, <1>2, <1>3, <1>4, <1>5, <1>6 DEF Sets
<1> QED
  BY <1>7 DEF new

LEMMA RewriteSets ==
  ASSUME NEW text, WellFormed(text, Values), NEW codec \in Values
  PROVE  \E at, e : Sets(RewriteCodec(text, codec), text, at, e, codec)
<1> DEFINE h == EncodeAt(text)
           existing == {i \in SectionOf(text, h) : text[i].key = "codec"}
           line == Line("codec", codec)
<1>1. RewriteCodec(text, codec) =
        IF h = 0 THEN text \o <<Header("[encode]"), line>>
        ELSE IF existing = {} THEN InsertAt(text, h + 1, line)
        ELSE [text EXCEPT ![CHOOSE i \in existing : \A j \in existing : i <= j] = line]
  BY DEF RewriteCodec, EncodeAt
<1>2. text \in Lines /\ Len(text) \in Nat
  BY DEF WellFormed, Lines
<1>3. CASE h = 0
  BY <1>1, <1>3, AppendingSets
<1>4. ASSUME h # 0 PROVE existing = Places(text, "[encode]", "codec")
  <2>1. /\ h \in 1..Len(text) /\ text[h] = Header("[encode]")
        /\ \A i \in 1..Len(text) : text[i] = Header("[encode]") => h <= i
    BY <1>2, <1>4, FirstEncode
  <2>2. ASSUME NEW i \in Places(text, "[encode]", "codec") PROVE i > h
    <3>1. i \in 1..Len(text) /\ TableOf(text, i) = "[encode]" /\ text[i].key = "codec"
      BY DEF Places
    <3>2. PICK j \in 1..i : IsHeader(text[j]) /\ text[j].key = "[encode]"
      <4>1. i \in Nat /\ TableOf(text, i) # ""
        BY <3>1
      <4> QED
        BY <3>1, <4>1, TableCases
    <3>3. j \in 1..Len(text) /\ j <= i
      BY <1>2, <3>1
    <3>4. text[j] = Header("[encode]")
      BY <3>2, <3>3 DEF WellFormed
    <3>5. h <= j
      BY <2>1, <3>3, <3>4
    <3>6. i # h
      BY <2>1, <3>1, HeaderLines DEF Headers
    <3> QED
      BY <1>2, <2>1, <3>1, <3>3, <3>5, <3>6
  <2> HIDE DEF h
  <2> QED
    BY <2>2 DEF SectionOf, Places
<1>5. CASE h # 0 /\ existing = {}
  <2>1. Places(text, "[encode]", "codec") = {}
    BY <1>4, <1>5
  <2> QED
    BY <1>1, <1>5, <2>1, InsertingSets
<1>6. CASE h # 0 /\ existing # {}
  <2> DEFINE e == CHOOSE i \in existing : \A j \in existing : i <= j
  <2>1. existing \in SUBSET Nat
    BY <1>2, <1>4, <1>6 DEF Places
  <2>2. \E i \in existing : \A j \in existing : i <= j
    BY <1>6, <2>1, LeastPlace
  <2> HIDE DEF existing, h
  <2>3. e \in existing
    BY <2>2
  <2>4. RewriteCodec(text, codec) = [text EXCEPT ![e] = line]
    BY <1>1, <1>6
  <2>5. e \in Places(text, "[encode]", "codec")
    BY <1>4, <1>6, <2>3
  <2> HIDE DEF e
  <2>6. \E at : Sets([text EXCEPT ![e] = Line("codec", codec)], text, at, e, codec)
    BY <2>5, ReplacingSets
  <2>7. \E at : Sets(RewriteCodec(text, codec), text, at, e, codec)
    BY <2>4, <2>6
  <2> QED
    BY <2>7
<1> QED
  BY <1>3, <1>5, <1>6

LEMMA OtherCodec ==
  ASSUME NEW i, NEW n, NEW c, NEW t, NEW a, NEW b, NEW new, NEW cfg,
         cfg = [ip |-> i, node |-> n, codec |-> c, token |-> t, private |-> a, public |-> b]
  PROVE  [cfg EXCEPT !.codec = new] =
           [ip |-> i, node |-> n, codec |-> new, token |-> t, private |-> a, public |-> b]
OBVIOUS

\* No [host]: what is left of a file after a crash in the middle of a write.
Ruined(text) == \A i \in 1..Len(text) : text[i].key # "[host]"

\* Rewriting the codec changes the codec and nothing else: a file that parses
\* still does, with the new codec and every other value as it was, the secrets
\* included, and one that does not parse is not repaired (rewrite_codec).
THEOREM RewritingIsExact ==
  ASSUME NEW text, WellFormed(text, Values), NEW codec \in Values
  PROVE  LET new == RewriteCodec(text, codec)
         IN /\ WellFormed(new, Values)
            /\ Parses(new) <=> Parses(text)
            /\ Parses(text) => Parse(new) = [Parse(text) EXCEPT !.codec = codec]
            /\ Ruined(text) => Ruined(new)
<1> DEFINE new == RewriteCodec(text, codec)
           n == Len(text)
<1>1. PICK at, e : Sets(new, text, at, e, codec)
  BY RewriteSets
<1> HIDE DEF new
<1> DEFINE A == Added(new, text, at)
<1>2. text \in Lines /\ n \in Nat
  BY DEF WellFormed, Lines
<1>3. /\ new \in Lines /\ Includes(new, text, at)
      /\ e \in 1..Len(new) /\ new[e] = Line("codec", codec)
      /\ TableOf(new, e) = "[encode]"
      /\ \A i \in 1..n : at[i] # e => new[at[i]] = text[i]
      /\ \A j \in A : j = e \/ NewSection(new, text, j)
      /\ A # {} => e \in A /\ Places(text, "[encode]", "codec") = {}
  BY <1>1 DEF Sets
<1> HIDE DEF A
<1>4. new[e].key = "codec" /\ new[e].value = codec /\ ~IsHeader(new[e])
  <2>1. ~IsHeader(new[e]) /\ new[e].key = "codec"
    BY <1>3, HeaderLines DEF Keys
  <2> QED
    BY <1>3, <2>1 DEF Line
<1>5. \A i \in 1..n : at[i] \in 1..Len(new) /\ new[at[i]].key = text[i].key
                      /\ TableOf(new, at[i]) = TableOf(text, i)
  BY <1>2, <1>3, TableKept DEF Includes
<1>6. ASSUME NEW j \in 1..Len(new), j \notin A PROVE \E i \in 1..n : j = at[i]
  BY <1>6 DEF A, Added
<1>7. ASSUME NEW t \in Headers, NEW k \in Keys, ~(t = "[encode]" /\ k = "codec")
      PROVE  /\ Once(Places(new, t, k)) <=> Once(Places(text, t, k))
             /\ Places(new, t, k) = {} <=> Places(text, t, k) = {}
             /\ Once(Places(text, t, k)) =>
                  \A d : Value(new, t, k, d) = Value(text, t, k, d)
  <2>1. \A j \in A : ~(new[j].key = k /\ TableOf(new, j) = t)
    <3> SUFFICES ASSUME NEW j \in A, new[j].key = k, TableOf(new, j) = t PROVE FALSE
      OBVIOUS
    <3>1. CASE j = e
      BY <1>3, <1>4, <1>7, <3>1
    <3>2. CASE NewSection(new, text, j)
      <4>1. new[j].key = "[encode]"
        BY <3>2, HeaderLines DEF NewSection, Headers
      <4> QED
        BY <4>1 DEF Keys
    <3> QED
      BY <1>3, <3>1, <3>2
  <2>2. \A i \in Places(text, t, k) : new[at[i]].value = text[i].value
    <3> SUFFICES ASSUME NEW i \in Places(text, t, k) PROVE at[i] # e
      BY <1>3 DEF Places
    <3>1. i \in 1..n /\ text[i].key = k /\ TableOf(text, i) = t
      BY DEF Places
    <3>2. new[at[i]].key = k /\ TableOf(new, at[i]) = t
      BY <1>5, <3>1
    <3> QED
      BY <1>3, <1>4, <1>7, <3>2
  <2>3. \A j \in Added(new, text, at) : ~(new[j].key = k /\ TableOf(new, j) = t)
    BY <2>1 DEF A
  <2> QED
    BY <1>2, <1>3, <2>2, <2>3, ValueKept
<1>8. e \in Places(new, "[encode]", "codec")
  BY <1>3, <1>4 DEF Places
<1>9. /\ Once(Places(new, "[encode]", "codec")) <=> Once(Places(text, "[encode]", "codec"))
  <2>1. CASE A = {}
    <3>1. \A j \in Added(new, text, at) :
            ~(new[j].key = "codec" /\ TableOf(new, j) = "[encode]")
      BY <2>1 DEF A
    <3> QED
      BY <1>2, <1>3, <3>1, ValueKept
  <2>2. CASE A # {}
    <3>1. Places(text, "[encode]", "codec") = {}
      BY <1>3, <2>2
    <3>2. Places(new, "[encode]", "codec") \subseteq {e}
      <4> SUFFICES ASSUME NEW j \in 1..Len(new), new[j].key = "codec",
                          TableOf(new, j) = "[encode]", j # e
                   PROVE  FALSE
        BY DEF Places
      <4>1. CASE j \in A
        <5>1. new[j] = Header("[encode]")
          BY <1>3, <4>1 DEF NewSection
        <5> QED
          BY <5>1, HeaderLines DEF Headers
      <4>2. CASE j \notin A
        <5>1. PICK i \in 1..n : j = at[i]
          BY <1>6, <4>2
        <5>2. i \in Places(text, "[encode]", "codec")
          BY <1>5, <5>1 DEF Places
        <5> QED
          BY <3>1, <5>2
      <4> QED
        BY <4>1, <4>2
    <3> QED
      BY <3>1, <3>2 DEF Once
  <2> QED
    BY <2>1, <2>2
<1>10. Once(Places(new, "[encode]", "codec")) =>
         \A d : Value(new, "[encode]", "codec", d) = codec
  <2> SUFFICES ASSUME Once(Places(new, "[encode]", "codec")), NEW d
               PROVE  Value(new, "[encode]", "codec", d) = codec
    OBVIOUS
  <2>1. Places(new, "[encode]", "codec") = {e}
    BY <1>8 DEF Once
  <2> QED
    BY <1>4, <2>1 DEF Value
<1>11. ASSUME NEW h \in Headers
       PROVE  /\ Once(Heads(new, h)) <=> Once(Heads(text, h))
              /\ h # "[encode]" => (Heads(new, h) = {} <=> Heads(text, h) = {})
  <2>1. CASE \E j \in A : new[j].key = h
    <3>1. PICK j \in A : new[j].key = h
      BY <2>1
    <3>2. NewSection(new, text, j) /\ h = "[encode]"
      <4>1. j # e
        BY <1>4, <3>1 DEF Headers
      <4>2. NewSection(new, text, j)
        BY <1>3, <4>1
      <4> QED
        BY <3>1, <4>2, HeaderLines DEF NewSection, Headers
    <3>3. Heads(text, h) = {}
      <4> SUFFICES ASSUME NEW i \in 1..n, text[i].key = "[encode]" PROVE FALSE
        BY <3>2 DEF Heads
      <4>1. text[i] = Header("[encode]")
        BY DEF WellFormed, IsHeader, Headers
      <4> QED
        BY <3>2, <4>1 DEF NewSection
    <3>4. Heads(new, h) \subseteq {n + 1}
      <4> SUFFICES ASSUME NEW l \in 1..Len(new), new[l].key = h PROVE l = n + 1
        BY DEF Heads
      <4>1. CASE l \in A
        <5>1. l # e
          BY <1>4 DEF Headers
        <5> QED
          BY <1>3, <4>1, <5>1 DEF NewSection
      <4>2. CASE l \notin A
        <5>1. PICK i \in 1..n : l = at[i]
          BY <1>6, <4>2
        <5>2. i \in Heads(text, h)
          BY <1>5, <5>1 DEF Heads
        <5> QED
          BY <3>3, <5>2
      <4> QED
        BY <4>1, <4>2
    <3> QED
      BY <3>2, <3>3, <3>4 DEF Once
  <2>2. CASE ~\E j \in A : new[j].key = h
    <3>1. \A j \in Added(new, text, at) : new[j].key # h
      BY <2>2 DEF A
    <3> QED
      BY <1>2, <1>3, <3>1, HeadsKept
  <2> QED
    BY <2>1, <2>2
<1>12. Parses(new) <=> Parses(text)
  <2>1. \A t \in Headers, k \in Keys :
          Once(Places(new, t, k)) <=> Once(Places(text, t, k))
    BY <1>7, <1>9
  <2>2. \A h \in Headers : Once(Heads(new, h)) <=> Once(Heads(text, h))
    BY <1>11
  <2>3. /\ Heads(new, "[host]") = {} <=> Heads(text, "[host]") = {}
        /\ Heads(new, "[gpu]") = {} <=> Heads(text, "[gpu]") = {}
    BY <1>11 DEF Headers
  <2>4. Places(new, "[gpu]", "vaapi_render_node") = {}
          <=> Places(text, "[gpu]", "vaapi_render_node") = {}
    BY <1>7 DEF Headers, Keys
  <2>5. \A x \in Lines : Parses(x) <=>
           /\ \A h \in Headers : Once(Heads(x, h))
           /\ \A t \in Headers, k \in Keys : Once(Places(x, t, k))
           /\ Heads(x, "[host]") # {} /\ Heads(x, "[gpu]") # {}
           /\ Places(x, "[gpu]", "vaapi_render_node") # {}
    BY ParsesIs
  <2> QED
    BY <1>2, <1>3, <2>1, <2>2, <2>3, <2>4, <2>5
<1>13. Parses(text) => Parse(new) = [Parse(text) EXCEPT !.codec = codec]
  <2> SUFFICES ASSUME Parses(text) PROVE Parse(new) = [Parse(text) EXCEPT !.codec = codec]
    OBVIOUS
  <2>1. \A t \in Headers, k \in Keys : Once(Places(text, t, k))
    BY <1>2, ParsesIs
  <2>2. Value(new, "[encode]", "codec", "h264_vaapi") = codec
    BY <1>9, <1>10, <2>1 DEF Headers, Keys
  <2>3. \A t \in Headers, k \in Keys : ~(t = "[encode]" /\ k = "codec") =>
          \A d : Value(new, t, k, d) = Value(text, t, k, d)
    BY <1>7, <2>1
  <2>4. /\ Value(new, "[host]", "ip", "") = Value(text, "[host]", "ip", "")
        /\ Value(new, "[gpu]", "vaapi_render_node", "") =
             Value(text, "[gpu]", "vaapi_render_node", "")
        /\ Value(new, "[pairing]", "token", "") = Value(text, "[pairing]", "token", "")
        /\ Value(new, "[pairing]", "noise_private_key", "") =
             Value(text, "[pairing]", "noise_private_key", "")
        /\ Value(new, "[pairing]", "noise_public_key", "") =
             Value(text, "[pairing]", "noise_public_key", "")
    BY <2>3 DEF Headers, Keys
  <2> DEFINE i == Value(text, "[host]", "ip", "")
             v == Value(text, "[gpu]", "vaapi_render_node", "")
             c == Value(text, "[encode]", "codec", "h264_vaapi")
             t == Value(text, "[pairing]", "token", "")
             x == Value(text, "[pairing]", "noise_private_key", "")
             y == Value(text, "[pairing]", "noise_public_key", "")
  <2>5. Parse(text) =
          [ip |-> i, node |-> v, codec |-> c, token |-> t, private |-> x, public |-> y]
    BY DEF Parse
  <2>6. Parse(new) =
          [ip |-> i, node |-> v, codec |-> codec, token |-> t, private |-> x, public |-> y]
    BY <2>2, <2>4 DEF Parse
  <2> HIDE DEF i, v, c, t, x, y
  <2> QED
    BY <2>5, <2>6, OtherCodec
<1>14. WellFormed(new, Values)
  <2> SUFFICES ASSUME NEW j \in 1..Len(new), IsHeader(new[j])
               PROVE  new[j] = Header(new[j].key)
    BY <1>3 DEF WellFormed, Lines
  <2>1. j # e
    BY <1>4
  <2>2. CASE j \in A
    <3>1. new[j] = Header("[encode]")
      BY <1>3, <2>1, <2>2 DEF NewSection
    <3> QED
      BY <3>1, HeaderLines DEF Headers
  <2>3. CASE j \notin A
    <3>1. PICK i \in 1..n : j = at[i]
      BY <1>6, <2>3
    <3>2. new[j] = text[i]
      BY <1>3, <2>1, <3>1
    <3> QED
      BY <3>2 DEF WellFormed
  <2> QED
    BY <2>2, <2>3
<1>15. Ruined(text) => Ruined(new)
  <2>1. Ruined(text) <=> Heads(text, "[host]") = {}
    BY DEF Ruined, Heads
  <2>2. Ruined(new) <=> Heads(new, "[host]") = {}
    BY DEF Ruined, Heads
  <2> QED
    BY <1>11, <2>1, <2>2 DEF Headers
<1> QED
  BY <1>12, <1>13, <1>14, <1>15 DEF new

-----------------------------------------------------------------------------
(* Configurations. *)

CfgRec == [ip : Values, node : Values, codec : Values, token : Values,
           private : Values, public : Values]

LEMMA ParseType ==
  ASSUME NEW text, WellFormed(text, Values)
  PROVE  Parse(text) \in CfgRec
<1>1. ASSUME NEW t, NEW k, NEW d \in Values PROVE Value(text, t, k, d) \in Values
  <2>1. CASE Places(text, t, k) = {}
    BY <2>1 DEF Value
  <2>2. CASE Places(text, t, k) # {}
    <3>1. PICK i : i \in Places(text, t, k) /\ Value(text, t, k, d) = text[i].value
      BY <2>2 DEF Value
    <3>2. i \in 1..Len(text) /\ text \in Lines
      BY <3>1 DEF Places, WellFormed, Lines
    <3> QED
      BY <3>1, <3>2, LineOfText
  <2> QED
    BY <2>1, <2>2
<1>2. "" \in Values /\ "h264_vaapi" \in Values
  BY LineType DEF SelectableCodecs
<1> QED
  BY <1>1, <1>2 DEF Parse, CfgRec

LEMMA CompleteIs ==
  ASSUME NEW cfg \in CfgRec, NEW fresh \in Values, fresh # ""
  PROVE  /\ Complete(cfg, fresh) \in CfgRec
         /\ ~NeedsToken(Complete(cfg, fresh)) /\ ~NeedsKeys(Complete(cfg, fresh))
         /\ ~NeedsToken(cfg) /\ ~NeedsKeys(cfg) => Complete(cfg, fresh) = cfg
<1> DEFINE new == Complete(cfg, fresh)
<1>1. /\ new \in CfgRec
      /\ new.token = IF NeedsToken(cfg) THEN fresh ELSE cfg.token
      /\ new.private = IF NeedsKeys(cfg) THEN fresh ELSE cfg.private
      /\ new.public = IF NeedsKeys(cfg) THEN fresh ELSE cfg.public
  BY DEF Complete, CfgRec
<1>2. ~NeedsToken(cfg) /\ ~NeedsKeys(cfg) => new = cfg
  BY DEF Complete, CfgRec
<1> QED
  BY <1>1, <1>2 DEF NeedsToken, NeedsKeys

\* A configuration that lacks no secret has credentials, and is not NoCfg.
LEMMA HasCredentials ==
  ASSUME NEW cfg \in CfgRec, ~NeedsToken(cfg), ~NeedsKeys(cfg)
  PROVE  /\ cfg # NoCfg /\ Credentials(cfg) # NoOne
         /\ "" \notin {Credentials(cfg)[1], Credentials(cfg)[2]}
<1>1. cfg.token # "" /\ cfg.public # ""
  BY DEF NeedsToken, NeedsKeys
<1>2. Credentials(cfg)[1] = cfg.token /\ Credentials(cfg)[2] = cfg.public
  BY DEF Credentials
<1>3. NoOne[1] = "" /\ NoCfg.token = ""
  BY DEF NoOne, NoCfg
<1> QED
  BY <1>1, <1>2, <1>3

\* Which encoders work does not depend on the codec that is configured, and one
\* that works is chosen when it is configured.
LEMMA ProbeIgnoresCodec ==
  ASSUME NEW cfg \in CfgRec, NEW c, NEW pl, NEW h
  PROVE  ProbeBackends([cfg EXCEPT !.codec = c], pl, h) = ProbeBackends(cfg, pl, h)
<1>1. [cfg EXCEPT !.codec = c].node = cfg.node
  BY DEF CfgRec
<1>2. \A k : PinnedBackend([cfg EXCEPT !.codec = c], k, pl, h) = PinnedBackend(cfg, k, pl, h)
  BY <1>1 DEF PinnedBackend
<1> QED
  BY <1>2 DEF ProbeBackends

LEMMA PinnedIsChosen ==
  ASSUME NEW cfg, NEW pl, NEW h, cfg.codec \in ProbeBackends(cfg, pl, h)
  PROVE  ResolvedEncodeBackend(cfg, pl, h).codec = cfg.codec
<1> DEFINE c == cfg.codec
<1>1. /\ c \in SelectableCodecs \ {AutoCodec}
      /\ PinnedBackend(cfg, c, pl, h) # NoBackend
  BY DEF ProbeBackends
<1>2. c \notin {"", AutoCodec}
  BY <1>1 DEF SelectableCodecs, AutoCodec
<1>3. ResolvedEncodeBackend(cfg, pl, h) = PinnedBackend(cfg, c, pl, h)
  BY <1>1, <1>2 DEF ResolvedEncodeBackend
<1>4. PinnedBackend(cfg, c, pl, h).codec = c
  <2>1. \A n : Backend(c, n).codec = c
    BY DEF Backend
  <2>2. \E n : PinnedBackend(cfg, c, pl, h) = Backend(c, n)
    <3>1. CASE c = "h264_vaapi"
      <4>1. PinnedBackend(cfg, c, pl, h) =
              Backend(c, WorkingVaapiNode(cfg.node, pl, h))
        BY <1>1, <3>1 DEF PinnedBackend
      <4> QED
        BY <4>1
    <3>2. CASE c # "h264_vaapi"
      <4>1. PinnedBackend(cfg, c, pl, h) = Backend(c, "")
        BY <1>1, <3>2 DEF PinnedBackend
      <4> QED
        BY <4>1
    <3> QED
      BY <3>1, <3>2
  <2> QED
    BY <2>1, <2>2
<1> QED
  BY <1>3, <1>4

\* A ruined file does not parse.
LEMMA RuinedDoesNotParse ==
  ASSUME NEW text, Ruined(text)
  PROVE  ~Parses(text)
BY DEF Ruined, Parses

-----------------------------------------------------------------------------
(* The inductive invariant. *)

ProcRec == [at : Starting \cup {"off", "serving"},
            job : {"serve", "doctor", "list", "set"}, arg : SelectableCodecs,
            cfg : CfgRec, text : Lines]

ProcTypes(p) ==
  /\ WellFormed(proc[p].text, Values)
  /\ At(p) # "off" => starts \in 1..MaxStart
  /\ At(p) \in {"setTruncate", "setWrite"} => proc[p].job = "set"
  /\ At(p) \in {"truncate", "write", "loaded", "advertise", "address"} /\ p = "daemon"
       => proc[p].job = "serve"
Types ==
  /\ TypeOK
  /\ proc \in [Proc -> ProcRec]
  /\ \A p \in Proc : ProcTypes(p)

\* Only one process is starting; a serving daemon writes nothing.
OneStarts == \A p, q \in Proc : At(p) \in Starting /\ At(q) \in Starting => p = q

\* The text parses, lacks no secret, and has those of the identity.
Settled(text) ==
  /\ Parses(text)
  /\ ~NeedsToken(Parse(text)) /\ ~NeedsKeys(Parse(text))
  /\ Credentials(Parse(text)) = identity

\* The state of the file, or of the text that is about to replace it.
Fits(text) ==
  IF damaged THEN Ruined(text)
  ELSE IF identity = NoOne THEN Parses(text) => Appendable(text)
  ELSE Settled(text)

Backed(c) == ResolvedIp(c) # "" /\ ResolvedEncodeBackend(c, platform, hw) # NoBackend

\* What the commands found out is true of the file.
Told ==
  /\ verdict = "healthy" => Backed(Parse(file))
  /\ offered # {} => offered = ProbeBackends(Parse(file), platform, hw)
  /\ expected # "none" => expected = Parse(file).codec

FileFits == ~Writing => Fits(file) /\ (~damaged => Told)
ToldOfSomeone ==
  ~damaged => /\ expected # "none" => expected \in offered
              /\ verdict = "healthy" \/ offered # {} => identity # NoOne

\* The configuration of a process is the one in the file, or about to be.
HasCfg(p) ==
  /\ At(p) \in {"off", "load"} => Cfg(p) = NoCfg
  /\ At(p) \notin {"off", "load"} /\ proc[p].job \in {"serve", "list"} => Cfg(p) # NoCfg
  /\ At(p) \notin {"off", "load", "truncate", "write"} /\ Cfg(p) # NoCfg =>
       Credentials(Cfg(p)) = identity /\ identity # NoOne
OfFile(p) ==
  At(p) \in {"loaded", "advertise", "address"} /\ ~damaged =>
    IF Cfg(p) = NoCfg THEN ~Parses(file) /\ identity = NoOne
                      ELSE Cfg(p) = Parse(file)
Completing(p) ==
  At(p) \in {"truncate", "write"} =>
    /\ ~damaged /\ identity = NoOne
    /\ Parses(proc[p].text) /\ Cfg(p) = Parse(proc[p].text)
    /\ ~NeedsToken(Cfg(p)) /\ ~NeedsKeys(Cfg(p))
Setting(p) ==
  At(p) \in {"setTruncate", "setWrite"} =>
    /\ Fits(proc[p].text)
    /\ ~damaged /\ identity = NoOne => ~Parses(proc[p].text)
    /\ ~damaged /\ offered # {} =>
         offered = ProbeBackends(Parse(proc[p].text), platform, hw)
    /\ ~damaged /\ identity # NoOne => Parse(proc[p].text).codec = proc[p].arg
Loaded(p) == HasCfg(p) /\ OfFile(p) /\ Completing(p) /\ Setting(p)

IInv ==
  /\ Types
  /\ OneStarts
  /\ FileFits
  /\ ToldOfSomeone
  /\ \A p \in Proc : Loaded(p)

-----------------------------------------------------------------------------
(* Steps of one process. *)

\* What a step that leaves p as r needs to keep the types.
Fine(p, r) ==
  /\ r \in ProcRec /\ WellFormed(r.text, Values)
  /\ r.at # "off" => starts' \in 1..MaxStart
  /\ r.at \in {"setTruncate", "setWrite"} => r.job = "set"
  /\ r.at = "off" \/ (p = "daemon") = (r.job = "serve")
  /\ r.at \in {"write", "setWrite"} => file' = <<>>
RestTypes ==
  /\ platform \in {"linux", "windows"}
  /\ WellFormed(file, Values)
  /\ hw \in Hardware /\ addr \in Address
  /\ changes \in 0..MaxChange /\ starts \in 0..MaxStart
  /\ failure \in {"none", "config", "encoder", "address"}
  /\ damaged \in BOOLEAN
  /\ verdict \in {"none", "healthy", "unhealthy"}
  /\ offered \subseteq SelectableCodecs
  /\ expected \in SelectableCodecs \cup {"none"}

LEMMA TypesOfProc ==
  ASSUME Types, NEW p \in Proc
  PROVE  /\ proc[p] \in ProcRec /\ WellFormed(proc[p].text, Values)
         /\ At(p) # "off" => starts \in 1..MaxStart
         /\ At(p) \in {"setTruncate", "setWrite"} => proc[p].job = "set"
         /\ At(p) = "off" \/ (p = "daemon") = (proc[p].job = "serve")
         /\ At(p) \in {"write", "setWrite"} => file = <<>>
BY DEF Types, TypeOK, ProcTypes

LEMMA OffIsFine == Off \in ProcRec /\ WellFormed(Off.text, Values)
<1>1. NoCfg \in CfgRec /\ <<>> \in Lines /\ AutoCodec \in SelectableCodecs
  BY LineType, ShortLines DEF NoCfg, CfgRec, SelectableCodecs
<1>2. Off \in ProcRec
  BY <1>1 DEF Off, ProcRec
<1>3. Off.text = <<>>
  BY DEF Off
<1> QED
  BY <1>1, <1>2, <1>3, ShortLines DEF WellFormed, Lines

\* While p starts, nobody else does, and only p can be writing.
LEMMA NobodyElse ==
  ASSUME Types, OneStarts, NEW p \in Proc, At(p) \in Starting
  PROVE  /\ \A q \in Proc : q # p => At(q) \in {"off", "serving"}
         /\ Writing <=> At(p) \in {"write", "setWrite"}
<1>1. \A q \in Proc : q # p => At(q) \in {"off", "serving"}
  <2> TAKE q \in Proc
  <2>1. At(q) \in Starting \cup {"off", "serving"}
    BY DEF Types, ProcRec, At
  <2> QED
    BY <2>1 DEF OneStarts
<1> QED
  BY <1>1 DEF Writing

\* A step of the process p that starts: the others are not disturbed.
LEMMA StepOfOne ==
  ASSUME IInv, NEW p \in Proc, At(p) \in Starting, NEW r, Fine(p, r),
         proc' = [proc EXCEPT ![p] = r], starts' = starts, RestTypes',
         identity' = identity \/ identity = NoOne
  PROVE  /\ Types' /\ OneStarts'
         /\ \A q \in Proc \ {p} : Loaded(q)'
         /\ proc'[p] = r
         /\ Writing' <=> r.at \in {"write", "setWrite"}
<1>1. /\ proc \in [Proc -> ProcRec] /\ Types /\ OneStarts
      /\ \A q \in Proc : Loaded(q)
  BY DEF IInv, Types
<1>2. /\ proc' \in [Proc -> ProcRec] /\ proc'[p] = r
      /\ \A q \in Proc \ {p} : proc'[q] = proc[q]
  BY <1>1 DEF Fine
<1>3. \A q \in Proc \ {p} : At(q) \in {"off", "serving"}
  BY <1>1, NobodyElse
<1>4. Types'
  <2>1. \A q \in Proc : ProcTypes(q)'
    <3> TAKE q \in Proc
    <3>1. CASE q = p
      BY <1>2, <3>1 DEF Fine, ProcTypes, At
    <3>2. CASE q # p
      <4>1. proc'[q] = proc[q] /\ ProcTypes(q)
        BY <1>1, <1>2, <3>2 DEF Types
      <4> QED
        BY <4>1 DEF ProcTypes, At
    <3> QED
      BY <3>1, <3>2
  <2>2. \A q \in Proc : /\ proc'[q].at \in Starting \cup {"off", "serving"}
                        /\ (q = "daemon") = (proc'[q].job = "serve") \/ proc'[q].at = "off"
                        /\ proc'[q].arg \in SelectableCodecs
                        /\ proc'[q].at \in {"write", "setWrite"} => file' = <<>>
    <3> TAKE q \in Proc
    <3>1. proc'[q] \in ProcRec
      BY <1>2
    <3>2. CASE q = p
      BY <1>2, <3>1, <3>2 DEF Fine, ProcRec
    <3>3. CASE q # p
      <4>1. proc'[q] = proc[q] /\ proc[q].at \in {"off", "serving"}
        BY <1>2, <1>3, <3>3 DEF At
      <4> QED
        BY <1>1, <3>1, <4>1, TypesOfProc DEF ProcRec, At
    <3> QED
      BY <3>2, <3>3
  <2>3. DOMAIN proc' = Proc
    BY <1>2
  <2>4. TypeOK'
    BY <2>2, <2>3 DEF TypeOK, RestTypes, At
  <2> QED
    BY <1>2, <2>1, <2>4 DEF Types
<1>5. \A q \in Proc \ {p} : At(q)' \in {"off", "serving"}
  BY <1>2, <1>3 DEF At
<1>6. "off" \notin Starting /\ "serving" \notin Starting
  BY DEF Starting
<1>7. OneStarts'
  BY <1>5, <1>6 DEF OneStarts
<1>8. Writing' <=> r.at \in {"write", "setWrite"}
  BY <1>2, <1>5 DEF Writing, At
<1>9. ASSUME NEW q \in Proc \ {p} PROVE Loaded(q)'
  <2>1. HasCfg(q) /\ proc'[q] = proc[q] /\ proc[q].at \in {"off", "serving"}
    BY <1>1, <1>2, <1>3 DEF Loaded, At
  <2>2. HasCfg(q)'
    BY <2>1 DEF HasCfg, At, Cfg
  <2>3. OfFile(q)' /\ Completing(q)' /\ Setting(q)'
    BY <2>1 DEF OfFile, Completing, Setting, At
  <2> QED
    BY <2>2, <2>3 DEF Loaded
<1> QED
  BY <1>2, <1>4, <1>7, <1>8, <1>9

LEMMA StartStep ==
  ASSUME StartAssumption, Exclusive, IInv, NEW p \in Proc,
         NEW j \in {"serve", "doctor", "list", "set"}, NEW c \in SelectableCodecs,
         Start(p, j, c)
  PROVE  IInv'
<1> DEFINE r == [Off EXCEPT !.at = "load", !.job = j, !.arg = c]
<1>1. /\ proc \in [Proc -> ProcRec] /\ Types /\ OneStarts
      /\ \A q \in Proc : At(q) \notin Starting
      /\ \A q \in Proc : Loaded(q)
  BY DEF IInv, Types, Start
<1>2. /\ r \in ProcRec /\ r.at = "load" /\ r.job = j /\ r.arg = c
      /\ r.cfg = NoCfg /\ r.text = Off.text
  BY OffIsFine DEF ProcRec, Off, Starting
<1>3. /\ starts' = starts + 1 /\ starts < MaxStart
      /\ proc' = [proc EXCEPT ![p] = r]
      /\ UNCHANGED <<world, file, shown, failure, identity, damaged, said>>
      /\ (p = "daemon") <=> (j = "serve")
  BY DEF Start
<1> HIDE DEF r
<1>4. /\ proc' \in [Proc -> ProcRec] /\ proc'[p] = r
      /\ \A q \in Proc \ {p} : proc'[q] = proc[q]
  BY <1>1, <1>2, <1>3
<1>5. starts' \in 1..MaxStart /\ starts \in Nat /\ MaxStart \in Nat
  <2>1. MaxStart \in Nat
    BY DEF StartAssumption
  <2>2. starts \in 0..MaxStart
    BY <1>1 DEF Types, TypeOK
  <2> QED
    BY <1>3, <2>1, <2>2
<1>6. Types'
  <2>1. ASSUME NEW q \in Proc
        PROVE  /\ ProcTypes(q)'
               /\ (q = "daemon") = (proc'[q].job = "serve") \/ proc'[q].at = "off"
               /\ proc'[q].at \in {"write", "setWrite"} => file' = <<>>
               /\ proc'[q].at \in Starting \cup {"off", "serving"}
               /\ proc'[q].arg \in SelectableCodecs
    <3>0. proc'[q] \in ProcRec
      BY <1>4
    <3>1. CASE q = p
      BY <1>2, <1>3, <1>4, <1>5, <3>0, <3>1, OffIsFine DEF ProcTypes, At, ProcRec
    <3>2. CASE q # p
      <4>1. proc'[q] = proc[q] /\ ProcTypes(q)
        BY <1>1, <1>4, <3>2 DEF Types
      <4>2. ProcTypes(q)'
        BY <1>5, <4>1 DEF ProcTypes, At
      <4> QED
        BY <1>1, <1>3, <3>0, <4>1, <4>2, TypesOfProc DEF ProcRec, At
    <3> QED
      BY <3>1, <3>2
  <2>2. DOMAIN proc' = Proc /\ starts' \in 0..MaxStart
    BY <1>4, <1>5
  <2>3. TypeOK'
    BY <1>1, <1>3, <2>1, <2>2 DEF Types, TypeOK, At, world, said
  <2> QED
    BY <1>4, <2>1, <2>3 DEF Types
<1>7. OneStarts'
  <2>1. \A q \in Proc \ {p} : At(q)' \notin Starting
    BY <1>1, <1>4 DEF At
  <2> QED
    BY <2>1 DEF OneStarts
<1>8. ~Writing
  BY <1>1 DEF Writing, Starting
<1>9. FileFits' /\ ToldOfSomeone'
  <2>1. Fits(file) /\ (~damaged => Told) /\ ToldOfSomeone
    BY <1>8 DEF IInv, FileFits
  <2>2. Fits(file)' /\ (~damaged' => Told')
    BY <1>3, <2>1 DEF Fits, Settled, Told, Backed, ResolvedIp, world, said
  <2>3. ToldOfSomeone'
    BY <1>3, <2>1 DEF ToldOfSomeone, said
  <2> QED
    BY <2>2, <2>3 DEF FileFits
<1>10. ASSUME NEW q \in Proc PROVE Loaded(q)'
  <2>1. CASE q = p
    BY <1>2, <1>4, <2>1 DEF Loaded, HasCfg, OfFile, Completing, Setting, At, Cfg
  <2>2. CASE q # p
    <3>1. proc'[q] = proc[q] /\ HasCfg(q) /\ proc[q].at \notin Starting
      BY <1>1, <1>4, <2>2 DEF Loaded, At
    <3>2. HasCfg(q)'
      BY <1>3, <3>1 DEF HasCfg, At, Cfg
    <3>3. OfFile(q)' /\ Completing(q)' /\ Setting(q)'
      BY <3>1 DEF OfFile, Completing, Setting, At, Starting
    <3> QED
      BY <3>2, <3>3 DEF Loaded
  <2> QED
    BY <2>1, <2>2
<1> QED
  BY <1>6, <1>7, <1>9, <1>10 DEF IInv

\* GoTo, by what becomes of the process.
Moved(p, l) == IF l = "off" THEN Off ELSE [proc[p] EXCEPT !.at = l]
LEMMA MovedIs ==
  ASSUME Types, NEW p \in Proc, NEW l \in Starting \cup {"off", "serving"}, GoTo(p, l)
  PROVE  /\ proc' = [proc EXCEPT ![p] = Moved(p, l)]
         /\ Moved(p, l).at = l
         /\ Moved(p, l) \in ProcRec /\ WellFormed(Moved(p, l).text, Values)
         /\ l # "off" => /\ Moved(p, l).cfg = Cfg(p) /\ Moved(p, l).text = proc[p].text
                         /\ Moved(p, l).job = proc[p].job /\ Moved(p, l).arg = proc[p].arg
         /\ l = "off" => Moved(p, l).cfg = NoCfg
<1>1. proc[p] \in ProcRec /\ WellFormed(proc[p].text, Values)
      /\ proc \in [Proc -> ProcRec]
  BY TypesOfProc DEF Types
<1>2. CASE l = "off"
  <2>1. Moved(p, l) = Off
    BY <1>2 DEF Moved
  <2>2. Off.at = "off" /\ Off.cfg = NoCfg
    BY DEF Off
  <2>3. proc' = [proc EXCEPT ![p] = Off]
    BY <1>2 DEF GoTo
  <2> QED
    BY <1>2, <2>1, <2>2, <2>3, OffIsFine
<1>3. CASE l # "off"
  <2>1. Moved(p, l) = [proc[p] EXCEPT !.at = l]
    BY <1>3 DEF Moved
  <2>2. /\ Moved(p, l) \in ProcRec /\ Moved(p, l).at = l
        /\ Moved(p, l).cfg = proc[p].cfg /\ Moved(p, l).text = proc[p].text
        /\ Moved(p, l).job = proc[p].job /\ Moved(p, l).arg = proc[p].arg
    BY <1>1, <2>1 DEF ProcRec
  <2>3. proc' = [proc EXCEPT ![p] = Moved(p, l)]
    BY <1>1, <1>3, <2>1 DEF GoTo
  <2> QED
    BY <1>1, <1>3, <2>2, <2>3 DEF Cfg
<1> QED
  BY <1>2, <1>3

\* What is true of the file while a process that starts does not write it.
LEMMA FileWhileStarting ==
  ASSUME IInv, NEW p \in Proc, At(p) \in Starting \ {"write", "setWrite"}
  PROVE  /\ Fits(file) /\ (~damaged => Told)
         /\ WellFormed(file, Values)
         /\ Parses(file) => ~damaged /\ Appendable(file)
         /\ ~damaged /\ identity # NoOne => Settled(file)
<1>1. ~Writing
  BY NobodyElse DEF IInv
<1>2. Fits(file) /\ (~damaged => Told)
  BY <1>1 DEF IInv, FileFits
<1>3. WellFormed(file, Values)
  BY DEF IInv, Types, TypeOK
<1>4. Parses(file) => ~damaged
  BY <1>2, RuinedDoesNotParse DEF Fits
<1>5. ~damaged /\ identity # NoOne => Settled(file)
  BY <1>2 DEF Fits
<1>6. Settled(file) => Appendable(file)
  BY DEF Settled, Appendable
<1>7. ~damaged /\ identity = NoOne => (Parses(file) => Appendable(file))
  BY <1>2 DEF Fits
<1> QED
  BY <1>2, <1>3, <1>4, <1>5, <1>6, <1>7

LEMMA LoadStep ==
  ASSUME StartAssumption, IInv, NEW p \in Proc, Load(p)
  PROVE  IInv'
<1> DEFINE fresh == Secret[starts]
           got == Complete(Parse(file), fresh)
           more == Appended(file, fresh)
<1>1. /\ At(p) = "load" /\ At(p) \in Starting \ {"write", "setWrite"}
      /\ proc \in [Proc -> ProcRec] /\ Types
      /\ Loaded(p) /\ ToldOfSomeone /\ Cfg(p) = NoCfg
      /\ UNCHANGED <<world, file, starts, shown, damaged, said>>
  BY DEF Load, Starting, IInv, Types, Loaded, HasCfg
<1>2. /\ Fits(file) /\ (~damaged => Told)
      /\ WellFormed(file, Values)
      /\ Parses(file) => ~damaged /\ Appendable(file)
      /\ ~damaged /\ identity # NoOne => Settled(file)
  BY <1>1, FileWhileStarting
<1>3. starts \in 1..MaxStart
  BY <1>1, TypesOfProc
<1>4. fresh \in Values /\ fresh # ""
  <2>1. Secret[starts] \in ToSet(Secret)
    BY <1>3 DEF StartAssumption, ToSet
  <2>2. Secret[starts] # ""
    BY <2>1 DEF StartAssumption
  <2>3. ToSet(Secret) \subseteq Values
    BY DEF Values
  <2> QED
    BY <2>1, <2>2, <2>3
<1>5. file \in Lines /\ Parse(file) \in CfgRec
  BY <1>2, ParseType DEF WellFormed, Lines
<1>6. /\ got \in CfgRec /\ ~NeedsToken(got) /\ ~NeedsKeys(got)
      /\ ~Needs(file) => got = Parse(file)
  BY <1>4, <1>5, CompleteIs DEF Needs
<1>7. /\ got # NoCfg /\ Credentials(got) # NoOne
  BY <1>6, HasCredentials
<1>8. more = <<>> <=> ~Needs(file)
  BY <1>4, <1>5, AppendedLines
<1>9. RestTypes' <=> failure' \in {"none", "config", "encoder", "address"}
  BY <1>1 DEF Types, TypeOK, RestTypes, world, said
<1>10. failure \in {"none", "config", "encoder", "address"}
  BY <1>1 DEF Types, TypeOK
<1>11. /\ proc[p] \in ProcRec /\ WellFormed(proc[p].text, Values)
       /\ (p = "daemon") = (proc[p].job = "serve")
  BY <1>1, TypesOfProc
<1>12. Settled(file)' <=> Parses(file) /\ ~Needs(file) /\ Credentials(Parse(file)) = identity'
  BY <1>1 DEF Settled, Needs
<1>13. Told' <=> Told
  BY <1>1 DEF Told, Backed, ResolvedIp, world, said
<1> HIDE DEF fresh, got, more
\* The file was complete.
<1>20. CASE Parses(file) /\ more = <<>>
  <2> DEFINE r == [proc[p] EXCEPT !.at = "loaded", !.cfg = got, !.text = <<>>]
  <2>1. /\ proc' = [proc EXCEPT ![p].at = "loaded", ![p].cfg = got, ![p].text = <<>>]
        /\ identity' = IF identity = NoOne THEN Credentials(got) ELSE identity
        /\ failure' = failure
    BY <1>20 DEF Load, fresh, got, more
  <2>2. proc' = [proc EXCEPT ![p] = r]
    BY <1>1, <1>11, <2>1 DEF ProcRec
  <2>3. /\ r \in ProcRec /\ r.at = "loaded" /\ r.cfg = got /\ r.text = <<>>
        /\ r.job = proc[p].job
    BY <1>6, <1>11, ShortLines DEF ProcRec, Starting
  <2> HIDE DEF r
  <2>4. Fine(p, r)
    BY <1>1, <1>3, <1>11, <2>3, ShortLines DEF Fine, WellFormed, Lines
  <2>5. identity' = identity \/ identity = NoOne
    BY <2>1
  <2>6. /\ Types' /\ OneStarts' /\ \A q \in Proc \ {p} : Loaded(q)'
        /\ proc'[p] = r /\ ~Writing'
    BY <1>1, <1>9, <1>10, <2>1, <2>2, <2>3, <2>4, <2>5, StepOfOne
  <2>7. got = Parse(file) /\ ~damaged /\ ~Needs(file)
    BY <1>2, <1>6, <1>8, <1>20
  <2>8. identity' = Credentials(got) /\ identity' # NoOne
    <3>1. identity # NoOne => Credentials(Parse(file)) = identity
      BY <1>2, <2>7 DEF Settled
    <3> QED
      BY <1>7, <2>1, <2>7, <3>1
  <2>9. FileFits'
    <3>1. Settled(file)'
      BY <1>12, <1>20, <2>7, <2>8
    <3>2. Fits(file)'
      BY <1>1, <2>7, <2>8, <3>1 DEF Fits
    <3> QED
      BY <1>2, <1>13, <2>7, <3>2 DEF FileFits
  <2>10. ToldOfSomeone'
    BY <1>1, <2>8 DEF ToldOfSomeone, said
  <2>11. Loaded(p)'
    <3>1. At(p)' = "loaded" /\ Cfg(p)' = got
      BY <2>3, <2>6 DEF At, Cfg
    <3>2. HasCfg(p)'
      BY <1>7, <2>8, <3>1 DEF HasCfg
    <3>3. OfFile(p)'
      BY <1>1, <1>7, <2>7, <3>1 DEF OfFile
    <3>4. Completing(p)' /\ Setting(p)'
      BY <3>1 DEF Completing, Setting
    <3> QED
      BY <3>2, <3>3, <3>4 DEF Loaded
  <2> QED
    BY <2>6, <2>9, <2>10, <2>11 DEF IInv
\* Secrets are generated.
<1>21. CASE Parses(file) /\ more # <<>>
  <2> DEFINE r == [proc[p] EXCEPT !.at = "truncate", !.cfg = got, !.text = file \o more]
  <2>1. /\ proc' = [proc EXCEPT ![p].at = "truncate", ![p].cfg = got,
                                ![p].text = file \o more]
        /\ identity' = identity /\ failure' = failure
    BY <1>21 DEF Load, fresh, got, more
  <2>2. /\ WellFormed(file \o more, Values) /\ Parses(file \o more)
        /\ Parse(file \o more) = got
    BY <1>2, <1>4, <1>21, CompletingIsExact DEF more, got
  <2>3. proc' = [proc EXCEPT ![p] = r]
    BY <1>1, <1>11, <2>1 DEF ProcRec
  <2>4. /\ r \in ProcRec /\ r.at = "truncate" /\ r.cfg = got /\ r.text = file \o more
        /\ r.job = proc[p].job
    <3>1. file \o more \in Lines
      BY <2>2 DEF WellFormed, Lines
    <3> QED
      BY <1>6, <1>11, <3>1 DEF ProcRec, Starting
  <2> HIDE DEF r
  <2>5. Fine(p, r)
    BY <1>1, <1>3, <1>11, <2>2, <2>4 DEF Fine
  <2>6. /\ Types' /\ OneStarts' /\ \A q \in Proc \ {p} : Loaded(q)'
        /\ proc'[p] = r /\ ~Writing'
    BY <1>1, <1>9, <1>10, <2>1, <2>3, <2>4, <2>5, StepOfOne
  <2>7. ~damaged /\ identity = NoOne
    <3>1. Settled(file) => ~Needs(file)
      BY DEF Settled, Needs
    <3> QED
      BY <1>2, <1>8, <1>21, <3>1
  <2>8. FileFits'
    <3>1. Fits(file)'
      BY <1>1, <1>2, <2>1 DEF Fits, Settled
    <3> QED
      BY <1>2, <1>13, <2>7, <3>1 DEF FileFits
  <2>9. ToldOfSomeone'
    BY <1>1, <2>1 DEF ToldOfSomeone, said
  <2>10. Loaded(p)'
    <3>1. At(p)' = "truncate" /\ Cfg(p)' = got /\ proc'[p].text = file \o more
      BY <2>4, <2>6 DEF At, Cfg
    <3>2. HasCfg(p)'
      BY <1>7, <3>1 DEF HasCfg
    <3>3. Completing(p)'
      BY <1>1, <1>6, <2>1, <2>2, <2>7, <3>1 DEF Completing
    <3>4. OfFile(p)' /\ Setting(p)'
      BY <3>1 DEF OfFile, Setting
    <3> QED
      BY <3>2, <3>3, <3>4 DEF Loaded
  <2> QED
    BY <2>6, <2>8, <2>9, <2>10 DEF IInv
\* The file does not parse.
<1>22. CASE ~Parses(file)
  <2> DEFINE l == IF proc[p].job \in {"doctor", "set"} THEN "loaded" ELSE "off"
             r == Moved(p, l)
  <2>1. /\ GoTo(p, l) /\ identity' = identity
        /\ failure' = IF p = "daemon" THEN "config" ELSE failure
    BY <1>22 DEF Load
  <2>2. l \in {"loaded", "off"} /\ l \in Starting \cup {"off", "serving"}
    BY DEF Starting
  <2>3. l = "loaded" => proc[p].job \in {"doctor", "set"}
    OBVIOUS
  <2> HIDE DEF l
  <2>4. /\ proc' = [proc EXCEPT ![p] = r] /\ r.at = l
        /\ r \in ProcRec /\ WellFormed(r.text, Values)
        /\ l # "off" => r.cfg = Cfg(p) /\ r.job = proc[p].job
        /\ l = "off" => r.cfg = NoCfg
    BY <1>1, <2>1, <2>2, MovedIs
  <2> HIDE DEF r
  <2>5. Fine(p, r)
    BY <1>1, <1>3, <1>11, <2>2, <2>4 DEF Fine
  <2>6. /\ Types' /\ OneStarts' /\ \A q \in Proc \ {p} : Loaded(q)'
        /\ proc'[p] = r /\ ~Writing'
    BY <1>1, <1>9, <1>10, <2>1, <2>2, <2>4, <2>5, StepOfOne
  <2>7. ~damaged => identity = NoOne
    BY <1>2, <1>22 DEF Settled
  <2>8. FileFits'
    <3>1. Fits(file)'
      BY <1>1, <1>2, <2>1 DEF Fits, Settled
    <3> QED
      BY <1>1, <1>2, <1>13, <3>1 DEF FileFits
  <2>9. ToldOfSomeone'
    BY <1>1, <2>1 DEF ToldOfSomeone, said
  <2>10. Loaded(p)'
    <3>1. /\ At(p)' \in {"loaded", "off"} /\ Cfg(p)' = NoCfg
          /\ At(p)' = "loaded" => proc'[p].job \in {"doctor", "set"}
      BY <1>1, <2>2, <2>3, <2>4, <2>6 DEF At, Cfg
    <3>2. HasCfg(p)'
      BY <3>1 DEF HasCfg
    <3>3. OfFile(p)'
      BY <1>1, <1>22, <2>1, <2>7, <3>1 DEF OfFile
    <3>4. Completing(p)' /\ Setting(p)'
      BY <3>1 DEF Completing, Setting
    <3> QED
      BY <3>2, <3>3, <3>4 DEF Loaded
  <2> QED
    BY <2>6, <2>8, <2>9, <2>10 DEF IInv
<1> QED
  BY <1>20, <1>21, <1>22

LEMMA TruncateStep ==
  ASSUME IInv, NEW p \in Proc, Truncate(p)
  PROVE  IInv'
<1> DEFINE l == IF At(p) = "truncate" THEN "write" ELSE "setWrite"
           r == Moved(p, l)
<1>1. /\ At(p) \in {"truncate", "setTruncate"} /\ At(p) \in Starting /\ Types
      /\ Loaded(p) /\ ToldOfSomeone /\ file' = <<>> /\ GoTo(p, l)
      /\ UNCHANGED <<world, starts, shown, failure, identity, damaged, said>>
  BY DEF Truncate, Starting, IInv
<1>2. l \in {"write", "setWrite"} /\ l \in Starting \cup {"off", "serving"}
      /\ (l = "write" <=> At(p) = "truncate") /\ (l = "setWrite" <=> At(p) = "setTruncate")
  BY <1>1 DEF Starting
<1> HIDE DEF l
<1>3. /\ proc' = [proc EXCEPT ![p] = r] /\ r.at = l
      /\ r \in ProcRec /\ WellFormed(r.text, Values)
      /\ r.cfg = Cfg(p) /\ r.job = proc[p].job /\ r.text = proc[p].text
      /\ r.arg = proc[p].arg
  <2>1. l # "off"
    BY <1>2
  <2> QED
    BY <1>1, <1>2, <2>1, MovedIs
<1> HIDE DEF r
<1>4. starts \in 1..MaxStart /\ (p = "daemon") = (proc[p].job = "serve")
      /\ (l = "setWrite" => proc[p].job = "set")
  BY <1>1, <1>2, TypesOfProc
<1>5. Fine(p, r)
  BY <1>1, <1>2, <1>3, <1>4 DEF Fine
<1>6. RestTypes'
  <2>1. WellFormed(<<>>, Values)
    BY ShortLines DEF WellFormed, Lines
  <2> QED
    BY <1>1, <2>1 DEF Types, TypeOK, RestTypes, world, said
<1>7. /\ Types' /\ OneStarts' /\ \A q \in Proc \ {p} : Loaded(q)'
      /\ proc'[p] = r /\ Writing'
  BY <1>1, <1>2, <1>3, <1>5, <1>6, StepOfOne
<1>8. FileFits' /\ ToldOfSomeone'
  BY <1>1, <1>7 DEF FileFits, ToldOfSomeone, said
<1>9. Loaded(p)'
  <2>1. /\ At(p)' = l /\ Cfg(p)' = Cfg(p) /\ proc'[p].text = proc[p].text
        /\ proc'[p].job = proc[p].job /\ proc'[p].arg = proc[p].arg
    BY <1>3, <1>7 DEF At, Cfg
  <2>2. HasCfg(p)'
    BY <1>1, <1>2, <2>1 DEF Loaded, HasCfg
  <2>3. OfFile(p)'
    BY <1>2, <2>1 DEF OfFile
  <2>4. Completing(p)'
    BY <1>1, <1>2, <2>1 DEF Loaded, Completing
  <2>5. Setting(p)'
    BY <1>1, <1>2, <2>1 DEF Loaded, Setting, Fits, Settled, world, said
  <2> QED
    BY <2>2, <2>3, <2>4, <2>5 DEF Loaded
<1> QED
  BY <1>7, <1>8, <1>9 DEF IInv

LEMMA WriteStep ==
  ASSUME IInv, NEW p \in Proc, Write(p)
  PROVE  IInv'
<1> DEFINE r == [proc[p] EXCEPT !.at = "loaded", !.text = <<>>]
           text == proc[p].text
<1>1. /\ At(p) = "write" /\ At(p) \in Starting /\ Types /\ proc \in [Proc -> ProcRec]
      /\ Loaded(p) /\ ToldOfSomeone /\ file' = text
      /\ proc' = [proc EXCEPT ![p].at = "loaded", ![p].text = <<>>]
      /\ identity' = IF identity = NoOne THEN Credentials(Cfg(p)) ELSE identity
      /\ UNCHANGED <<world, starts, shown, failure, damaged, said>>
  BY DEF Write, Starting, IInv, Types
<1>2. /\ proc[p] \in ProcRec /\ WellFormed(text, Values) /\ starts \in 1..MaxStart
      /\ (p = "daemon") = (proc[p].job = "serve")
  BY <1>1, TypesOfProc
<1>3. proc' = [proc EXCEPT ![p] = r]
  BY <1>1, <1>2 DEF ProcRec
<1>4. /\ r \in ProcRec /\ r.at = "loaded" /\ r.cfg = Cfg(p) /\ r.text = <<>>
      /\ r.job = proc[p].job
  BY <1>2, ShortLines DEF ProcRec, Starting, Cfg
<1> HIDE DEF r
<1>5. Fine(p, r)
  BY <1>1, <1>2, <1>4, ShortLines DEF Fine, WellFormed, Lines
<1>6. RestTypes'
  BY <1>1, <1>2 DEF Types, TypeOK, RestTypes, world, said
<1>7. /\ ~damaged /\ identity = NoOne
      /\ Parses(text) /\ Cfg(p) = Parse(text)
      /\ ~NeedsToken(Cfg(p)) /\ ~NeedsKeys(Cfg(p))
  BY <1>1 DEF Loaded, Completing
<1>8. /\ Types' /\ OneStarts' /\ \A q \in Proc \ {p} : Loaded(q)'
      /\ proc'[p] = r /\ ~Writing'
  BY <1>1, <1>3, <1>4, <1>5, <1>6, <1>7, StepOfOne
<1> HIDE DEF text
<1>9. identity' = Credentials(Cfg(p)) /\ identity' # NoOne /\ Cfg(p) # NoCfg
  <2>1. Cfg(p) \in CfgRec
    BY <1>2 DEF ProcRec, Cfg
  <2> QED
    BY <1>1, <1>7, <2>1, HasCredentials
<1>10. verdict # "healthy" /\ offered = {} /\ expected = "none"
  BY <1>1, <1>7 DEF ToldOfSomeone
<1>11. FileFits'
  <2>1. Settled(file)'
    BY <1>1, <1>7, <1>9 DEF Settled
  <2>2. Fits(file)' /\ Told'
    BY <1>1, <1>7, <1>9, <1>10, <2>1 DEF Fits, Told, said
  <2> QED
    BY <2>2 DEF FileFits
<1>12. ToldOfSomeone'
  BY <1>1, <1>10 DEF ToldOfSomeone, said
<1>13. Loaded(p)'
  <2>1. At(p)' = "loaded" /\ Cfg(p)' = Cfg(p)
    BY <1>4, <1>8 DEF At, Cfg
  <2>2. HasCfg(p)'
    BY <1>9, <2>1 DEF HasCfg
  <2>3. OfFile(p)'
    BY <1>1, <1>7, <1>9, <2>1 DEF OfFile
  <2>4. Completing(p)' /\ Setting(p)'
    BY <2>1 DEF Completing, Setting
  <2> QED
    BY <2>2, <2>3, <2>4 DEF Loaded
<1> QED
  BY <1>8, <1>11, <1>12, <1>13 DEF IInv

\* A process that has loaded goes on without touching the file or the identity;
\* what is left to show is that what the commands found out still holds.
LEMMA ReadStep ==
  ASSUME IInv, NEW p \in Proc,
         At(p) \in {"loaded", "advertise", "address"},
         NEW l \in {"advertise", "address", "serving", "off"}, GoTo(p, l),
         l # "off" => p = "daemon",
         UNCHANGED <<world, file, starts, identity, damaged>>,
         failure' \in {"none", "config", "encoder", "address"},
         verdict' \in {"none", "healthy", "unhealthy"},
         offered' \subseteq SelectableCodecs, expected' = expected,
         ~damaged /\ Told => Told' /\ ToldOfSomeone'
  PROVE  IInv'
<1> DEFINE r == Moved(p, l)
<1>1. /\ At(p) \in Starting \ {"write", "setWrite"} /\ Types /\ Loaded(p)
      /\ l \in Starting \cup {"off", "serving"}
  BY DEF Starting, IInv
<1>2. /\ Fits(file) /\ (~damaged => Told)
  BY <1>1, FileWhileStarting
<1>3. /\ proc' = [proc EXCEPT ![p] = r] /\ r.at = l
      /\ r \in ProcRec /\ WellFormed(r.text, Values)
      /\ l # "off" => r.cfg = Cfg(p) /\ r.job = proc[p].job
      /\ l = "off" => r.cfg = NoCfg
  BY <1>1, MovedIs
<1> HIDE DEF r
<1>4. starts \in 1..MaxStart /\ (p = "daemon") = (proc[p].job = "serve")
  BY <1>1, TypesOfProc
<1>5. Fine(p, r)
  BY <1>1, <1>3, <1>4 DEF Fine
<1>6. RestTypes'
  BY <1>1 DEF Types, TypeOK, RestTypes, world
<1>7. /\ Types' /\ OneStarts' /\ \A q \in Proc \ {p} : Loaded(q)'
      /\ proc'[p] = r /\ ~Writing'
  BY <1>1, <1>3, <1>5, <1>6, StepOfOne
<1>8. FileFits' /\ ToldOfSomeone'
  <2>1. Fits(file)'
    BY <1>2 DEF Fits, Settled
  <2>2. ~damaged' => Told' /\ ToldOfSomeone'
    BY <1>2
  <2> QED
    BY <2>1, <2>2 DEF FileFits, ToldOfSomeone
<1>9. Loaded(p)'
  <2>1. /\ At(p)' = l
        /\ l # "off" => Cfg(p)' = Cfg(p) /\ proc'[p].job = proc[p].job
        /\ l = "off" => Cfg(p)' = NoCfg
    BY <1>3, <1>7 DEF At, Cfg
  <2>2. HasCfg(p)'
    BY <1>1, <2>1 DEF Loaded, HasCfg
  <2>3. OfFile(p)'
    BY <1>1, <2>1 DEF Loaded, OfFile
  <2>4. Completing(p)' /\ Setting(p)'
    BY <2>1 DEF Completing, Setting
  <2> QED
    BY <2>2, <2>3, <2>4 DEF Loaded
<1> QED
  BY <1>7, <1>8, <1>9 DEF IInv

LEMMA DoctorStep ==
  ASSUME IInv, NEW p \in Proc, Doctor(p)
  PROVE  IInv'
<1>1. /\ At(p) = "loaded" /\ GoTo(p, "off") /\ Loaded(p) /\ ToldOfSomeone
      /\ UNCHANGED <<world, file, starts, shown, failure, identity, damaged, offered,
                     expected>>
      /\ verdict' \in {"healthy", "unhealthy"}
      /\ verdict' = "healthy" => CheckConfig(Cfg(p)) /\ CheckResolvedBackend(Cfg(p))
  BY DEF Doctor, Healthy, IInv
<1>2. failure' \in {"none", "config", "encoder", "address"} /\ offered' \subseteq SelectableCodecs
  BY <1>1 DEF IInv, Types, TypeOK
<1>3. ASSUME ~damaged, Told PROVE Told' /\ ToldOfSomeone'
  <2>1. verdict' = "healthy" => Backed(Parse(file)) /\ identity # NoOne
    <3> SUFFICES ASSUME verdict' = "healthy" PROVE Backed(Parse(file)) /\ identity # NoOne
      OBVIOUS
    <3>1. Cfg(p) # NoCfg
      BY <1>1 DEF CheckConfig
    <3>2. Cfg(p) = Parse(file) /\ identity # NoOne
      BY <1>1, <1>3, <3>1 DEF Loaded, OfFile, HasCfg
    <3> QED
      BY <1>1, <3>1, <3>2 DEF CheckConfig, CheckResolvedBackend, Backed
  <2>2. Backed(Parse(file)) => Backed(Parse(file))'
    BY <1>1 DEF Backed, ResolvedIp, world
  <2>3. Told'
    BY <1>1, <1>3, <2>1, <2>2 DEF Told, world
  <2>4. ToldOfSomeone'
    BY <1>1, <2>1 DEF ToldOfSomeone
  <2> QED
    BY <2>3, <2>4
<1> QED
  BY <1>1, <1>2, <1>3, ReadStep

LEMMA ListEncodersStep ==
  ASSUME IInv, NEW p \in Proc, ListEncoders(p)
  PROVE  IInv'
<1>1. /\ At(p) = "loaded" /\ GoTo(p, "off") /\ Loaded(p) /\ ToldOfSomeone
      /\ proc[p].job = "list"
      /\ UNCHANGED <<world, file, starts, shown, failure, identity, damaged, verdict,
                     expected>>
      /\ offered' = ProbeBackends(Cfg(p), platform, hw)
  BY DEF ListEncoders, IInv
<1>2. /\ failure' \in {"none", "config", "encoder", "address"}
      /\ verdict' \in {"none", "healthy", "unhealthy"}
      /\ offered' \subseteq SelectableCodecs
  BY <1>1 DEF IInv, Types, TypeOK, ProbeBackends
<1>3. ASSUME ~damaged, Told PROVE Told' /\ ToldOfSomeone'
  <2>1. Cfg(p) = Parse(file) /\ identity # NoOne
    BY <1>1, <1>3 DEF Loaded, OfFile, HasCfg
  <2>2. expected # "none" => expected \in offered /\ offered = offered'
    BY <1>1, <1>3, <2>1 DEF ToldOfSomeone, Told
  <2>3. Told'
    BY <1>1, <1>3, <2>1 DEF Told, Backed, ResolvedIp, world
  <2>4. ToldOfSomeone'
    BY <1>1, <2>1, <2>2 DEF ToldOfSomeone
  <2> QED
    BY <2>3, <2>4
<1> QED
  BY <1>1, <1>2, <1>3, ReadStep

LEMMA DaemonStep ==
  ASSUME IInv, ResolveBackend \/ Advertise \/ ResolveAddress
  PROVE  IInv'
<1>1. "daemon" \in Proc
  BY DEF Proc
<1>2. /\ UNCHANGED <<world, file, starts, identity, damaged, said>>
      /\ At("daemon") \in {"loaded", "advertise", "address"}
      /\ failure' \in {failure, "none", "encoder", "address"}
      /\ \E l \in {"advertise", "address", "serving", "off"} : GoTo("daemon", l)
  <2>1. CASE ResolveBackend
    BY <2>1 DEF ResolveBackend
  <2>2. CASE Advertise
    BY <2>2 DEF Advertise
  <2>3. CASE ResolveAddress
    BY <2>3 DEF ResolveAddress
  <2> QED
    BY <2>1, <2>2, <2>3
<1>3. PICK l \in {"advertise", "address", "serving", "off"} : GoTo("daemon", l)
  BY <1>2
<1>4. /\ failure' \in {"none", "config", "encoder", "address"}
      /\ verdict' \in {"none", "healthy", "unhealthy"}
      /\ offered' \subseteq SelectableCodecs /\ expected' = expected
  BY <1>2 DEF IInv, Types, TypeOK, said
<1>5. Told => Told'
  BY <1>2 DEF Told, Backed, ResolvedIp, world, said
<1>6. ToldOfSomeone'
  BY <1>2 DEF IInv, ToldOfSomeone, said
<1> QED
  BY <1>1, <1>2, <1>3, <1>4, <1>5, <1>6, ReadStep

LEMMA SetEncoderStep ==
  ASSUME IInv, NEW p \in Proc, SetEncoder(p)
  PROVE  IInv'
<1> DEFINE text == RewriteCodec(file, proc[p].arg)
           r == [proc[p] EXCEPT !.at = "setTruncate", !.text = text]
<1>1. /\ At(p) = "loaded" /\ At(p) \in Starting \ {"write", "setWrite"} /\ Types
      /\ proc \in [Proc -> ProcRec] /\ Loaded(p) /\ ToldOfSomeone
      /\ proc[p].job = "set"
      /\ proc' = [proc EXCEPT ![p].at = "setTruncate", ![p].text = text]
      /\ UNCHANGED <<world, file, starts, shown, failure, identity, damaged, said>>
  BY DEF SetEncoder, Starting, IInv, Types
<1>2. /\ proc[p] \in ProcRec /\ starts \in 1..MaxStart
      /\ (p = "daemon") = (proc[p].job = "serve")
  BY <1>1, TypesOfProc
<1>3. /\ Fits(file) /\ (~damaged => Told)
      /\ WellFormed(file, Values)
      /\ Parses(file) => ~damaged /\ Appendable(file)
      /\ ~damaged /\ identity # NoOne => Settled(file)
  BY <1>1, FileWhileStarting
<1>4. proc[p].arg \in Values
  BY <1>2, LineType DEF ProcRec
<1>5. /\ WellFormed(text, Values)
      /\ Parses(text) <=> Parses(file)
      /\ Parses(file) => Parse(text) = [Parse(file) EXCEPT !.codec = proc[p].arg]
      /\ Ruined(file) => Ruined(text)
  BY <1>3, <1>4, RewritingIsExact
<1> HIDE DEF text
<1>6. proc' = [proc EXCEPT ![p] = r]
  BY <1>1, <1>2 DEF ProcRec
<1>7. /\ r \in ProcRec /\ r.at = "setTruncate" /\ r.cfg = Cfg(p) /\ r.text = text
      /\ r.job = proc[p].job /\ r.arg = proc[p].arg
  BY <1>2, <1>5 DEF ProcRec, Starting, Cfg, WellFormed, Lines
<1> HIDE DEF r
<1>8. Fine(p, r)
  BY <1>1, <1>2, <1>5, <1>7 DEF Fine
<1>9. RestTypes'
  BY <1>1 DEF Types, TypeOK, RestTypes, world, said
<1>10. /\ Types' /\ OneStarts' /\ \A q \in Proc \ {p} : Loaded(q)'
       /\ proc'[p] = r /\ ~Writing'
  BY <1>1, <1>6, <1>7, <1>8, <1>9, StepOfOne
<1>11. FileFits' /\ ToldOfSomeone'
  <2>1. Fits(file)'
    BY <1>1, <1>3 DEF Fits, Settled
  <2>2. ~damaged' => Told'
    BY <1>1, <1>3 DEF Told, Backed, ResolvedIp, world, said
  <2>3. ToldOfSomeone'
    BY <1>1 DEF ToldOfSomeone, said
  <2> QED
    BY <2>1, <2>2, <2>3 DEF FileFits
<1>12. ASSUME ~damaged, identity # NoOne
       PROVE  /\ Settled(text) /\ Parse(text).codec = proc[p].arg
              /\ ProbeBackends(Parse(text), platform, hw) =
                   ProbeBackends(Parse(file), platform, hw)
  <2>1. Settled(file) /\ Parses(file)
    BY <1>3, <1>12 DEF Settled
  <2>2. Parse(file) \in CfgRec
    BY <1>3, ParseType
  <2>3. Parse(text) = [Parse(file) EXCEPT !.codec = proc[p].arg]
    BY <1>5, <2>1
  <2>4. /\ Parse(text).codec = proc[p].arg
        /\ Parse(text).token = Parse(file).token
        /\ Parse(text).private = Parse(file).private
        /\ Parse(text).public = Parse(file).public
    BY <2>2, <2>3 DEF CfgRec
  <2>5. Settled(text)
    BY <1>5, <2>1, <2>4 DEF Settled, NeedsToken, NeedsKeys, Credentials
  <2>6. ProbeBackends(Parse(text), platform, hw) =
          ProbeBackends(Parse(file), platform, hw)
    BY <2>2, <2>3, ProbeIgnoresCodec
  <2> QED
    BY <2>4, <2>5, <2>6
<1>13. ~damaged /\ identity = NoOne => ~Parses(file) /\ ~Parses(text)
  BY <1>1, <1>5 DEF Loaded, OfFile, HasCfg
<1>14. damaged => Ruined(text)
  BY <1>3, <1>5 DEF Fits
<1>15. Loaded(p)'
  <2>1. /\ At(p)' = "setTruncate" /\ Cfg(p)' = Cfg(p) /\ proc'[p].text = text
        /\ proc'[p].job = "set" /\ proc'[p].arg = proc[p].arg
    BY <1>1, <1>7, <1>10 DEF At, Cfg
  <2>2. HasCfg(p)'
    BY <1>1, <2>1 DEF Loaded, HasCfg
  <2>3. OfFile(p)' /\ Completing(p)'
    BY <2>1 DEF OfFile, Completing
  <2>4. Fits(text)
    BY <1>12, <1>13, <1>14 DEF Fits
  <2>6. ~damaged /\ offered # {} => offered = ProbeBackends(Parse(text), platform, hw)
    BY <1>1, <1>3, <1>12 DEF ToldOfSomeone, Told
  <2>7. Setting(p)'
    <3>1. Fits(proc[p].text)'
      BY <1>1, <2>1, <2>4 DEF Fits, Settled
    <3>2. (~damaged /\ offered # {} =>
            offered = ProbeBackends(Parse(proc[p].text), platform, hw))'
      BY <1>1, <2>1, <2>6 DEF world, said
    <3> QED
      BY <1>1, <1>12, <1>13, <2>1, <3>1, <3>2 DEF Setting
  <2> QED
    BY <2>2, <2>3, <2>7 DEF Loaded
<1> QED
  BY <1>10, <1>11, <1>15 DEF IInv

LEMMA SetWriteStep ==
  ASSUME IInv, NEW p \in Proc, SetWrite(p)
  PROVE  IInv'
<1> DEFINE text == proc[p].text
<1>1. /\ At(p) = "setWrite" /\ At(p) \in Starting /\ Types /\ Loaded(p) /\ ToldOfSomeone
      /\ GoTo(p, "off") /\ file' = text /\ verdict' = "none"
      /\ expected' = IF proc[p].arg \in offered THEN proc[p].arg ELSE "none"
      /\ UNCHANGED <<world, starts, shown, failure, identity, damaged, offered>>
  BY DEF SetWrite, Starting, IInv
<1>2. /\ proc[p] \in ProcRec /\ WellFormed(text, Values)
  BY <1>1, TypesOfProc
<1>3. /\ proc' = [proc EXCEPT ![p] = Moved(p, "off")] /\ Moved(p, "off").at = "off"
      /\ Moved(p, "off") \in ProcRec /\ WellFormed(Moved(p, "off").text, Values)
      /\ Moved(p, "off").cfg = NoCfg
  BY <1>1, MovedIs
<1>4. Fine(p, Moved(p, "off"))
  BY <1>3 DEF Fine
<1>5. RestTypes'
  BY <1>1, <1>2 DEF Types, TypeOK, RestTypes, world, ProcRec
<1>6. /\ Types' /\ OneStarts' /\ \A q \in Proc \ {p} : Loaded(q)'
      /\ proc'[p] = Moved(p, "off") /\ ~Writing'
  BY <1>1, <1>3, <1>4, <1>5, StepOfOne
<1>7. /\ Fits(text)
      /\ ~damaged /\ offered # {} =>
           offered = ProbeBackends(Parse(text), platform, hw)
      /\ ~damaged /\ identity # NoOne => Parse(text).codec = proc[p].arg
  BY <1>1 DEF Loaded, Setting
<1>8. ToldOfSomeone'
  BY <1>1 DEF ToldOfSomeone
<1> HIDE DEF text
<1>9. FileFits'
  <2>1. Fits(file)'
    BY <1>1, <1>7 DEF Fits, Settled
  <2>2. ASSUME ~damaged PROVE Told'
    <3>1. expected' # "none" => identity # NoOne /\ expected' = proc[p].arg
      BY <1>1, <2>2 DEF ToldOfSomeone
    <3> QED
      BY <1>1, <1>7, <2>2, <3>1 DEF Told, world
  <2> QED
    BY <1>1, <2>1, <2>2 DEF FileFits
<1>10. Loaded(p)'
  <2>1. At(p)' = "off" /\ Cfg(p)' = NoCfg
    BY <1>3, <1>6 DEF At, Cfg
  <2> QED
    BY <2>1 DEF Loaded, HasCfg, OfFile, Completing, Setting
<1> QED
  BY <1>6, <1>8, <1>9, <1>10 DEF IInv

\* A step that changes only processes that are not starting, or the world.
LEMMA KillStep ==
  ASSUME IInv, NEW p \in Proc, Kill(p)
  PROVE  IInv'
<1>1. /\ At(p) # "off" /\ GoTo(p, "off") /\ Types /\ ToldOfSomeone
      /\ damaged' = (damaged \/ At(p) \in {"write", "setWrite"})
      /\ UNCHANGED <<world, file, starts, shown, failure, identity, said>>
      /\ \A q \in Proc : Loaded(q)
      /\ FileFits /\ OneStarts
  BY DEF Kill, IInv
<1>2. /\ proc' = [proc EXCEPT ![p] = Moved(p, "off")] /\ Moved(p, "off").at = "off"
      /\ Moved(p, "off") \in ProcRec /\ WellFormed(Moved(p, "off").text, Values)
      /\ Moved(p, "off").cfg = NoCfg
  BY <1>1, MovedIs
<1>3. RestTypes'
  BY <1>1 DEF Types, TypeOK, RestTypes, world, said
<1>4. At(p) \in Starting \/ At(p) = "serving"
  BY <1>1 DEF Types, ProcRec, At
<1>5. Fits(file) => Fits(file)' \/ damaged' # damaged
  BY <1>1 DEF Fits, Settled
<1>6. Told => Told'
  BY <1>1 DEF Told, Backed, ResolvedIp, world, said
<1>7. ToldOfSomeone'
  BY <1>1 DEF ToldOfSomeone, said
<1>8. CASE At(p) \in Starting
  <2>1. Fine(p, Moved(p, "off"))
    BY <1>2 DEF Fine
  <2>2. /\ Types' /\ OneStarts' /\ \A q \in Proc \ {p} : Loaded(q)'
        /\ proc'[p] = Moved(p, "off") /\ ~Writing'
    BY <1>1, <1>2, <1>3, <1>8, <2>1, StepOfOne
  <2>3. Loaded(p)'
    <3>1. At(p)' = "off" /\ Cfg(p)' = NoCfg
      BY <1>2, <2>2 DEF At, Cfg
    <3> QED
      BY <3>1 DEF Loaded, HasCfg, OfFile, Completing, Setting
  <2>4. FileFits'
    <3>1. CASE At(p) \in {"write", "setWrite"}
      <4>1. file' = <<>> /\ damaged'
        BY <1>1, <3>1, TypesOfProc
      <4>2. Ruined(file)'
        BY <4>1, ShortLines DEF Ruined
      <4> QED
        BY <4>1, <4>2 DEF FileFits, Fits
    <3>2. CASE At(p) \notin {"write", "setWrite"}
      <4>1. ~Writing /\ damaged' = damaged
        BY <1>1, <1>8, <3>2, NobodyElse DEF Types, TypeOK
      <4> QED
        BY <1>1, <1>5, <1>6, <4>1 DEF FileFits
    <3> QED
      BY <3>1, <3>2
  <2> QED
    BY <1>7, <2>2, <2>3, <2>4 DEF IInv
<1>9. CASE At(p) = "serving"
  <2>1. /\ damaged' = damaged
        /\ proc' \in [Proc -> ProcRec] /\ proc'[p] = Moved(p, "off")
        /\ \A q \in Proc \ {p} : proc'[q] = proc[q]
    BY <1>1, <1>2, <1>9 DEF Types, TypeOK
  <2>2. \A q \in Proc : /\ q # p => At(q)' = At(q) /\ Cfg(q)' = Cfg(q)
                        /\ q = p => At(q)' = "off" /\ Cfg(q)' = NoCfg
    BY <1>2, <2>1 DEF At, Cfg
  <2>3. Types'
    <3>1. ASSUME NEW q \in Proc
          PROVE  /\ ProcTypes(q)'
                 /\ (q = "daemon") = (proc'[q].job = "serve") \/ proc'[q].at = "off"
                 /\ proc'[q].at \in {"write", "setWrite"} => file' = <<>>
                 /\ proc'[q].at \in Starting \cup {"off", "serving"}
                 /\ proc'[q].arg \in SelectableCodecs
      <4>1. proc'[q] \in ProcRec
        BY <2>1
      <4>2. CASE q = p
        BY <1>2, <2>1, <4>1, <4>2 DEF ProcTypes, At, ProcRec
      <4>3. CASE q # p
        <5>1. proc'[q] = proc[q] /\ ProcTypes(q)
          BY <1>1, <2>1, <4>3 DEF Types
        <5> QED
          BY <1>1, <4>1, <5>1, TypesOfProc DEF ProcTypes, ProcRec, At
      <4> QED
        BY <4>2, <4>3
    <3>2. DOMAIN proc' = Proc
      BY <2>1
    <3>3. TypeOK'
      BY <1>3, <3>1, <3>2 DEF TypeOK, RestTypes, At
    <3> QED
      BY <2>1, <3>1, <3>3 DEF Types
  <2>4. OneStarts'
    BY <1>1, <2>2 DEF OneStarts, Starting
  <2>5. Writing' <=> Writing
    BY <1>9, <2>2 DEF Writing
  <2>6. FileFits'
    BY <1>1, <1>5, <1>6, <2>1, <2>5 DEF FileFits
  <2>7. ASSUME NEW q \in Proc PROVE Loaded(q)'
    <3>1. CASE q = p
      BY <2>2, <3>1 DEF Loaded, HasCfg, OfFile, Completing, Setting
    <3>2. CASE q # p
      <4>1. Loaded(q) /\ proc'[q] = proc[q]
        BY <1>1, <2>1, <3>2
      <4>2. HasCfg(q)' /\ OfFile(q)' /\ Completing(q)'
        BY <1>1, <2>1, <2>2, <3>2, <4>1 DEF Loaded, HasCfg, OfFile, Completing
      <4>3. Setting(q)'
        BY <1>1, <2>1, <2>2, <3>2, <4>1
          DEF Loaded, Setting, Fits, Settled, world, said
      <4> QED
        BY <4>2, <4>3 DEF Loaded
    <3> QED
      BY <3>1, <3>2
  <2> QED
    BY <1>7, <2>3, <2>4, <2>6, <2>7 DEF IInv
<1> QED
  BY <1>4, <1>8, <1>9

\* What is not about the processes or the file disturbs nothing.
LEMMA WorldStep ==
  ASSUME StartAssumption, IInv, WorldChanges \/ WatchAddress \/ UNCHANGED vars
  PROVE  IInv'
<1>1. /\ UNCHANGED <<platform, file, starts, proc, identity, damaged, failure>>
      /\ \/ UNCHANGED <<hw, addr, changes, said>>
         \/ /\ verdict' = "none" /\ offered' = {} /\ expected' = "none"
            /\ hw' \in Hardware /\ addr' \in Address
            /\ changes < MaxChange /\ changes' = changes + 1
  <2>1. CASE WorldChanges
    BY <2>1 DEF WorldChanges, IInv, Types, TypeOK
  <2>2. CASE WatchAddress
    BY <2>2 DEF WatchAddress, world
  <2>3. CASE UNCHANGED vars
    BY <2>3 DEF vars, world
  <2> QED
    BY <2>1, <2>2, <2>3
<1>2. changes' \in 0..MaxChange
  <2>1. changes \in 0..MaxChange /\ MaxChange \in Nat
    BY DEF IInv, Types, TypeOK, StartAssumption
  <2> QED
    BY <1>1, <2>1
<1>3. \A q \in Proc : At(q)' = At(q) /\ Cfg(q)' = Cfg(q)
  BY <1>1 DEF At, Cfg
<1>4. Types'
  <2>1. TypeOK'
    BY <1>1, <1>2, <1>3 DEF IInv, Types, TypeOK, said
  <2>2. \A q \in Proc : ProcTypes(q)'
    BY <1>1, <1>3 DEF IInv, Types, ProcTypes
  <2> QED
    BY <1>1, <2>1, <2>2 DEF IInv, Types
<1>5. OneStarts' /\ (Writing' <=> Writing)
  BY <1>3 DEF IInv, OneStarts, Writing
<1>6. (Told => Told') /\ ToldOfSomeone'
  <2>1. CASE UNCHANGED <<hw, addr, changes, said>>
    BY <1>1, <2>1 DEF Told, Backed, ResolvedIp, ToldOfSomeone, IInv, said
  <2>2. CASE verdict' = "none" /\ offered' = {} /\ expected' = "none"
    BY <2>2 DEF Told, ToldOfSomeone
  <2> QED
    BY <1>1, <2>1, <2>2
<1>7. FileFits'
  <2>1. Fits(file) => Fits(file)'
    BY <1>1 DEF Fits, Settled
  <2> QED
    BY <1>1, <1>5, <1>6, <2>1 DEF IInv, FileFits
<1>8. ASSUME NEW q \in Proc PROVE Loaded(q)'
  <2>1. Loaded(q) /\ proc'[q] = proc[q]
    BY <1>1 DEF IInv
  <2>2. HasCfg(q)' /\ OfFile(q)' /\ Completing(q)'
    BY <1>1, <1>3, <2>1 DEF Loaded, HasCfg, OfFile, Completing
  <2>3. Fits(proc[q].text) => Fits(proc[q].text)'
    BY <1>1 DEF Fits, Settled
  <2>4. Setting(q)'
    <3>1. CASE UNCHANGED <<hw, addr, changes, said>>
      BY <1>1, <1>3, <2>1, <2>3, <3>1 DEF Loaded, Setting, said
    <3>2. CASE offered' = {}
      BY <1>1, <1>3, <2>1, <2>3, <3>2 DEF Loaded, Setting
    <3> QED
      BY <1>1, <3>1, <3>2
  <2> QED
    BY <2>2, <2>4 DEF Loaded
<1> QED
  BY <1>4, <1>5, <1>6, <1>7, <1>8 DEF IInv

-----------------------------------------------------------------------------
(* The invariants. *)

LEMMA InitInv == StartAssumption /\ Init => IInv
<1> SUFFICES ASSUME StartAssumption, Init PROVE IInv
  OBVIOUS
<1>1. proc = [p \in Proc |-> Off] /\ file \in Files
  BY DEF Init
<1>2. \A p \in Proc : At(p) = "off" /\ Cfg(p) = NoCfg /\ proc[p] = Off
  BY <1>1 DEF At, Cfg, Off
<1>3. WellFormed(file, Values) /\ (Parses(file) => Appendable(file))
  BY <1>1 DEF StartAssumption
<1>4. Types
  <2>1. proc \in [Proc -> ProcRec]
    BY <1>1, OffIsFine
  <2>2. \A p \in Proc : ProcTypes(p)
    BY <1>2, OffIsFine DEF ProcTypes
  <2>3. \A p \in Proc : proc[p].arg \in SelectableCodecs
    BY <2>1 DEF ProcRec
  <2>4. MaxChange \in Nat /\ MaxStart \in Nat
    BY DEF StartAssumption
  <2>5. DOMAIN proc = Proc /\ changes \in 0..MaxChange /\ starts \in 0..MaxStart
    <3>1. DOMAIN proc = Proc
      BY <1>1
    <3>2. changes = 0 /\ starts = 0
      BY DEF Init
    <3> QED
      BY <2>4, <3>1, <3>2
  <2>6. TypeOK
    BY <1>2, <1>3, <2>3, <2>5 DEF TypeOK, Init
  <2> QED
    BY <2>1, <2>2, <2>6 DEF Types
<1>5. OneStarts
  BY <1>2 DEF OneStarts, Starting
<1>6. FileFits /\ ToldOfSomeone
  BY <1>3 DEF Init, FileFits, Fits, Told, ToldOfSomeone
<1>7. \A p \in Proc : Loaded(p)
  BY <1>2 DEF Loaded, HasCfg, OfFile, Completing, Setting
<1> QED
  BY <1>4, <1>5, <1>6, <1>7 DEF IInv

LEMMA StepInv ==
  ASSUME StartAssumption, Exclusive, IInv, [Next]_vars
  PROVE  IInv'
<1>1. ASSUME NEW p \in Proc, NEW j \in {"serve", "doctor", "list"}, Start(p, j, AutoCodec)
      PROVE  IInv'
  <2>1. AutoCodec \in SelectableCodecs
    BY DEF SelectableCodecs
  <2> QED
    BY <1>1, <2>1, StartStep
<1>2. ASSUME NEW p \in Proc, NEW c \in Chosen, Start(p, "set", c)
      PROVE  IInv'
  <2>1. c \in SelectableCodecs
    BY DEF StartAssumption
  <2> QED
    BY <1>2, <2>1, StartStep
<1>3. ASSUME NEW p \in Proc, Load(p) PROVE IInv'
  BY <1>3, LoadStep
<1>4. ASSUME NEW p \in Proc, Truncate(p) PROVE IInv'
  BY <1>4, TruncateStep
<1>5. ASSUME NEW p \in Proc, Write(p) PROVE IInv'
  BY <1>5, WriteStep
<1>6. ASSUME NEW p \in Proc, Doctor(p) PROVE IInv'
  BY <1>6, DoctorStep
<1>7. ASSUME NEW p \in Proc, ListEncoders(p) PROVE IInv'
  BY <1>7, ListEncodersStep
<1>8. ASSUME NEW p \in Proc, SetEncoder(p) PROVE IInv'
  BY <1>8, SetEncoderStep
<1>9. ASSUME NEW p \in Proc, SetWrite(p) PROVE IInv'
  BY <1>9, SetWriteStep
<1>10. ASSUME NEW p \in Proc, Kill(p) PROVE IInv'
  BY <1>10, KillStep
<1>11. CASE ResolveBackend \/ Advertise \/ ResolveAddress
  BY <1>11, DaemonStep
<1>12. CASE WorldChanges \/ WatchAddress \/ UNCHANGED vars
  BY <1>12, WorldStep
<1> QED
  BY <1>1, <1>2, <1>3, <1>4, <1>5, <1>6, <1>7, <1>8, <1>9, <1>10, <1>11, <1>12
    DEF Next

\* The inductive invariant holds when processes start one after the other.
THEOREM Invariance == Exclusive => (Spec => []IInv)
<1> SUFFICES ASSUME Exclusive PROVE Spec => []IInv
  OBVIOUS
<1>1. Init => IInv
  BY StartAssumption, InitInv
<1>2. IInv /\ [Next]_vars => IInv'
  BY StartAssumption, StepInv
<1> QED
  BY <1>1, <1>2, PTL DEF Spec

\* Type correctness: what load and rewrite_codec write is a text of the lines
\* they read, and nobody sees it half written but the process that writes it.
THEOREM TypeCorrect == Exclusive => (Spec => []TypeOK)
<1>1. IInv => TypeOK
  BY DEF IInv, Types
<1> QED
  BY <1>1, Invariance, PTL

\* The secrets are generated once and persist forever (HostConfig::load): no
\* sequence of starts, commands and crashes makes two processes work with
\* different ones, provided the processes start one after the other.
THEOREM SecretsPersist == Exclusive => (Spec => []PersistForever)
<1>1. IInv => PersistForever
  <2> SUFFICES ASSUME IInv PROVE PersistForever
    OBVIOUS
  <2>1. identity # NoOne /\ ~damaged /\ ~Writing =>
          Parses(file) /\ Credentials(Parse(file)) = identity
    BY DEF IInv, FileFits, Fits, Settled
  <2>2. \A p \in Proc : At(p) \notin {"off", "load", "truncate", "write"}
          /\ Cfg(p) # NoCfg => Credentials(Cfg(p)) = identity
    BY DEF IInv, Loaded, HasCfg
  <2> QED
    BY <2>1, <2>2 DEF PersistForever
<1> QED
  BY <1>1, Invariance, PTL

\* An encoder that was offered and then pinned is the one the daemon runs, as
\* long as the hardware stays the same (probe_backends, resolved_encode_backend):
\* for every set of encoders a machine may have.
THEOREM PinHolds == Exclusive => (Spec => []PinIsHonoured)
<1>1. IInv => PinIsHonoured
  <2> SUFFICES ASSUME IInv, expected # "none", At("daemon") = "loaded", ~damaged
               PROVE  ChosenBackend.codec = expected
    BY DEF PinIsHonoured
  <2>1. "daemon" \in Proc /\ At("daemon") \in Starting \ {"write", "setWrite"}
    BY DEF Proc, Starting
  <2>2. Told /\ expected \in offered /\ identity # NoOne
    BY <2>1, FileWhileStarting DEF IInv, ToldOfSomeone
  <2>3. Cfg("daemon") = Parse(file)
    BY <2>1, <2>2 DEF IInv, Loaded, OfFile
  <2>4. /\ expected = Parse(file).codec
        /\ expected \in ProbeBackends(Parse(file), platform, hw)
    BY <2>2 DEF Told
  <2> QED
    BY <2>3, <2>4, PinnedIsChosen DEF ChosenBackend
<1> QED
  BY <1>1, Invariance, PTL

\* What --doctor calls healthy starts: a daemon that loads the file the doctor
\* has seen finds a configuration, an encoder and an address in it.
THEOREM HealthyStarts == Exclusive => (Spec => DoctorPredicts)
<1>1. IInv /\ [Next]_vars =>
        [verdict = "healthy" /\ ~damaged => failure' \in {failure, "none"}]_vars
  <2> SUFFICES ASSUME IInv, Next, verdict = "healthy", ~damaged
               PROVE  failure' \in {failure, "none"}
    OBVIOUS
  <2>1. "daemon" \in Proc /\ identity # NoOne
    BY DEF Proc, IInv, ToldOfSomeone
  <2>2. At("daemon") \in Starting \ {"write", "setWrite"} => Settled(file) /\ Told
    BY <2>1, FileWhileStarting
  <2>3. ASSUME NEW p \in Proc, Load(p) PROVE failure' \in {failure, "none"}
    <3>1. CASE p = "daemon"
      <4>1. Parses(file)
        BY <2>2, <2>3, <3>1 DEF Load, Starting, Settled
      <4> QED
        BY <2>3, <4>1 DEF Load
    <3>2. CASE p # "daemon"
      BY <2>3, <3>2 DEF Load
    <3> QED
      BY <3>1, <3>2
  <2>4. ASSUME At("daemon") \in {"loaded", "address"}
        PROVE  Cfg("daemon") = Parse(file) /\ Backed(Parse(file))
    <3>1. Told
      BY <2>2, <2>4 DEF Starting
    <3> QED
      BY <2>1, <2>4, <3>1 DEF IInv, Loaded, OfFile, Told
  <2>5. CASE ResolveBackend
    BY <2>4, <2>5 DEF ResolveBackend, ChosenBackend, Backed
  <2>6. CASE ResolveAddress
    BY <2>4, <2>6 DEF ResolveAddress, Backed
  <2>7. ASSUME NEW p \in Proc,
               \/ \E j \in {"serve", "doctor", "list"} : Start(p, j, AutoCodec)
               \/ \E c \in Chosen : Start(p, "set", c)
               \/ Truncate(p) \/ Write(p)
               \/ Doctor(p) \/ ListEncoders(p) \/ SetEncoder(p) \/ SetWrite(p)
               \/ Kill(p)
        PROVE  failure' = failure
    BY <2>7 DEF Start, Truncate, Write, Doctor, ListEncoders, SetEncoder, SetWrite, Kill
  <2>8. CASE Advertise \/ WatchAddress \/ WorldChanges
    BY <2>8 DEF Advertise, WatchAddress, WorldChanges
  <2> QED
    BY <2>3, <2>5, <2>6, <2>7, <2>8 DEF Next
<1> QED
  BY <1>1, Invariance, PTL DEF Spec, DoctorPredicts

=============================================================================
