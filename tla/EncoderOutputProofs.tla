-------------------------- MODULE EncoderOutputProofs --------------------------
(***************************************************************************)
(* What is proved of the way of a frame through an encoder stage, for any  *)
(* number of frames and any sizes of its queues and pipes: the splitter    *)
(* first (what it cuts out of a prefix of ffmpeg's output), then the       *)
(* invariant of the stage and what follows from it.                        *)
(***************************************************************************)
EXTENDS EncoderOutput, SequenceTheorems, WellFoundedInduction, TLAPS

-----------------------------------------------------------------------------
(* The scan of the splitter, one place after the other. *)

\* A set of numbers that has 0 and the successors of its members has all.
LEMMA Induction ==
  ASSUME NEW S \in SUBSET Nat, 0 \in S, \A n \in S : n + 1 \in S
  PROVE  S = Nat
<1> DEFINE T == Nat \ S
<1>1. ASSUME T # {} PROVE FALSE
  <2>1. PICK m \in T : \A k \in T : <<k, m>> \notin OpToRel(<, Nat)
    BY <1>1, NatLessThanWellFounded, WFMin
  <2>2. \A k \in T : ~(k < m)
    BY <2>1 DEF OpToRel
  <2>3. m # 0 /\ m \in Nat
    BY <2>1
  <2>4. m - 1 \in Nat /\ m - 1 < m /\ (m - 1) + 1 = m
    BY <2>3
  <2>5. m - 1 \in S
    BY <2>2, <2>4
  <2> QED
    BY <2>1, <2>4, <2>5
<1> QED
  BY <1>1

\* And up to a bound.
LEMMA Upwards ==
  ASSUME NEW n \in Nat, NEW S, 0 \in S, \A i \in 0..(n - 1) : i \in S => i + 1 \in S
  PROVE  0..n \subseteq S
<1> DEFINE U == {i \in Nat : i <= n => i \in S}
<1>1. 0 \in U
  OBVIOUS
<1>2. ASSUME NEW i \in U PROVE i + 1 \in U
  <2>1. i \in Nat /\ i + 1 \in Nat /\ (i <= n => i \in S)
    OBVIOUS
  <2>2. CASE i + 1 <= n
    <3>1. i \in 0..(n - 1) /\ i \in S
      BY <2>1, <2>2
    <3> QED
      BY <2>1, <3>1
  <2>3. CASE ~(i + 1 <= n)
    BY <2>1, <2>3
  <2> QED
    BY <2>2, <2>3
<1> HIDE DEF U
<1>3. U = Nat
  <2>1. U \in SUBSET Nat
    BY DEF U
  <2> QED
    BY <1>1, <1>2, <2>1, Induction
<1> QED
  BY <1>3 DEF U

\* The recursive function has a value, and this is it.
LEMMA ScannedIs ==
  ASSUME NEW s, Len(s) \in Nat, NEW i \in 0..Len(s)
  PROVE  Scanned(s)[i] = IF i = 0 THEN Scanning ELSE Scan(s, Scanned(s)[i - 1], i)
<1> DEFINE Upto(n, f) == f = [j \in 0..n |-> IF j = 0 THEN Scanning
                                                    ELSE Scan(s, f[j - 1], j)]
           S == {n \in Nat : \E f : Upto(n, f)}
<1>1. 0 \in S
  <2>1. Upto(0, [j \in 0..0 |-> Scanning])
    OBVIOUS
  <2> QED
    BY <2>1
<1>2. ASSUME NEW n \in S PROVE n + 1 \in S
  <2>1. PICK f : Upto(n, f)
    BY <1>2
  <2> DEFINE g == [j \in 0..(n + 1) |-> IF j = n + 1 THEN Scan(s, f[n], n + 1) ELSE f[j]]
  <2>2. n \in Nat /\ n + 1 \in Nat
    BY <1>2
  <2>3. ASSUME NEW j \in 0..(n + 1)
        PROVE  g[j] = IF j = 0 THEN Scanning ELSE Scan(s, g[j - 1], j)
    <3>1. CASE j = n + 1
      <4>1. j # 0 /\ j - 1 = n /\ n \in 0..(n + 1) /\ n # n + 1
        BY <2>2, <3>1
      <4>2. g[n] = f[n] /\ g[n + 1] = Scan(s, f[n], n + 1)
        BY <2>2, <4>1
      <4> QED
        BY <3>1, <4>1, <4>2
    <3>2. CASE j # n + 1
      <4>1. j \in 0..n /\ (j # 0 => j - 1 \in 0..n /\ j - 1 # n + 1)
        BY <2>2, <3>2
      <4>2. f[j] = IF j = 0 THEN Scanning ELSE Scan(s, f[j - 1], j)
        BY <2>1, <4>1
      <4> QED
        BY <2>2, <4>1, <4>2
    <3> QED
      BY <3>1, <3>2
  <2>4. Upto(n + 1, g)
    BY <2>3
  <2> QED
    BY <2>2, <2>4
<1>3. S = Nat
  <2> HIDE DEF S
  <2> QED
    BY <1>1, <1>2, Induction DEF S
<1>4. \E f : Upto(Len(s), f)
  BY <1>3
<1>5. Upto(Len(s), CHOOSE f : Upto(Len(s), f))
  BY <1>4
<1>6. Scanned(s) = CHOOSE f : Upto(Len(s), f)
  BY DEF Scanned
<1>7. Upto(Len(s), Scanned(s))
  BY <1>5, <1>6
<1> QED
  BY <1>7

LEMMA ScannedNext ==
  ASSUME NEW s, Len(s) \in Nat, NEW i \in 0..(Len(s) - 1)
  PROVE  Scanned(s)[i + 1] = Scan(s, Scanned(s)[i], i + 1)
<1> DEFINE j == i + 1
<1>1. j \in 0..Len(s) /\ j # 0 /\ j - 1 = i
  OBVIOUS
<1> HIDE DEF j
<1>2. Scanned(s)[j] = Scan(s, Scanned(s)[j - 1], j)
  BY <1>1, ScannedIs
<1> QED
  BY <1>1, <1>2 DEF j

-----------------------------------------------------------------------------
(* What it makes of any output at all. *)

Tokens(n) == [is : {"start", "type", "rest"}, type : Nat, frame : 1..n]
Data(n) == Seq(Tokens(n)) \ {<<>>}
Units(n) == [keyframe : BOOLEAN, data : Data(n)]
Sane(s, n, sofar, i) ==
  /\ sofar = [out |-> sofar.out, from |-> sofar.from, nal |-> sofar.nal]
  /\ sofar.out \in Seq(Units(n))
  /\ sofar.from \in Nat \ {0} /\ sofar.nal \in 0..i
  /\ sofar.from = 1 \/ sofar.from <= sofar.nal

LEMMA ScanType ==
  ASSUME NEW n \in Nat, NEW s \in Seq(Tokens(n)), NEW i \in 0..(Len(s) - 1),
         NEW sofar, Sane(s, n, sofar, i)
  PROVE  Sane(s, n, Scan(s, sofar, i + 1), i + 1)
<1> DEFINE k == i + 1
<1>1. k \in 1..Len(s) /\ i \in Nat /\ k - 1 = i /\ k \in Nat
  OBVIOUS
<1> SUFFICES Sane(s, n, Scan(s, sofar, k), k)
  OBVIOUS
<1> HIDE DEF k
<1>2. sofar.nal \in 0..i /\ sofar.from \in Nat \ {0} /\ sofar.out \in Seq(Units(n))
      /\ (sofar.from = 1 \/ sofar.from <= sofar.nal)
  BY DEF Sane
<1>3. sofar.nal \in 0..k
  BY <1>1, <1>2
<1>4. CASE s[k].is # "start"
  BY <1>3, <1>4 DEF Sane, Scan
<1>5. CASE s[k].is = "start" /\ ~EndsUnit(s, sofar.nal, k)
  <2>1. Scan(s, sofar, k) = [out |-> sofar.out, from |-> sofar.from, nal |-> k]
    BY <1>5 DEF Scan, Sane
  <2>2. sofar.from = 1 \/ sofar.from <= k
    BY <1>1, <1>2
  <2>3. k \in 0..k
    BY <1>1
  <2> QED
    BY <1>2, <2>1, <2>2, <2>3 DEF Sane
<1>6. CASE s[k].is = "start" /\ EndsUnit(s, sofar.nal, k)
  <2> DEFINE u == [keyframe |-> NalType(s, sofar.nal) = 5,
                   data |-> SubSeq(s, sofar.from, k - 1)]
  <2>1. sofar.nal # 0
    BY <1>6 DEF EndsUnit
  <2>2. sofar.from <= k - 1 /\ sofar.from \in Int /\ k - 1 \in Int
    BY <1>1, <1>2, <2>1
  <2>3. \A j \in sofar.from..(k - 1) : s[j] \in Tokens(n)
    BY <1>1, <1>2, ElementOfSeq
  <2>4. /\ SubSeq(s, sofar.from, k - 1) \in Seq(Tokens(n))
        /\ Len(SubSeq(s, sofar.from, k - 1)) = k - sofar.from
    BY <1>1, <1>2, <2>2, <2>3, SubSeqProperties
  <2>5. SubSeq(s, sofar.from, k - 1) # <<>>
    <3>1. k - sofar.from # 0
      BY <1>1, <1>2, <2>2
    <3>2. Len(<<>>) = 0
      OBVIOUS
    <3> QED
      BY <2>4, <3>1, <3>2, Zenon
  <2>6. u \in Units(n)
    BY <2>4, <2>5 DEF Units, Data
  <2> HIDE DEF u
  <2>7. Append(sofar.out, u) \in Seq(Units(n))
    BY <1>2, <2>6, AppendProperties
  <2>8. Scan(s, sofar, k) = [out |-> Append(sofar.out, u), from |-> k, nal |-> k]
    BY <1>6 DEF Scan, u
  <2> QED
    BY <1>1, <2>7, <2>8 DEF Sane
<1> QED
  BY <1>4, <1>5, <1>6

LEMMA SplitType ==
  ASSUME NEW n \in Nat, NEW s \in Seq(Tokens(n))
  PROVE  Split(s) \in Seq(Units(n)) /\ HeldBack(s) \in Seq(Tokens(n))
<1> DEFINE S == {i \in 0..Len(s) : Sane(s, n, Scanned(s)[i], i)}
<1>1. Len(s) \in Nat
  OBVIOUS
<1>2. 0 \in S
  <2>1. Scanned(s)[0] = Scanning
    BY <1>1, ScannedIs
  <2>2. <<>> \in Seq(Units(n))
    OBVIOUS
  <2>3. /\ Scanning.out = <<>> /\ Scanning.from = 1 /\ Scanning.nal = 0
        /\ Scanning = [out |-> Scanning.out, from |-> Scanning.from, nal |-> Scanning.nal]
    BY DEF Scanning
  <2>4. Sane(s, n, Scanning, 0)
    BY <2>2, <2>3 DEF Sane
  <2> QED
    BY <1>1, <2>1, <2>4
<1>3. ASSUME NEW i \in 0..(Len(s) - 1), i \in S PROVE i + 1 \in S
  <2>1. Scanned(s)[i + 1] = Scan(s, Scanned(s)[i], i + 1)
    BY <1>1, ScannedNext
  <2>2. Sane(s, n, Scan(s, Scanned(s)[i], i + 1), i + 1)
    BY <1>3, ScanType
  <2> QED
    BY <1>1, <2>1, <2>2
<1>4. Len(s) \in S
  <2> HIDE DEF S
  <2>1. 0..Len(s) \subseteq S
    BY <1>1, <1>2, <1>3, Upwards
  <2> QED
    BY <1>1, <2>1
<1>5. Sane(s, n, Scanned(s)[Len(s)], Len(s))
  BY <1>4
<1> DEFINE f == Scanned(s)[Len(s)].from
<1>6. f \in Nat \ {0}
  BY <1>5 DEF Sane
<1>7. \A j \in f..Len(s) : s[j] \in Tokens(n)
  BY <1>1, <1>6, ElementOfSeq
<1>8. SubSeq(s, f, Len(s)) \in Seq(Tokens(n))
  BY <1>1, <1>6, <1>7, SubSeqProperties
<1> QED
  BY <1>5, <1>8 DEF Split, HeldBack, Sane

-----------------------------------------------------------------------------
(* What it makes of ffmpeg's output, where a picture is one slice. *)

\* The hardware encoders; libx264 without threads.
OneSlice == Slices = 1

Pictures == [frame : Nat, key : BOOLEAN]
Unit(p) == AccessUnit(p.frame, p.key)
Cut(p) == [keyframe |-> p.key, data |-> Unit(p)]

LEMMA TypesAre ==
  ASSUME OneSlice
  PROVE  /\ NalTypes(TRUE) = <<7, 8, 5>>
         /\ NalTypes(FALSE) = <<1>>
<1>1. [i \in 1..Slices |-> 5] = <<5>> /\ [i \in 1..Slices |-> 1] = <<1>>
  BY DEF OneSlice
<1>2. <<7, 8>> \in Seq(Nat) /\ <<5>> \in Seq(Nat) /\ <<1>> \in Seq(Nat)
  OBVIOUS
<1>3. <<7, 8>> \o <<5>> = <<7, 8, 5>>
  <2>1. /\ <<7, 8>> \o <<5>> \in Seq(Nat) /\ Len(<<7, 8>> \o <<5>>) = 3
        /\ \A i \in 1..3 : (<<7, 8>> \o <<5>>)[i] =
             IF i <= 2 THEN <<7, 8>>[i] ELSE <<5>>[i - 2]
    BY <1>2, ConcatProperties
  <2> DEFINE t == <<7, 8>> \o <<5>>
  <2>2. t[1] = 7 /\ t[2] = 8 /\ t[3] = 5
    BY <2>1
  <2>3. t \in Seq(Nat) /\ Len(t) = 3
    BY <2>1
  <2> HIDE DEF t
  <2>4. <<7, 8, 5>> \in Seq(Nat) /\ Len(<<7, 8, 5>>) = 3
    OBVIOUS
  <2>5. \A i \in 1..3 : t[i] = <<7, 8, 5>>[i]
    BY <2>2
  <2>6. t = <<7, 8, 5>>
    BY <2>3, <2>4, <2>5, SeqEqual
  <2> QED
    BY <2>6 DEF t
<1>4. <<>> \o <<1>> = <<1>>
  BY <1>2, ConcatEmptySeq
<1> QED
  BY <1>1, <1>3, <1>4 DEF NalTypes

Size(p) == IF p.key THEN 9 ELSE 3
Starts(p) == IF p.key THEN {1, 4, 7} ELSE {1}
TypeAt(p, j) == IF ~p.key THEN 1 ELSE IF j <= 3 THEN 7 ELSE IF j <= 6 THEN 8 ELSE 5

LEMMA UnitIs ==
  ASSUME OneSlice, NEW p \in Pictures
  PROVE  /\ Len(Unit(p)) = Size(p) /\ Unit(p) = [j \in 1..Size(p) |-> Unit(p)[j]]
         /\ \A j \in 1..Size(p) :
              Unit(p)[j] = [is |-> Parts[((j - 1) % 3) + 1], type |-> TypeAt(p, j),
                            frame |-> p.frame]
<1>1. p.key \in BOOLEAN
  BY DEF Pictures
<1>2. CASE p.key
  <2>1. NalTypes(p.key) = <<7, 8, 5>>
    BY <1>1, <1>2, TypesAre
  <2>2. Unit(p) = [j \in 1..9 |-> [is |-> Parts[((j - 1) % 3) + 1],
                     type |-> <<7, 8, 5>>[((j - 1) \div 3) + 1], frame |-> p.frame]]
    BY <2>1 DEF Unit, AccessUnit
  <2>3. \A j \in 1..9 : <<7, 8, 5>>[((j - 1) \div 3) + 1] = TypeAt(p, j)
    BY <1>2 DEF TypeAt
  <2>4. Size(p) = 9
    BY <1>2 DEF Size
  <2> QED
    BY <2>2, <2>3, <2>4
<1>3. CASE ~p.key
  <2>1. NalTypes(p.key) = <<1>>
    BY <1>1, <1>3, TypesAre
  <2>2. Unit(p) = [j \in 1..3 |-> [is |-> Parts[((j - 1) % 3) + 1],
                     type |-> <<1>>[((j - 1) \div 3) + 1], frame |-> p.frame]]
    BY <2>1 DEF Unit, AccessUnit
  <2>3. \A j \in 1..3 : <<1>>[((j - 1) \div 3) + 1] = TypeAt(p, j)
    BY <1>3 DEF TypeAt
  <2>4. Size(p) = 3
    BY <1>3 DEF Size
  <2> QED
    BY <2>2, <2>3, <2>4
<1> QED
  BY <1>2, <1>3

\* Its places, as the splitter sees them.
LEMMA UnitParts ==
  ASSUME OneSlice, NEW p \in Pictures, NEW j \in 1..Size(p)
  PROVE  /\ Unit(p)[j].is = "start" <=> j \in Starts(p)
         /\ Unit(p)[j].type = TypeAt(p, j) /\ Unit(p)[j].frame = p.frame
<1>1. Unit(p)[j] = [is |-> Parts[((j - 1) % 3) + 1], type |-> TypeAt(p, j),
                    frame |-> p.frame]
  BY UnitIs
<1>2. Parts[((j - 1) % 3) + 1] = "start" <=> (j - 1) % 3 = 0
  <2>1. (j - 1) % 3 \in {0, 1, 2}
    OBVIOUS
  <2> QED
    BY <2>1 DEF Parts
<1>3. (j - 1) % 3 = 0 <=> j \in Starts(p)
  BY DEF Size, Starts
<1> QED
  BY <1>1, <1>2, <1>3

\* w consists of the pictures of ps behind the first r; the n-th ends at at[n].
IsStream(w, ps, r, at) ==
  /\ at \in [r..Len(ps) -> Nat] /\ at[r] = 0 /\ at[Len(ps)] = Len(w)
  /\ \A m, n \in r..Len(ps) : m <= n => at[m] <= at[n]
  /\ \A n \in (r + 1)..Len(ps) :
       /\ at[n] = at[n - 1] + Size(ps[n])
       /\ \A j \in 1..Size(ps[n]) : w[at[n - 1] + j] = Unit(ps[n])[j]

Cuts == {Cut(p) : p \in Pictures}
\* After i places, q pictures are cut, and the scan is in the next, if any has begun.
Reached(ps, at, sofar, i, q) ==
  /\ sofar = [out |-> sofar.out, from |-> at[q] + 1, nal |-> sofar.nal]
  /\ sofar.out \in Seq(Cuts) /\ Len(sofar.out) = q
  /\ \A n \in 1..q : sofar.out[n] = Cut(ps[n])
  /\ \/ i = 0 /\ q = 0 /\ sofar.nal = 0
     \/ /\ q < Len(ps)
        /\ \E l \in Starts(ps[q + 1]) :
             sofar.nal = at[q] + l /\ at[q] + l <= i /\ i <= at[q] + l + 2

\* s is what has been read of w.
Opens(s, w) ==
  /\ Len(s) \in Nat /\ Len(w) \in Nat /\ Len(s) <= Len(w)
  /\ \A i \in 1..Len(s) : s[i] = w[i]

LEMMA ScanStream ==
  ASSUME OneSlice, NEW w, NEW ps \in Seq(Pictures), NEW at, IsStream(w, ps, 0, at),
         NEW s, Opens(s, w),
         NEW i \in 0..(Len(s) - 1), NEW sofar, NEW q \in 0..Len(ps),
         NEW a \in Nat, at[q] = a,
         Reached(ps, at, sofar, i, q)
  PROVE  \E r \in 0..Len(ps) : Reached(ps, at, Scan(s, sofar, i + 1), i + 1, r)
<1> DEFINE k == i + 1
<1>1. /\ Len(s) \in Nat /\ Len(w) \in Nat /\ Len(s) <= Len(w)
      /\ k \in 1..Len(s) /\ i \in Nat /\ k - 1 = i /\ k \in Nat /\ k # 0
  BY DEF Opens
<1> SUFFICES \E r \in 0..Len(ps) : Reached(ps, at, Scan(s, sofar, k), k, r)
  OBVIOUS
<1> HIDE DEF k
<1>2. /\ sofar = [out |-> sofar.out, from |-> a + 1, nal |-> sofar.nal]
      /\ sofar.out \in Seq(Cuts) /\ Len(sofar.out) = q
      /\ \A n \in 1..q : sofar.out[n] = Cut(ps[n])
  BY DEF Reached
<1>3. Len(ps) \in Nat /\ a \in Nat /\ q \in Nat
  BY DEF IsStream
<1>4. ASSUME NEW m \in 0..(Len(ps) - 1)
      PROVE  /\ ps[m + 1] \in Pictures /\ at[m] \in Nat /\ at[m + 1] \in Nat
             /\ at[m + 1] = at[m] + Size(ps[m + 1])
             /\ \A j \in 1..Size(ps[m + 1]) : w[at[m] + j] = Unit(ps[m + 1])[j]
  <2>1. m + 1 \in 1..Len(ps) /\ (m + 1) - 1 = m /\ m \in 0..Len(ps) /\ m + 1 \in 0..Len(ps)
    BY <1>3
  <2>2. ps[m + 1] \in Pictures
    BY <2>1, ElementOfSeq
  <2>3. at[m] \in Nat /\ at[m + 1] \in Nat
    BY <2>1 DEF IsStream
  <2>4. \A n \in 1..Len(ps) :
          /\ at[n] = at[n - 1] + Size(ps[n])
          /\ \A j \in 1..Size(ps[n]) : w[at[n - 1] + j] = Unit(ps[n])[j]
    BY DEF IsStream
  <2>5. /\ at[m + 1] = at[(m + 1) - 1] + Size(ps[m + 1])
        /\ \A j \in 1..Size(ps[m + 1]) : w[at[(m + 1) - 1] + j] = Unit(ps[m + 1])[j]
    BY <2>1, <2>4
  <2> QED
    BY <2>1, <2>2, <2>3, <2>5
\* A place of s that belongs to the picture m + 1.
<1>5. ASSUME NEW m \in 0..(Len(ps) - 1), NEW j \in 1..Size(ps[m + 1]),
             at[m] + j <= Len(s)
      PROVE  /\ s[at[m] + j].is = "start" <=> j \in Starts(ps[m + 1])
             /\ s[at[m] + j].type = TypeAt(ps[m + 1], j)
             /\ s[at[m] + j] = Unit(ps[m + 1])[j]
  <2>1. ps[m + 1] \in Pictures /\ at[m] \in Nat /\ w[at[m] + j] = Unit(ps[m + 1])[j]
    BY <1>4
  <2>2. Size(ps[m + 1]) \in Nat
    BY DEF Size
  <2>3. at[m] + j \in 1..Len(s)
    <3>1. at[m] + j \in Nat /\ 1 <= at[m] + j
      BY <2>1, <2>2
    <3> QED
      BY <1>1, <1>5, <3>1
  <2>4. s[at[m] + j] = Unit(ps[m + 1])[j]
    BY <2>1, <2>3 DEF Opens
  <2> QED
    BY <2>1, <2>4, UnitParts
\* The first place of a picture is the start code of its first NAL.
<1>6. ASSUME NEW m \in 0..(Len(ps) - 1)
      PROVE  1 \in Starts(ps[m + 1]) /\ 1 \in 1..Size(ps[m + 1]) /\ Size(ps[m + 1]) \in {3, 9}
  BY DEF Starts, Size
<1>7. CASE i = 0 /\ q = 0 /\ sofar.nal = 0
  <2>1. at[0] = 0 /\ k = 1 /\ k <= Len(w)
    BY <1>1, <1>7 DEF IsStream, k
  <2>2. Len(ps) # 0
    BY <1>1, <2>1 DEF IsStream
  <2>3. 0 \in 0..(Len(ps) - 1)
    BY <1>3, <2>2
  <2>4. 1 \in Starts(ps[1]) /\ 1 \in 1..Size(ps[1])
    BY DEF Starts, Size
  <2>5. s[k].is = "start"
    BY <1>1, <1>5, <2>1, <2>3, <2>4
  <2>6. Scan(s, sofar, k) = [out |-> sofar.out, from |-> at[0] + 1, nal |-> 1]
    BY <1>2, <1>7, <2>1, <2>5 DEF Scan, EndsUnit
  <2>7. Reached(ps, at, Scan(s, sofar, k), k, 0)
    BY <1>2, <1>7, <2>1, <2>3, <2>4, <2>6 DEF Reached
  <2> QED
    BY <1>3, <2>7
<1>8. CASE q < Len(ps) /\ \E l \in Starts(ps[q + 1]) :
             sofar.nal = a + l /\ a + l <= i /\ i <= a + l + 2
  <2> DEFINE p == ps[q + 1]
  <2>1. q \in 0..(Len(ps) - 1)
    BY <1>3, <1>8
  <2>2. PICK l \in Starts(p) :
          sofar.nal = a + l /\ a + l <= i /\ i <= a + l + 2
    BY <1>8
  <2>3. p \in Pictures /\ at[q + 1] = a + Size(p)
    BY <1>4, <2>1
  <2>4. l + 2 <= Size(p) /\ l \in Nat /\ l # 0 /\ Size(p) \in Nat /\ sofar.nal \in Nat
    <3>1. l + 2 <= Size(p) /\ l \in Nat /\ l # 0 /\ Size(p) \in Nat
      BY <2>2 DEF Starts, Size
    <3> QED
      BY <1>3, <2>2, <3>1
  <2>5. ASSUME NEW j \in 1..Size(p), a + j <= Len(s)
        PROVE  /\ s[a + j].is = "start" <=> j \in Starts(p)
               /\ s[a + j].type = TypeAt(p, j) /\ s[a + j] = Unit(p)[j]
    BY <1>5, <2>1, <2>5
  <2> HIDE DEF p
  <2>6. NalType(s, sofar.nal) = TypeAt(p, l + 1) \/ k = sofar.nal + 1
    <3>1. CASE k # sofar.nal + 1
      <4>1. sofar.nal + 1 <= i /\ i <= Len(s) /\ Len(s) \in Nat
        BY <1>1, <2>2, <2>4, <3>1
      <4>2. sofar.nal < Len(s) /\ sofar.nal + 1 = a + (l + 1)
        BY <1>1, <1>3, <2>2, <2>4, <4>1
      <4>3. l + 1 \in 1..Size(p) /\ a + (l + 1) <= Len(s)
        BY <1>1, <1>3, <2>4, <4>1, <4>2
      <4>4. s[a + (l + 1)].type = TypeAt(p, l + 1)
        BY <2>5, <4>3
      <4> QED
        BY <4>2, <4>4 DEF NalType
    <3> QED
      BY <3>1
  \* Inside the NAL.
  <2>7. CASE k <= a + l + 2
    <3> DEFINE j == k - a
    <3>1. j \in 1..Size(p) /\ a + j = k /\ j \in (l + 1)..(l + 2)
      BY <1>1, <1>3, <2>2, <2>4, <2>7
    <3> HIDE DEF j
    <3>2. j \notin Starts(p)
      <4>1. l \in {1, 4, 7}
        BY <2>2 DEF Starts
      <4>2. j = l + 1 \/ j = l + 2
        BY <2>4, <3>1
      <4>3. j \notin {1, 4, 7}
        BY <4>1, <4>2
      <4> QED
        BY <4>3 DEF Starts
    <3>3. s[k].is # "start"
      <4>1. a + j <= Len(s)
        BY <1>1, <3>1
      <4> QED
        BY <2>5, <3>1, <3>2, <4>1
    <3>4. Scan(s, sofar, k) = sofar
      BY <3>3 DEF Scan
    <3>5. a + l <= k
      BY <1>1, <1>3, <2>2, <2>4
    <3>6. Reached(ps, at, sofar, k, q)
      BY <1>2, <1>8, <2>2, <2>7, <3>5 DEF Reached, p
    <3> QED
      BY <3>4, <3>6
  \* At the next NAL of the same picture: the one before is a parameter set.
  <2>8. CASE k = a + l + 3 /\ l + 3 <= Size(p)
    <3>1. l + 3 \in 1..Size(p) /\ a + (l + 3) = k /\ l + 3 \in Starts(p)
      <4>1. l + 3 \in Starts(p)
        BY <2>2, <2>8 DEF Starts, Size
      <4> QED
        BY <1>3, <2>2, <2>4, <2>8, <4>1
    <3>2. s[k].is = "start"
      <4>1. a + (l + 3) <= Len(s)
        BY <1>1, <3>1
      <4> QED
        BY <2>5, <3>1, <4>1
    <3>3. TypeAt(p, l + 1) \in {7, 8}
      <4>1. p.key /\ l \in {1, 4}
        BY <2>2, <2>8 DEF Starts, Size
      <4> QED
        BY <4>1 DEF TypeAt
    <3>4. NalType(s, sofar.nal) = TypeAt(p, l + 1)
      <4>1. k # sofar.nal + 1
        BY <1>3, <2>2, <2>4, <2>8
      <4> QED
        BY <2>6, <4>1
    <3>5. ~EndsUnit(s, sofar.nal, k)
      BY <3>3, <3>4 DEF EndsUnit, IsVcl
    <3>6. Scan(s, sofar, k) = [out |-> sofar.out, from |-> a + 1, nal |-> k]
      BY <1>2, <3>2, <3>5 DEF Scan
    <3>7. k = a + (l + 3) /\ a + (l + 3) <= k /\ k <= a + (l + 3) + 2
      BY <1>1, <1>3, <2>4, <3>1
    <3>8. Reached(ps, at, Scan(s, sofar, k), k, q)
      BY <1>2, <1>8, <3>1, <3>6, <3>7 DEF Reached, p
    <3> QED
      BY <3>8
  \* At the next picture: the one before was the slice.
  <2>9. CASE k = a + l + 3 /\ ~(l + 3 <= Size(p))
    <3>1. l + 2 = Size(p) /\ i = a + Size(p) /\ at[q + 1] = i /\ k = at[q + 1] + 1
      <4>1. l + 2 = Size(p)
        BY <2>4, <2>9
      <4>2. k = a + Size(p) + 1
        BY <1>3, <2>4, <2>9, <4>1
      <4>3. i = a + Size(p)
        BY <1>1, <1>3, <2>4, <4>2
      <4> QED
        BY <2>3, <4>1, <4>2, <4>3
    <3>2. q + 1 # Len(ps)
      BY <1>1, <3>1 DEF IsStream
    <3>3. q + 1 \in 0..(Len(ps) - 1) /\ q + 1 \in 0..Len(ps)
      BY <1>3, <2>1, <3>2
    <3>4. 1 \in Starts(ps[(q + 1) + 1]) /\ 1 \in 1..Size(ps[(q + 1) + 1])
      BY <1>6, <3>3
    <3>5. s[k].is = "start"
      <4>1. at[q + 1] + 1 <= Len(s)
        BY <1>1, <3>1
      <4>2. s[at[q + 1] + 1].is = "start"
        BY <1>5, <3>3, <3>4, <4>1
      <4> QED
        BY <3>1, <4>2
    <3>6. TypeAt(p, l + 1) = (IF p.key THEN 5 ELSE 1)
      BY <2>2, <3>1 DEF TypeAt, Starts, Size
    <3>7. NalType(s, sofar.nal) = TypeAt(p, l + 1) /\ sofar.nal # 0
      <4>1. sofar.nal = a + l /\ k = (a + l) + 3
        BY <1>3, <2>2, <2>4, <2>9
      <4>2. sofar.nal # 0 /\ k # sofar.nal + 1
        BY <2>4, <4>1
      <4> QED
        BY <2>6, <4>2
    <3>8. EndsUnit(s, sofar.nal, k) /\ (NalType(s, sofar.nal) = 5) = p.key
      BY <2>3, <3>6, <3>7 DEF EndsUnit, IsVcl, Pictures
    <3>9. SubSeq(s, a + 1, k - 1) = Unit(p)
      <4> DEFINE d == SubSeq(s, a + 1, k - 1)
                 X == {Unit(p)[j] : j \in 1..Size(p)}
      <4>1. a + 1 \in Int /\ k - 1 \in Int /\ a + 1 <= k - 1
            /\ (k - 1) - (a + 1) + 1 = Size(p)
        <5>1. k - 1 = a + Size(p) /\ Size(p) >= 1
          BY <1>1, <2>4, <3>1
        <5>2. k - 1 \in Int /\ a + 1 \in Int /\ a + 1 <= k - 1
          BY <1>3, <2>4, <5>1
        <5>3. (k - 1) - (a + 1) + 1 = Size(p)
          BY <1>3, <2>4, <5>1
        <5> QED
          BY <5>2, <5>3
      <4>2. ASSUME NEW j \in 1..Size(p) PROVE s[a + j] = Unit(p)[j]
        <5>1. a + j <= Len(s)
          <6>1. a + j <= a + Size(p)
            BY <1>3, <2>4
          <6>2. a + Size(p) <= Len(s)
            BY <1>1, <3>1
          <6> QED
            BY <1>1, <1>3, <2>4, <6>1, <6>2
        <5> QED
          BY <2>5, <5>1
      <4>3. \A j \in (a + 1)..(k - 1) : s[j] \in X
        <5> TAKE j \in (a + 1)..(k - 1)
        <5>1. j - a \in 1..Size(p) /\ a + (j - a) = j
          <6>1. k - 1 = a + Size(p)
            BY <1>1, <3>1
          <6> QED
            BY <1>1, <1>3, <2>4, <6>1
        <5> QED
          BY <4>2, <5>1
      <4> HIDE DEF X
      <4>4. /\ d \in Seq(X) /\ Len(d) = Size(p)
            /\ \A j \in 1..Size(p) : d[j] = s[(a + 1) + j - 1]
        BY <4>1, <4>3, SubSeqProperties
      <4> HIDE DEF d
      <4>5. \A j \in 1..Size(p) : d[j] = Unit(p)[j]
        <5> TAKE j \in 1..Size(p)
        <5>1. (a + 1) + j - 1 = a + j
          BY <1>3, <2>4
        <5> QED
          BY <4>2, <4>4, <5>1
      <4>6. Unit(p) \in Seq(X) /\ Len(Unit(p)) = Size(p)
        <5>1. /\ Len(Unit(p)) = Size(p) /\ Unit(p) = [j \in 1..Size(p) |-> Unit(p)[j]]
          BY <2>3, UnitIs
        <5>2. Size(p) \in Nat /\ \A j \in 1..Size(p) : Unit(p)[j] \in X
          BY <2>4 DEF X
        <5>3. Unit(p) \in [1..Size(p) -> X]
          BY <5>1, <5>2, Zenon
        <5> QED
          BY <5>1, <5>2, <5>3
      <4>7. d = Unit(p)
        BY <4>4, <4>5, <4>6, SeqEqual
      <4> QED
        BY <4>7 DEF d
    <3>10. Scan(s, sofar, k) = [out |-> Append(sofar.out, Cut(p)), from |-> k, nal |-> k]
      <4>1. sofar.from = a + 1
        BY <1>2
      <4> QED
        BY <3>5, <3>8, <3>9, <4>1 DEF Scan, Cut
    <3>11. /\ Append(sofar.out, Cut(p)) \in Seq(Cuts)
           /\ Len(Append(sofar.out, Cut(p))) = q + 1
           /\ \A n \in 1..(q + 1) : Append(sofar.out, Cut(p))[n] = Cut(ps[n])
      <4>1. Cut(p) \in Cuts
        BY <2>3 DEF Cuts
      <4> QED
        BY <1>2, <1>3, <4>1, AppendProperties DEF p
    <3>12. k = at[q + 1] + 1 /\ at[q + 1] + 1 <= k /\ k <= at[q + 1] + 1 + 2
      BY <1>1, <3>1
    <3>13. Reached(ps, at, Scan(s, sofar, k), k, q + 1)
      BY <3>3, <3>4, <3>10, <3>11, <3>12 DEF Reached
    <3> QED
      BY <3>3, <3>13
  <2> QED
    BY <1>1, <1>3, <2>2, <2>4, <2>7, <2>8, <2>9
<1> QED
  BY <1>7, <1>8 DEF Reached

\* Whatever part of the output has been read, the splitter gives out the pictures
\* behind which another has begun, and holds back the rest.
LEMMA SplitStream ==
  ASSUME OneSlice, NEW w, NEW ps \in Seq(Pictures), NEW at, IsStream(w, ps, 0, at),
         NEW s, Opens(s, w)
  PROVE  \E q \in 0..Len(ps) :
           /\ at[q] <= Len(s) /\ HeldBack(s) = SubSeq(s, at[q] + 1, Len(s))
           /\ Len(Split(s)) = q /\ \A n \in 1..q : Split(s)[n] = Cut(ps[n])
<1>1. Len(s) \in Nat
  BY DEF Opens
<1> DEFINE S == {i \in 0..Len(s) :
                   \E q \in 0..Len(ps) : Reached(ps, at, Scanned(s)[i], i, q)}
<1>2. 0 \in S
  <2>1. Scanned(s)[0] = Scanning
    BY ScannedIs
  <2>2. at[0] = 0 /\ 0 \in 0..Len(ps)
    BY DEF IsStream
  <2>3. /\ Scanning.out = <<>> /\ Scanning.from = 1 /\ Scanning.nal = 0
        /\ Scanning = [out |-> Scanning.out, from |-> 0 + 1, nal |-> Scanning.nal]
    BY DEF Scanning
  <2>4. <<>> \in Seq(Cuts) /\ Len(<<>>) = 0
    OBVIOUS
  <2>5. Reached(ps, at, Scanning, 0, 0)
    BY <2>2, <2>3, <2>4 DEF Reached
  <2> QED
    BY <1>1, <2>1, <2>2, <2>5
<1>3. ASSUME NEW i \in 0..(Len(s) - 1), i \in S PROVE i + 1 \in S
  <2>1. PICK q \in 0..Len(ps) : Reached(ps, at, Scanned(s)[i], i, q)
    BY <1>3
  <2>2. at[q] \in Nat /\ i + 1 \in 0..Len(s)
    BY <1>1 DEF IsStream
  <2>3. Scanned(s)[i + 1] = Scan(s, Scanned(s)[i], i + 1)
    BY <1>1, ScannedNext
  <2>4. \E r \in 0..Len(ps) : Reached(ps, at, Scan(s, Scanned(s)[i], i + 1), i + 1, r)
    BY <2>1, <2>2, ScanStream
  <2> QED
    BY <1>1, <2>3, <2>4
<1>4. Len(s) \in S
  <2> HIDE DEF S
  <2>1. 0..Len(s) \subseteq S
    BY <1>1, <1>2, <1>3, Upwards
  <2> QED
    BY <1>1, <2>1
<1>5. PICK q \in 0..Len(ps) : Reached(ps, at, Scanned(s)[Len(s)], Len(s), q)
  BY <1>4
<1> DEFINE last == Scanned(s)[Len(s)]
<1>6. /\ last.from = at[q] + 1 /\ Len(last.out) = q
      /\ \A n \in 1..q : last.out[n] = Cut(ps[n])
  BY <1>5 DEF Reached
<1>7. at[q] <= Len(s)
  <2>1. CASE q = 0
    BY <1>1, <2>1 DEF IsStream
  <2>2. CASE q < Len(ps) /\ \E l \in Starts(ps[q + 1]) : at[q] + l <= Len(s)
    <3>1. PICK l \in Starts(ps[q + 1]) : at[q] + l <= Len(s)
      BY <2>2
    <3>2. l \in Nat
      BY <3>1 DEF Starts
    <3>3. at[q] \in Nat
      BY DEF IsStream
    <3> QED
      BY <1>1, <3>1, <3>2, <3>3
  <2> QED
    BY <1>5, <2>1, <2>2 DEF Reached
<1> HIDE DEF last
<1>8. Split(s) = last.out /\ HeldBack(s) = SubSeq(s, last.from, Len(s))
  BY DEF Split, HeldBack, last
<1> QED
  BY <1>6, <1>7, <1>8

-----------------------------------------------------------------------------
(* What there is at every moment, whatever ffmpeg's slices. *)

Types ==
  /\ captured \in 0..MaxFrame /\ slot \in 0..captured
  /\ feeder \in {"first", "idle", "push", "write", "done"}
  /\ feeding \in 0..captured /\ (feeder \in {"push", "write"} => feeding # 0)
  /\ fifo \in Seq(1..captured) /\ Len(fifo) <= FifoBound
  /\ resets \in BOOLEAN /\ stop \in BOOLEAN
  /\ inside \in Seq(1..captured) /\ Len(inside) <= Depth
  /\ sinceKey \in 0..(Gop - 1)
  /\ stdout \in Seq(Tokens(captured)) /\ buf \in Seq(Tokens(captured))
  /\ ready \in Seq(Units(captured))
  /\ latest \subseteq [keyframe : BOOLEAN, capture : 0..captured, data : Data(captured)]
  /\ shown \in 0..captured

LEMMA UnitType ==
  ASSUME NEW n \in Nat, NEW k \in 1..n, NEW key \in BOOLEAN
  PROVE  AccessUnit(k, key) \in Seq(Tokens(n))
<1> DEFINE t == NalTypes(key)
           params == IF key THEN <<7, 8>> ELSE <<>>
           slices == [i \in 1..Slices |-> IF key THEN 5 ELSE 1]
<1>1. params \in Seq(Nat) /\ slices \in Seq(Nat)
  <2>1. Slices \in Nat
    BY EncoderAssumption DEF EncoderAssumption
  <2> QED
    BY <2>1
<1>2. t \in Seq(Nat)
  <2> HIDE DEF params, slices
  <2>1. t = params \o slices
    BY DEF NalTypes, params, slices
  <2> QED
    BY <1>1, <2>1, ConcatProperties
<1> HIDE DEF t
<1> DEFINE N == Len(t)
           tok(j) == [is |-> Parts[((j - 1) % 3) + 1], type |-> t[((j - 1) \div 3) + 1],
                      frame |-> k]
<1>3. N \in Nat /\ 3 * N \in Nat
  BY <1>2
<1>4. ASSUME NEW j \in 1..(3 * N) PROVE tok(j) \in Tokens(n)
  <2>1. ((j - 1) \div 3) + 1 \in 1..N
    BY <1>3
  <2>2. t[((j - 1) \div 3) + 1] \in Nat
    BY <1>2, <2>1, ElementOfSeq
  <2>3. (j - 1) % 3 \in {0, 1, 2}
    BY <1>3
  <2>4. Parts[((j - 1) % 3) + 1] \in {"start", "type", "rest"}
    BY <2>3 DEF Parts
  <2> QED
    BY <2>2, <2>4 DEF Tokens
<1>5. AccessUnit(k, key) = [j \in 1..(3 * N) |-> tok(j)]
  BY DEF AccessUnit, t
<1> HIDE DEF N, tok
<1>6. [j \in 1..(3 * N) |-> tok(j)] \in [1..(3 * N) -> Tokens(n)]
  BY <1>4
<1> QED
  BY <1>3, <1>5, <1>6

LEMMA TypesStart == Init => Types
<1> SUFFICES ASSUME Init PROVE Types
  OBVIOUS
<1>1. MaxFrame \in Nat /\ Gop \in Nat \ {0} /\ FifoBound \in Nat /\ Depth \in Nat
  BY EncoderAssumption DEF EncoderAssumption
<1>2. \A S : <<>> \in Seq(S)
  OBVIOUS
<1>3. /\ captured = 0 /\ slot = 0 /\ feeder = "first" /\ feeding = 0
      /\ fifo = <<>> /\ resets = FALSE /\ inside = <<>> /\ sinceKey = 0
      /\ stdout = <<>> /\ buf = <<>> /\ ready = <<>> /\ latest = {}
      /\ shown = 0 /\ stop = FALSE
  BY DEF Init
<1>4. 0 \in 0..MaxFrame /\ 0 \in 0..0 /\ 0 \in 0..(Gop - 1)
  BY <1>1
<1>5. Len(fifo) <= FifoBound /\ Len(inside) <= Depth
  BY <1>1, <1>3
<1>6. /\ fifo \in Seq(1..captured) /\ inside \in Seq(1..captured)
      /\ stdout \in Seq(Tokens(captured)) /\ buf \in Seq(Tokens(captured))
      /\ ready \in Seq(Units(captured))
  BY <1>2, <1>3, Zenon
<1> QED
  BY <1>3, <1>4, <1>5, <1>6 DEF Types

LEMMA TypesGrow == Types /\ Capture => Types'
<1> SUFFICES ASSUME Types, Capture PROVE Types'
  OBVIOUS
<1>1. /\ captured \in Nat /\ captured' = captured + 1 /\ captured' \in 0..MaxFrame
      /\ slot' \in 0..captured' /\ feeding' \in 0..captured' /\ shown' \in 0..captured'
  BY EncoderAssumption DEF Types, Capture, EncoderAssumption
<1>2. /\ 1..captured \subseteq 1..captured' /\ 0..captured \subseteq 0..captured'
      /\ Tokens(captured) \subseteq Tokens(captured')
  BY <1>1 DEF Tokens
<1>3. Data(captured) \subseteq Data(captured')
  BY <1>2, SeqMonotonic DEF Data
<1>4. Units(captured) \subseteq Units(captured')
  BY <1>3 DEF Units
<1>5. /\ fifo \in Seq(1..captured') /\ inside \in Seq(1..captured')
      /\ stdout \in Seq(Tokens(captured')) /\ buf \in Seq(Tokens(captured'))
      /\ ready \in Seq(Units(captured'))
  BY <1>2, <1>4, SeqMonotonic DEF Types
<1>6. latest \subseteq [keyframe : BOOLEAN, capture : 0..captured', data : Data(captured')]
  <2>1. latest \subseteq [keyframe : BOOLEAN, capture : 0..captured, data : Data(captured)]
    BY DEF Types
  <2> QED
    BY <1>2, <1>3, <2>1
<1> QED
  BY <1>1, <1>5, <1>6 DEF Types, Capture

LEMMA TypesKept ==
  ASSUME Types, FeederTakes \/ FeederPushes \/ FeederWrites \/ Encode
                \/ ReadChunk \/ Publish \/ SendLatest \/ StopStage
  PROVE  Types'
<1>1. captured' = captured /\ captured \in Nat
  BY EncoderAssumption
  DEF Types, FeederTakes, FeederPushes, FeederWrites, Encode, ReadChunk, Publish,
      SendLatest, StopStage, EncoderAssumption
<1>2. CASE FeederTakes
  BY <1>1, <1>2 DEF Types, FeederTakes
<1>3. CASE FeederPushes
  <2>1. feeding \in 1..captured /\ FifoBound \in Nat \ {0} /\ Len(fifo) \in Nat
    BY <1>1, <1>3, EncoderAssumption DEF Types, FeederPushes, EncoderAssumption
  <2>2. /\ Append(fifo, feeding) \in Seq(1..captured)
        /\ Len(Append(fifo, feeding)) = Len(fifo) + 1
        /\ <<feeding>> \in Seq(1..captured) /\ Len(<<feeding>>) = 1
    BY <2>1, AppendProperties DEF Types
  <2>3. fifo' \in Seq(1..captured) /\ Len(fifo') <= FifoBound
    <3>1. fifo' = IF Len(fifo) = FifoBound THEN <<feeding>> ELSE Append(fifo, feeding)
      BY <1>3 DEF FeederPushes, Pushed
    <3>2. Len(fifo) <= FifoBound
      BY DEF Types
    <3>3. CASE Len(fifo) = FifoBound
      <4>1. fifo' = <<feeding>>
        BY <3>1, <3>3
      <4> QED
        BY <2>1, <2>2, <4>1
    <3>4. CASE Len(fifo) # FifoBound
      <4>1. fifo' = Append(fifo, feeding)
        BY <3>1, <3>4
      <4>2. Len(fifo) + 1 <= FifoBound
        BY <2>1, <3>2, <3>4
      <4> QED
        BY <2>2, <4>1, <4>2
    <3> QED
      BY <3>3, <3>4
  <2> QED
    BY <1>1, <1>3, <2>1, <2>3 DEF Types, FeederPushes
<1>4. CASE FeederWrites
  <2>1. feeding \in 1..captured /\ Depth \in Nat /\ Len(inside) \in Nat
    BY <1>1, <1>4, EncoderAssumption DEF Types, FeederWrites, EncoderAssumption
  <2>2. inside' \in Seq(1..captured) /\ Len(inside') = Len(inside) + 1
    BY <1>4, <2>1, AppendProperties DEF Types, FeederWrites
  <2> QED
    BY <1>1, <1>4, <2>1, <2>2 DEF Types, FeederWrites
<1>5. CASE Encode
  <2>1. /\ Head(inside) \in 1..captured /\ Tail(inside) \in Seq(1..captured)
        /\ Len(Tail(inside)) = Len(inside) - 1
    BY <1>5, HeadTailProperties DEF Types, Encode
  <2>2. Len(inside') <= Depth
    BY <1>5, <2>1, EncoderAssumption DEF Types, Encode, EncoderAssumption
  <2>3. AccessUnit(Head(inside), sinceKey = 0) \in Seq(Tokens(captured))
    BY <1>1, <2>1, UnitType
  <2>4. stdout' \in Seq(Tokens(captured))
    BY <1>5, <2>3, ConcatProperties DEF Types, Encode
  <2>5. sinceKey' \in 0..(Gop - 1)
    <3>1. Gop \in Nat \ {0} /\ sinceKey + 1 \in Nat
      BY EncoderAssumption DEF Types, EncoderAssumption
    <3>2. (sinceKey + 1) % Gop \in 0..(Gop - 1)
      <4> DEFINE g == Gop
                 k == sinceKey + 1
      <4>1. g \in Nat /\ g > 0 /\ k \in Nat
        BY <3>1
      <4> HIDE DEF g, k
      <4>2. k % g \in 0..(g - 1)
        BY <4>1
      <4> QED
        BY <4>2 DEF g, k
    <3> QED
      BY <1>5, <3>2 DEF Encode
  <2> QED
    BY <1>1, <1>5, <2>1, <2>2, <2>4, <2>5 DEF Types, Encode
<1>6. CASE ReadChunk
  <2>1. PICK n \in 1..Len(stdout) :
          LET s == buf \o SubSeq(stdout, 1, n)
          IN /\ stdout' = SubSeq(stdout, n + 1, Len(stdout))
             /\ ready' = Split(s) /\ buf' = HeldBack(s)
    BY <1>6 DEF ReadChunk
  <2>2. n \in Nat /\ n + 1 \in Nat /\ Len(stdout) \in Nat /\ 1 \in Int
    BY DEF Types
  <2>3. \A j \in 1..Len(stdout) : stdout[j] \in Tokens(captured)
    BY ElementOfSeq DEF Types
  <2>4. SubSeq(stdout, 1, n) \in Seq(Tokens(captured))
    BY <2>2, <2>3, SubSeqProperties
  <2>5. SubSeq(stdout, n + 1, Len(stdout)) \in Seq(Tokens(captured))
    <3>1. \A j \in (n + 1)..Len(stdout) : stdout[j] \in Tokens(captured)
      BY <2>2, <2>3
    <3> QED
      BY <2>2, <3>1, SubSeqProperties
  <2>6. buf \o SubSeq(stdout, 1, n) \in Seq(Tokens(captured))
    BY <2>4, ConcatProperties DEF Types
  <2>7. ready' \in Seq(Units(captured)) /\ buf' \in Seq(Tokens(captured))
    BY <1>1, <2>1, <2>6, SplitType
  <2> QED
    BY <1>1, <1>6, <2>1, <2>5, <2>7 DEF Types, ReadChunk
<1>7. CASE Publish
  <2>1. Head(ready) \in Units(captured) /\ Tail(ready) \in Seq(Units(captured))
    BY <1>7, HeadTailProperties DEF Types, Publish
  <2>2. Popped \in 0..captured
    BY <1>1, HeadTailProperties DEF Types, Popped
  <2>3. fifo' \in Seq(1..captured) /\ Len(fifo') <= FifoBound
    <3>1. CASE fifo = <<>>
      BY <1>7, <3>1, EncoderAssumption DEF Types, Publish, EncoderAssumption
    <3>2. CASE fifo # <<>>
      <4>1. Tail(fifo) \in Seq(1..captured) /\ Len(Tail(fifo)) = Len(fifo) - 1
        BY <3>2, HeadTailProperties DEF Types
      <4> QED
        BY <1>7, <3>2, <4>1, EncoderAssumption DEF Types, Publish, EncoderAssumption
    <3> QED
      BY <3>1, <3>2
  <2>4. latest' \subseteq
          [keyframe : BOOLEAN, capture : 0..captured, data : Data(captured)]
    BY <1>7, <2>1, <2>2 DEF Publish, Units
  <2> QED
    BY <1>1, <1>7, <2>1, <2>3, <2>4 DEF Types, Publish
<1>8. CASE SendLatest
  <2>1. PICK u \in latest : shown' = Last(u.data).frame
    BY <1>8 DEF SendLatest
  <2>2. u.data \in Seq(Tokens(captured)) /\ u.data # <<>>
    BY DEF Types, Data
  <2>3. Last(u.data) \in Tokens(captured)
    <3>1. Len(u.data) \in 1..Len(u.data)
      BY <2>2
    <3> QED
      BY <2>2, <3>1, ElementOfSeq DEF Last
  <2>4. shown' \in 0..captured
    BY <1>1, <2>1, <2>3 DEF Tokens
  <2> QED
    BY <1>1, <1>8, <2>4 DEF Types, SendLatest
<1>9. CASE StopStage
  BY <1>1, <1>9 DEF Types, StopStage
<1> QED
  BY <1>2, <1>3, <1>4, <1>5, <1>6, <1>7, <1>8, <1>9
-----------------------------------------------------------------------------
(* How ffmpeg's output grows at one end and is consumed at the other. *)

LEMMA StreamGrows ==
  ASSUME OneSlice, NEW X, NEW w \in Seq(X), NEW ps \in Seq(Pictures),
         NEW r \in 0..Len(ps), NEW at, IsStream(w, ps, r, at),
         NEW p \in Pictures, Unit(p) \in Seq(X)
  PROVE  \E more : IsStream(w \o Unit(p), Append(ps, p), r, more)
<1> DEFINE N == Len(ps)
           L == Len(w)
           Z == Size(p)
           next == Append(ps, p)
           v == w \o Unit(p)
           more == [n \in r..(N + 1) |-> IF n <= N THEN at[n] ELSE L + Z]
<1>1. N \in Nat /\ r \in Nat /\ r <= N /\ L \in Nat /\ Z \in Nat /\ Len(Unit(p)) = Z
  BY UnitIs DEF Size
<1>2. /\ Len(next) = N + 1 /\ next[N + 1] = p
      /\ \A n \in 1..N : next[n] = ps[n]
  BY AppendProperties
<1>3. /\ Len(v) = L + Z
      /\ \A i \in 1..L : v[i] = w[i]
      /\ \A j \in 1..Z : v[L + j] = Unit(p)[j]
  <2>1. /\ Len(v) = L + Len(Unit(p))
        /\ \A i \in 1..(L + Len(Unit(p))) :
             v[i] = IF i <= L THEN w[i] ELSE Unit(p)[i - L]
    BY ConcatProperties
  <2> HIDE DEF v, Z, L
  <2>2. \A i \in 1..L : v[i] = w[i]
    BY <1>1, <2>1
  <2>3. ASSUME NEW j \in 1..Z PROVE v[L + j] = Unit(p)[j]
    <3>1. L + j \in 1..(L + Len(Unit(p))) /\ ~(L + j <= L) /\ (L + j) - L = j
      BY <1>1
    <3> QED
      BY <2>1, <3>1
  <2> QED
    BY <1>1, <2>1, <2>2, <2>3
<1>4. /\ at \in [r..N -> Nat] /\ at[r] = 0 /\ at[N] = L
      /\ \A m, n \in r..N : m <= n => at[m] <= at[n]
      /\ \A n \in (r + 1)..N :
           /\ at[n] = at[n - 1] + Size(ps[n])
           /\ \A j \in 1..Size(ps[n]) : w[at[n - 1] + j] = Unit(ps[n])[j]
  BY DEF IsStream
<1> HIDE DEF N, L, Z, next, v
<1>5. /\ \A n \in r..N : more[n] = at[n] /\ at[n] \in Nat
      /\ more[N + 1] = L + Z
  BY <1>1, <1>4
<1>6. more \in [r..(N + 1) -> Nat]
  BY <1>1, <1>4
<1>7. r \in r..N /\ N \in r..N
  BY <1>1
<1> HIDE DEF more
<1>8. ASSUME NEW m \in r..(N + 1), NEW n \in r..(N + 1), m <= n
      PROVE  more[m] <= more[n]
  <2>1. CASE n <= N
    <3>1. m \in r..N /\ n \in r..N
      BY <1>1, <1>8, <2>1
    <3> QED
      BY <1>4, <1>5, <1>8, <3>1
  <2>2. CASE n = N + 1 /\ m <= N
    <3>1. m \in r..N
      BY <1>1, <2>2
    <3>2. at[m] <= L /\ at[m] \in Nat
      BY <1>1, <1>4, <1>7, <3>1
    <3> QED
      BY <1>1, <1>5, <2>2, <3>1, <3>2
  <2>3. CASE n = N + 1 /\ m = N + 1
    BY <1>1, <1>5, <2>3
  <2> QED
    BY <1>1, <1>8, <2>1, <2>2, <2>3
<1>9. ASSUME NEW n \in (r + 1)..(N + 1)
      PROVE  /\ more[n] = more[n - 1] + Size(next[n])
             /\ \A j \in 1..Size(next[n]) : v[more[n - 1] + j] = Unit(next[n])[j]
  <2>1. CASE n <= N
    <3>1. n \in (r + 1)..N /\ n \in r..N /\ n - 1 \in r..N /\ n \in 1..N
      BY <1>1, <2>1
    <3>2. next[n] = ps[n] /\ more[n] = at[n] /\ more[n - 1] = at[n - 1]
      BY <1>2, <1>5, <3>1
    <3>3. /\ at[n] = at[n - 1] + Size(ps[n]) /\ at[n] \in Nat /\ at[n - 1] \in Nat
          /\ \A j \in 1..Size(ps[n]) : w[at[n - 1] + j] = Unit(ps[n])[j]
      BY <1>4, <1>5, <3>1
    <3>4. at[n] <= L
      BY <1>1, <1>4, <1>7, <3>1
    <3>5. ASSUME NEW j \in 1..Size(ps[n]) PROVE v[at[n - 1] + j] = Unit(ps[n])[j]
      <4>1. at[n - 1] + j \in 1..L
        <5>1. ASSUME NEW a \in Nat, NEW b \in Nat, NEW z \in Nat, b = a + z, b <= L,
                     j \in 1..z
              PROVE  a + j \in 1..L
          BY <1>1, <5>1
        <5>2. Size(ps[n]) \in Nat
          BY DEF Size
        <5> QED
          BY <3>3, <3>4, <5>1, <5>2
      <4> QED
        BY <1>3, <3>3, <4>1
    <3> QED
      BY <3>2, <3>3, <3>5
  <2>2. CASE n = N + 1
    <3>1. n - 1 = N /\ more[n - 1] = L /\ more[n] = L + Z /\ next[n] = p
      BY <1>1, <1>2, <1>4, <1>5, <1>7, <2>2
    <3>2. Size(next[n]) = Z
      BY <3>1 DEF Z
    <3> QED
      BY <1>3, <3>1, <3>2
  <2> QED
    BY <1>1, <2>1, <2>2
<1>10. more[r] = 0 /\ more[N + 1] = Len(v)
  BY <1>3, <1>4, <1>5, <1>7
<1>11. IsStream(v, next, r, more)
  BY <1>2, <1>6, <1>8, <1>9, <1>10 DEF IsStream
<1> QED
  BY <1>11 DEF v, next

\* v is what stands behind the first a places of w.
Follows(w, a, v) ==
  /\ Len(w) = a + Len(v)
  /\ \A j \in 1..Len(v) : v[j] = w[a + j]

\* The first q pictures have been cut out of it.
LEMMA StreamCut ==
  ASSUME NEW w, NEW ps \in Seq(Pictures), NEW at, IsStream(w, ps, 0, at),
         NEW q \in 0..Len(ps), NEW a \in Nat, at[q] = a,
         NEW v, Len(v) \in Nat, Follows(w, a, v)
  PROVE  \E rest : IsStream(v, ps, q, rest)
<1> DEFINE N == Len(ps)
           L == Len(w)
           k == Len(v)
           rest == [n \in q..N |-> at[n] - a]
<1>1. N \in Nat /\ q \in Nat /\ q <= N /\ L = a + k /\ k \in Nat /\ L \in Nat
  BY DEF Follows
<1>2. \A j \in 1..k : v[j] = w[a + j]
  BY DEF Follows
<1>3. /\ at \in [0..N -> Nat] /\ at[N] = L
      /\ \A m, n \in 0..N : m <= n => at[m] <= at[n]
      /\ \A n \in 1..N :
           /\ at[n] = at[n - 1] + Size(ps[n])
           /\ \A j \in 1..Size(ps[n]) : w[at[n - 1] + j] = Unit(ps[n])[j]
  <2>1. 0 + 1 = 1
    OBVIOUS
  <2> QED
    BY <2>1, Zenon DEF IsStream
<1>4. Len(v) = L - a /\ k = L - a
  BY <1>1
<1> HIDE DEF N, L, k
<1>5. ASSUME NEW n \in q..N
      PROVE  at[n] \in Nat /\ a <= at[n] /\ at[n] <= L /\ rest[n] = at[n] - a
  <2>1. n \in 0..N /\ q \in 0..N /\ N \in 0..N /\ q <= n /\ n <= N
    BY <1>1
  <2> QED
    BY <1>3, <2>1
<1>6. rest \in [q..N -> Nat]
  <2>1. ASSUME NEW n \in q..N PROVE at[n] - a \in Nat
    BY <1>5
  <2> QED
    BY <2>1
<1> HIDE DEF rest
<1>7. q \in q..N /\ N \in q..N
  BY <1>1
<1>8. rest[q] = 0 /\ rest[N] = Len(v)
  BY <1>3, <1>4, <1>5, <1>7
<1>9. ASSUME NEW m \in q..N, NEW n \in q..N, m <= n PROVE rest[m] <= rest[n]
  <2>1. m \in 0..N /\ n \in 0..N
    BY <1>1
  <2>2. at[m] <= at[n]
    BY <1>3, <1>9, <2>1
  <2> QED
    BY <1>5, <2>2
<1>10. ASSUME NEW n \in (q + 1)..N
      PROVE  /\ rest[n] = rest[n - 1] + Size(ps[n])
             /\ \A j \in 1..Size(ps[n]) : v[rest[n - 1] + j] = Unit(ps[n])[j]
  <2>1. n \in 1..N /\ n \in q..N /\ n - 1 \in q..N
    BY <1>1
  <2>2. Size(ps[n]) \in Nat
    BY DEF Size
  <2>3. /\ at[n] \in Nat /\ at[n - 1] \in Nat /\ a <= at[n - 1] /\ at[n] <= L
        /\ rest[n] = at[n] - a /\ rest[n - 1] = at[n - 1] - a
    BY <1>5, <2>1
  <2>4. /\ at[n] = at[n - 1] + Size(ps[n])
        /\ \A j \in 1..Size(ps[n]) : w[at[n - 1] + j] = Unit(ps[n])[j]
    BY <1>3, <2>1
  <2>5. rest[n] = rest[n - 1] + Size(ps[n])
    BY <2>2, <2>3, <2>4
  <2>6. ASSUME NEW j \in 1..Size(ps[n]) PROVE v[rest[n - 1] + j] = Unit(ps[n])[j]
    <3>1. /\ rest[n - 1] + j \in 1..(L - a)
          /\ a + (rest[n - 1] + j) = at[n - 1] + j
      <4>1. ASSUME NEW b \in Nat, NEW z \in Nat, NEW c \in Nat, c = b + z, c <= L, a <= b,
                   j \in 1..z
            PROVE  /\ (b - a) + j \in 1..(L - a) /\ a + ((b - a) + j) = b + j
        BY <1>1, <4>1
      <4> QED
        BY <2>2, <2>3, <2>4, <4>1
    <3> QED
      BY <1>4, <1>2, <2>4, <3>1
  <2> QED
    BY <2>5, <2>6
<1>11. IsStream(v, ps, q, rest)
  <2>1. N = Len(ps)
    BY DEF N
  <2> QED
    BY <1>6, <1>8, <1>9, <1>10, <2>1, Zenon DEF IsStream
<1> QED
  BY <1>11

\* The first picture is forgotten.
LEMMA StreamDrops ==
  ASSUME NEW w, NEW ps \in Seq(Pictures), NEW r \in 1..Len(ps), NEW at,
         IsStream(w, ps, r, at)
  PROVE  \E less : IsStream(w, Tail(ps), r - 1, less)
<1> DEFINE N == Len(ps)
           M == N - 1
           b == r - 1
           t == Tail(ps)
           less == [n \in b..M |-> at[n + 1]]
<1>1. N \in Nat /\ r \in Nat /\ 1 <= r /\ r <= N /\ M \in Nat /\ b \in Nat
      /\ M + 1 = N /\ b + 1 = r /\ b <= M
  OBVIOUS
<1>2. ps # <<>>
  BY <1>1
<1>3. Len(t) = M /\ \A n \in 1..M : t[n] = ps[n + 1]
  BY <1>2, HeadTailProperties
<1>4. /\ at \in [r..N -> Nat] /\ at[r] = 0 /\ at[N] = Len(w)
      /\ \A m, n \in r..N : m <= n => at[m] <= at[n]
      /\ \A n \in (r + 1)..N :
           /\ at[n] = at[n - 1] + Size(ps[n])
           /\ \A j \in 1..Size(ps[n]) : w[at[n - 1] + j] = Unit(ps[n])[j]
  BY DEF IsStream
<1> HIDE DEF N, M, b, t
<1>5. ASSUME NEW n \in b..M
      PROVE  n + 1 \in r..N /\ less[n] = at[n + 1] /\ at[n + 1] \in Nat
  <2>1. n + 1 \in r..N
    BY <1>1
  <2> QED
    BY <1>4, <2>1
<1>6. less \in [b..M -> Nat]
  BY <1>5
<1> HIDE DEF less
<1>7. less[b] = 0 /\ less[M] = Len(w)
  <2>1. b \in b..M /\ M \in b..M
    BY <1>1
  <2> QED
    BY <1>1, <1>4, <1>5, <2>1
<1>8. ASSUME NEW m \in b..M, NEW n \in b..M, m <= n PROVE less[m] <= less[n]
  <2>1. m + 1 <= n + 1
    BY <1>1, <1>8
  <2> QED
    BY <1>4, <1>5, <2>1
<1>9. ASSUME NEW n \in (b + 1)..M
      PROVE  /\ less[n] = less[n - 1] + Size(t[n])
             /\ \A j \in 1..Size(t[n]) : w[less[n - 1] + j] = Unit(t[n])[j]
  <2>1. /\ n \in 1..M /\ n \in b..M /\ n - 1 \in b..M /\ (n - 1) + 1 = n
        /\ n + 1 \in (r + 1)..N /\ (n + 1) - 1 = n
    BY <1>1
  <2>2. t[n] = ps[n + 1] /\ less[n] = at[n + 1] /\ less[n - 1] = at[n]
    BY <1>3, <1>5, <2>1
  <2>3. /\ at[n + 1] = at[n] + Size(ps[n + 1])
        /\ \A j \in 1..Size(ps[n + 1]) : w[at[n] + j] = Unit(ps[n + 1])[j]
    BY <1>4, <2>1
  <2> QED
    BY <2>2, <2>3
<1>10. IsStream(w, t, b, less)
  BY <1>3, <1>6, <1>7, <1>8, <1>9 DEF IsStream
<1> QED
  BY <1>10 DEF t, b

\* What stands behind the first m places of a sequence.
LEMMA Behind ==
  ASSUME NEW X, NEW s \in Seq(X), NEW m \in Nat, m <= Len(s)
  PROVE  LET d == SubSeq(s, m + 1, Len(s))
         IN /\ d \in Seq(X) /\ Len(d) = Len(s) - m
            /\ \A j \in 1..Len(d) : d[j] = s[m + j]
<1> DEFINE L == Len(s)
           k == m + 1
           d == SubSeq(s, k, L)
<1>1. L \in Nat /\ k \in Nat \ {0} /\ L - k + 1 = L - m /\ (~(k <= L) => L - m = 0)
      /\ k \in Int /\ L \in Int
  OBVIOUS
<1>2. \A j \in k..L : s[j] \in X
  <2> HIDE DEF k, L
  <2>1. \A j \in k..L : j \in 1..L
    BY <1>1
  <2> USE DEF L
  <2> QED
    BY <2>1, ElementOfSeq
<1>3. \A j \in Nat : k + j - 1 = m + j
  OBVIOUS
<1>4. d = SubSeq(s, m + 1, Len(s))
  OBVIOUS
<1> HIDE DEF k
<1>5. /\ d \in Seq(X) /\ Len(d) = IF k <= L THEN L - k + 1 ELSE 0
      /\ \A j \in 1..(L - k + 1) : d[j] = s[k + j - 1]
  BY <1>1, <1>2, SubSeqProperties
<1> HIDE DEF d, L
<1>6. Len(d) = L - m
  BY <1>1, <1>5
<1>7. /\ d \in Seq(X) /\ Len(d) = L - m /\ \A j \in 1..Len(d) : d[j] = s[m + j]
  <2>1. ASSUME NEW j \in 1..Len(d) PROVE d[j] = s[m + j]
    <3>1. j \in 1..(L - k + 1) /\ j \in Nat
      BY <1>1, <1>6
    <3> QED
      BY <1>3, <1>5, <3>1
  <2> QED
    BY <1>5, <1>6, <2>1
<1> QED
  BY <1>4, <1>7 DEF L

\* w is s and, behind it, left.
Joined(w, s, left) ==
  /\ Len(w) = Len(s) + Len(left)
  /\ \A i \in 1..Len(s) : s[i] = w[i]
  /\ \A j \in 1..Len(left) : w[Len(s) + j] = left[j]

\* A read takes a part of what is there.
LEMMA TwoParts ==
  ASSUME NEW X, NEW b \in Seq(X), NEW o \in Seq(X), NEW n \in 1..Len(o),
         NEW s, s = b \o SubSeq(o, 1, n), NEW left, left = SubSeq(o, n + 1, Len(o)),
         NEW w, w = b \o o
  PROVE  s \in Seq(X) /\ left \in Seq(X) /\ w \in Seq(X) /\ Joined(w, s, left)
<1>1. /\ b \in Seq(X) /\ o \in Seq(X) /\ Len(b) \in Nat /\ Len(o) \in Nat
      /\ n \in Nat /\ n <= Len(o)
  OBVIOUS
<1>2. \A j \in 1..Len(o) : o[j] \in X
  BY <1>1, ElementOfSeq
<1>3. /\ SubSeq(o, 1, n) \in Seq(X) /\ Len(SubSeq(o, 1, n)) = n
      /\ \A j \in 1..n : SubSeq(o, 1, n)[j] = o[j]
  <2>1. \A j \in 1..n : o[j] \in X
    BY <1>1, <1>2
  <2>2. 1 \in Int /\ n \in Int /\ 1 <= n /\ n - 1 + 1 = n
    BY <1>1
  <2>3. \A j \in 1..n : 1 + j - 1 = j
    BY <1>1
  <2>4. /\ SubSeq(o, 1, n) \in Seq(X)
        /\ Len(SubSeq(o, 1, n)) = IF 1 <= n THEN n - 1 + 1 ELSE 0
        /\ \A j \in 1..(n - 1 + 1) : SubSeq(o, 1, n)[j] = o[1 + j - 1]
    BY <2>1, <2>2, SubSeqProperties
  <2> QED
    BY <2>2, <2>3, <2>4
<1>4. /\ left \in Seq(X) /\ Len(left) = Len(o) - n
      /\ \A j \in 1..Len(left) : left[j] = o[n + j]
  BY <1>1, Behind
\* What the splitter sees is the first part of what is there.
<1>5. /\ s \in Seq(X) /\ w \in Seq(X)
      /\ Len(s) = Len(b) + n /\ Len(w) = Len(b) + Len(o)
  BY <1>1, <1>3, ConcatProperties
<1>6. \A i \in 1..Len(s) : s[i] = w[i]
  <2>1. /\ \A i \in 1..(Len(b) + n) :
             s[i] = IF i <= Len(b) THEN b[i] ELSE SubSeq(o, 1, n)[i - Len(b)]
        /\ \A i \in 1..(Len(b) + Len(o)) :
             w[i] = IF i <= Len(b) THEN b[i] ELSE o[i - Len(b)]
    <3>1. \A i \in 1..(Len(b) + n) :
             s[i] = IF i <= Len(b) THEN b[i] ELSE SubSeq(o, 1, n)[i - Len(b)]
      BY <1>1, <1>3, ConcatProperties
    <3>2. \A i \in 1..(Len(b) + Len(o)) :
             w[i] = IF i <= Len(b) THEN b[i] ELSE o[i - Len(b)]
      BY <1>1, ConcatProperties
    <3> QED
      BY <3>1, <3>2
  <2>2. ASSUME NEW i \in 1..Len(s) PROVE s[i] = w[i]
    <3>1. i \in 1..(Len(b) + n) /\ i \in 1..(Len(b) + Len(o))
      BY <1>1, <1>5
    <3>2. CASE i <= Len(b)
      BY <2>1, <3>1, <3>2
    <3>3. CASE ~(i <= Len(b))
      <4>1. i - Len(b) \in 1..n
        BY <1>1, <3>1, <3>3
      <4> QED
        BY <1>3, <2>1, <3>1, <3>3, <4>1
    <3> QED
      BY <3>2, <3>3
  <2> QED
    BY <2>2
<1>7. \A j \in 1..Len(left) : w[Len(s) + j] = left[j]
  <2>1. \A i \in 1..(Len(b) + Len(o)) :
          w[i] = IF i <= Len(b) THEN b[i] ELSE o[i - Len(b)]
    BY <1>1, ConcatProperties
  <2>2. ASSUME NEW j \in 1..Len(left) PROVE w[Len(s) + j] = left[j]
    <3>1. /\ Len(s) + j \in 1..(Len(b) + Len(o)) /\ ~(Len(s) + j <= Len(b))
          /\ (Len(s) + j) - Len(b) = n + j
      BY <1>1, <1>4, <1>5
    <3> QED
      BY <1>4, <2>1, <3>1
  <2> QED
    BY <2>2
<1>8. Len(w) = Len(s) + Len(left)
  <2>1. Len(b) + Len(o) = (Len(b) + n) + (Len(o) - n)
    BY <1>1
  <2> QED
    BY <1>1, <1>4, <1>5, <2>1
<1> QED
  BY <1>4, <1>5, <1>6, <1>7, <1>8 DEF Joined

\* What the splitter does not cut out of it is still a stream of pictures, with what
\* has not been read.
LEMMA ReadStream ==
  ASSUME OneSlice, NEW X, NEW s \in Seq(X), NEW left \in Seq(X), NEW w \in Seq(X),
         Joined(w, s, left), NEW ps \in Seq(Pictures), NEW at, IsStream(w, ps, 0, at)
  PROVE  \E q \in 0..Len(ps) :
           /\ Len(Split(s)) = q /\ \A i \in 1..q : Split(s)[i] = Cut(ps[i])
           /\ \E rest : IsStream(HeldBack(s) \o left, ps, q, rest)
<1> DEFINE held == HeldBack(s)
<1>1. \A i \in 1..Len(s) : s[i] = w[i]
  BY DEF Joined
<1>2. \A j \in 1..Len(left) : w[Len(s) + j] = left[j]
  BY DEF Joined
<1>3. Len(s) \in Nat /\ Len(w) \in Nat /\ Len(left) \in Nat
  OBVIOUS
<1>4. Len(w) = Len(s) + Len(left)
  BY DEF Joined
<1>5. Len(s) \in Nat /\ Len(w) \in Nat /\ Len(s) <= Len(w)
  BY <1>4, <1>3
<1>6. PICK q \in 0..Len(ps) :
         /\ at[q] <= Len(s) /\ HeldBack(s) = SubSeq(s, at[q] + 1, Len(s))
         /\ Len(Split(s)) = q /\ \A i \in 1..q : Split(s)[i] = Cut(ps[i])
  <2>1. Opens(s, w)
    BY <1>1, <1>5 DEF Opens
  <2> QED
    BY <2>1, SplitStream, ZenonT(40)
<1>7. PICK a \in Nat : a = at[q]
  BY DEF IsStream
<1>8. a <= Len(s)
  BY <1>6, <1>7
<1>9. /\ held \in Seq(X) /\ Len(held) = Len(s) - a
      /\ \A j \in 1..(Len(s) - a) : held[j] = s[a + j]
  <2>1. held = SubSeq(s, a + 1, Len(s))
    BY <1>6, <1>7
  <2> HIDE DEF held
  <2> QED
    BY <1>5, <1>8, <2>1, Behind
<1> HIDE DEF held
\* What is left of it begins behind the pictures that have been cut out.
<1>10. PICK v : v = held \o left
  OBVIOUS
<1>11. Len(v) = Len(w) - a /\ \A j \in 1..Len(v) : v[j] = w[a + j]
  <2> DEFINE B == Len(s) - a
  <2>1. B \in Nat /\ Len(held) = B /\ Len(left) \in Nat
    BY <1>5, <1>9, <1>8
  <2>2. /\ Len(v) = B + Len(left)
        /\ \A j \in 1..(B + Len(left)) :
             v[j] = IF j <= B THEN held[j] ELSE left[j - B]
    <3>1. held \in Seq(X) /\ left \in Seq(X)
      BY <1>9
    <3>2. /\ Len(held \o left) = Len(held) + Len(left)
          /\ \A j \in 1..(Len(held) + Len(left)) :
               (held \o left)[j] =
                 IF j <= Len(held) THEN held[j] ELSE left[j - Len(held)]
      BY <3>1, ConcatProperties
    <3> HIDE DEF B
    <3> QED
      BY <1>10, <2>1, <3>2
  <2>4. ASSUME NEW j \in 1..Len(v) PROVE v[j] = w[a + j]
    <3>1. CASE j <= B
      <4>1. j \in 1..(Len(s) - a) /\ a + j \in 1..Len(s) /\ j \in 1..(B + Len(left))
        BY <1>5, <1>8, <2>1, <2>2, <3>1
      <4> HIDE DEF B
      <4>2. v[j] = held[j]
        BY <2>2, <3>1, <4>1
      <4> QED
        BY <1>1, <1>9, <4>1, <4>2
    <3>2. CASE ~(j <= B)
      <4>1. /\ j - B \in 1..Len(left) /\ Len(s) + (j - B) = a + j
            /\ j \in 1..(B + Len(left))
        BY <1>5, <1>8, <2>1, <2>2, <3>2
      <4> HIDE DEF B
      <4>2. v[j] = left[j - B]
        BY <2>2, <3>2, <4>1
      <4>3. w[Len(s) + (j - B)] = left[j - B]
        BY <1>2, <4>1
      <4> QED
        BY <4>1, <4>2, <4>3
    <3> QED
      BY <3>1, <3>2
  <2>5. Len(v) = Len(w) - a
    BY <1>4, <1>5, <1>8, <2>1, <2>2
  <2> QED
    BY <2>4, <2>5
<1>12. PICK rest : IsStream(v, ps, q, rest)
  <2>1. at[q] = a
    BY <1>7
  <2> QED
    <3> DEFINE k == Len(w) - a
    <3>1. k \in Nat
      BY <1>5, <1>8
    <3>2. Len(v) = k /\ Len(w) = a + k
      BY <1>5, <1>11, <3>1
    <3>3. Len(v) \in Nat /\ Follows(w, a, v)
      BY <1>11, <3>1, <3>2 DEF Follows
    <3> QED
      BY <2>1, <3>3, StreamCut
<1> QED
  BY <1>6, <1>10, <1>12 DEF held

-----------------------------------------------------------------------------
(* The frames on their way: the pictures ps that ffmpeg has made and nobody has *)
(* published, the frames inside it and the one that the feeder is writing.      *)

Carried(ps, at) ==
  /\ Len(ready) <= Len(ps)
  /\ \A i \in 1..Len(ready) : ready[i] = Cut(ps[i])
  /\ IsStream(buf \o stdout, ps, Len(ready), at)

InLine(ps, line) ==
  /\ Len(line) = Len(ps) + Len(inside) + (IF feeder = "write" THEN 1 ELSE 0)
  /\ \A i \in 1..Len(ps) : line[i] = ps[i].frame
  /\ \A i \in 1..Len(inside) : line[Len(ps) + i] = inside[i]
  /\ feeder = "write" => line[Len(line)] = feeding

\* What will stand behind them.
Coming == (IF feeder = "push" THEN {feeding} ELSE {}) \cup ({slot} \ {0})

Before(f, line) ==
  /\ \A i \in 1..Len(line) : f < line[i]
  /\ \A c \in Coming : f < c

Ordered(line) ==
  /\ \A i, j \in 1..Len(line) : i < j => line[i] < line[j]
  /\ \A i \in 1..Len(line) : \A c \in Coming : line[i] < c
  /\ feeder = "push" /\ slot # 0 => feeding < slot

TrueStamp(u, f) == IF resets THEN u.capture = 0 \/ u.capture >= f ELSE u.capture = f

Sent(line) ==
  /\ Before(shown, line)
  /\ \A u \in latest : \E f \in 1..captured :
       /\ u.data = AccessUnit(f, u.keyframe) /\ Last(u.data).frame = f
       /\ shown < f /\ Before(f, line) /\ TrueStamp(u, f)

\* The queue of stamps ends where the line ends.
Stamped(line) ==
  /\ Len(fifo) <= Len(line)
  /\ \A i \in 1..Len(fifo) : fifo[i] = line[(Len(line) - Len(fifo)) + i]
  /\ ~resets => Len(fifo) = Len(line)

Flows(ps, at, line) ==
  /\ ps \in Seq(Pictures) /\ line \in Seq(1..captured)
  /\ Carried(ps, at) /\ InLine(ps, line)
  /\ Ordered(line) /\ Sent(line) /\ Stamped(line)

InOrder == \E ps, at, line : Flows(ps, at, line)

IInv == Types /\ (OneSlice => InOrder)

LEMMA FlowStart == Init => InOrder
<1> SUFFICES ASSUME Init PROVE InOrder
  OBVIOUS
<1> DEFINE e == <<>>
           at == [n \in 0..0 |-> 0]
<1>1. /\ \A S : e \in Seq(S)
      /\ Len(e) = 0 /\ e \o e = e
  OBVIOUS
<1>2. /\ slot = 0 /\ feeder = "first" /\ fifo = e /\ inside = e /\ stdout = e
      /\ buf = e /\ ready = e /\ latest = {}
  BY DEF Init
<1>3. at \in [0..0 -> Nat] /\ at[0] = 0
  OBVIOUS
<1> HIDE DEF e, at
<1>4. Carried(e, at)
  <2>1. IsStream(e, e, 0, at)
    BY <1>1, <1>3 DEF IsStream
  <2> QED
    BY <1>1, <1>2, <2>1 DEF Carried
<1>5. InLine(e, e)
  BY <1>1, <1>2 DEF InLine
<1>6. Coming = {}
  BY <1>2 DEF Coming
<1>7. Ordered(e) /\ Sent(e) /\ Stamped(e)
  BY <1>1, <1>2, <1>6 DEF Ordered, Sent, Stamped, Before
<1>8. Flows(e, at, e)
  BY <1>1, <1>4, <1>5, <1>7 DEF Flows
<1> QED
  BY <1>8 DEF InOrder

\* The step moves a frame along without changing the line.
LEMMA LineStays ==
  ASSUME Types, NEW line, Ordered(line), Sent(line), Stamped(line),
         Coming' \subseteq Coming,
         feeder' = "push" /\ slot' # 0 =>
           feeder = "push" /\ slot' = slot /\ feeding' = feeding,
         UNCHANGED <<captured, fifo, latest, resets, shown>>
  PROVE  Ordered(line)' /\ Sent(line)' /\ Stamped(line)'
<1>1. Ordered(line)'
  BY DEF Ordered
<1>2. ASSUME NEW f, Before(f, line) PROVE Before(f, line)'
  BY <1>2 DEF Before
<1>3. Sent(line)'
  BY <1>2 DEF Sent, TrueStamp
<1>4. Stamped(line)'
  BY DEF Stamped
<1> QED
  BY <1>1, <1>3, <1>4

LEMMA FlowTakes ==
  ASSUME Types, NEW ps, NEW at, NEW line, Flows(ps, at, line), FeederTakes
  PROVE  Flows(ps, at, line)'
<1>1. /\ feeder \in {"first", "idle"} /\ feeding' = slot /\ slot' = 0
      /\ feeder' = "push" => slot # 0
      /\ feeder' \in {"push", "done"}
      /\ UNCHANGED <<captured, fifo, resets, inside, sinceKey, stdout, buf, ready,
                     latest, shown, stop>>
  BY DEF FeederTakes
<1>2. Coming' \subseteq Coming
  BY <1>1 DEF Coming
<1>3. Ordered(line)' /\ Sent(line)' /\ Stamped(line)'
  BY <1>1, <1>2, LineStays DEF Flows
<1>4. Carried(ps, at)'
  BY <1>1 DEF Flows, Carried
<1>5. InLine(ps, line)'
  BY <1>1 DEF Flows, InLine
<1> QED
  BY <1>1, <1>3, <1>4, <1>5 DEF Flows

LEMMA FlowWrites ==
  ASSUME Types, NEW ps, NEW at, NEW line, Flows(ps, at, line), FeederWrites
  PROVE  Flows(ps, at, line)'
<1>1. /\ feeder = "write" /\ inside' = Append(inside, feeding) /\ feeder' = "idle"
      /\ UNCHANGED <<captured, slot, fifo, resets, stdout, buf, ready, latest, shown>>
  BY DEF FeederWrites
<1>2. Coming' \subseteq Coming
  BY <1>1 DEF Coming
<1>3. Ordered(line)' /\ Sent(line)' /\ Stamped(line)'
  BY <1>1, <1>2, LineStays DEF Flows
<1>4. Carried(ps, at)'
  BY <1>1 DEF Flows, Carried
<1>5. feeding \in 1..captured /\ inside \in Seq(1..captured)
  BY <1>1 DEF Types
<1>6. /\ Len(inside') = Len(inside) + 1 /\ inside'[Len(inside) + 1] = feeding
      /\ \A i \in 1..Len(inside) : inside'[i] = inside[i]
  BY <1>1, <1>5, AppendProperties
<1>7. /\ Len(line) = Len(ps) + Len(inside) + 1
      /\ \A i \in 1..Len(ps) : line[i] = ps[i].frame
      /\ \A i \in 1..Len(inside) : line[Len(ps) + i] = inside[i]
      /\ line[Len(line)] = feeding
  BY <1>1 DEF Flows, InLine
<1>8. Len(ps) \in Nat /\ Len(inside) \in Nat
  BY <1>5 DEF Flows
<1>9. Len(line) = Len(ps) + Len(inside')
  BY <1>6, <1>7, <1>8
<1>10. ASSUME NEW i \in 1..Len(inside') PROVE line[Len(ps) + i] = inside'[i]
  <2>1. CASE i \in 1..Len(inside)
    BY <1>6, <1>7, <2>1
  <2>2. CASE i = Len(inside) + 1
    <3>1. Len(ps) + i = Len(line)
      BY <1>7, <1>8, <2>2
    <3> QED
      BY <1>6, <1>7, <2>2, <3>1
  <2> QED
    BY <1>6, <1>8, <2>1, <2>2
<1>11. InLine(ps, line)'
  BY <1>1, <1>7, <1>8, <1>9, <1>10 DEF InLine
<1> QED
  BY <1>1, <1>3, <1>4, <1>11 DEF Flows

LEMMA FlowEncodes ==
  ASSUME OneSlice, Types, NEW ps, NEW at, NEW line, Flows(ps, at, line), Encode
  PROVE  InOrder'
<1>1. PICK p : p = [frame |-> Head(inside), key |-> (sinceKey = 0)]
  OBVIOUS
<1> DEFINE next == Append(ps, p)
<1>2. /\ inside # <<>> /\ inside' = Tail(inside)
      /\ stdout' = stdout \o AccessUnit(Head(inside), sinceKey = 0)
      /\ UNCHANGED <<captured, slot, feeder, feeding, fifo, resets, buf, ready,
                     latest, shown>>
  BY DEF Encode
<1>3. /\ ps \in Seq(Pictures) /\ line \in Seq(1..captured) /\ Len(ps) \in Nat
      /\ inside \in Seq(1..captured) /\ captured \in Nat /\ Len(inside) \in Nat
  BY EncoderAssumption DEF Flows, Types, EncoderAssumption
<1>4. /\ Head(inside) \in 1..captured /\ Len(inside') = Len(inside) - 1
      /\ \A i \in 1..Len(inside') : inside'[i] = inside[i + 1]
      /\ Head(inside) = inside[1]
  BY <1>2, <1>3, HeadTailProperties
<1>5. p \in Pictures
  BY <1>1, <1>3, <1>4 DEF Pictures
<1>6. /\ next \in Seq(Pictures) /\ Len(next) = Len(ps) + 1 /\ next[Len(ps) + 1] = p
      /\ \A i \in 1..Len(ps) : next[i] = ps[i]
  BY <1>3, <1>5, AppendProperties
<1>7. stdout' = stdout \o Unit(p)
  BY <1>1, <1>2 DEF Unit
<1> HIDE DEF next
<1>8. PICK more : IsStream(buf \o stdout', next, Len(ready), more)
  <2> DEFINE X == Tokens(captured)
  <2>1. buf \in Seq(X) /\ stdout \in Seq(X) /\ Len(ready) \in 0..Len(ps)
    BY <1>3 DEF Types, Flows, Carried
  <2>2. Unit(p) \in Seq(X)
    BY <1>1, <1>3, <1>4, UnitType DEF Unit
  <2>3. IsStream(buf \o stdout, ps, Len(ready), at)
    BY DEF Flows, Carried
  <2> HIDE DEF X
  <2>4. buf \o stdout \in Seq(X)
    BY <2>1, ConcatProperties
  <2>5. \E more : IsStream((buf \o stdout) \o Unit(p), next, Len(ready), more)
    <3>1. PICK w, r : w = buf \o stdout /\ r = Len(ready)
      OBVIOUS
    <3>2. w \in Seq(X) /\ r \in 0..Len(ps) /\ IsStream(w, ps, r, at)
      BY <2>1, <2>3, <2>4, <3>1
    <3>3. \E more : IsStream(w \o Unit(p), Append(ps, p), r, more)
      BY <1>3, <1>5, <2>2, <3>2, StreamGrows
    <3> QED
      BY <3>1, <3>3 DEF next
  <2>6. (buf \o stdout) \o Unit(p) = buf \o stdout'
    <3>1. (buf \o stdout) \o Unit(p) = buf \o (stdout \o Unit(p))
      BY <2>1, <2>2, ConcatAssociative
    <3> QED
      BY <1>7, <3>1
  <2> QED
    BY <2>5, <2>6
<1>9. Carried(next, more)'
  <2>1. Len(ready) \in Nat /\ Len(ready) <= Len(ps)
    BY DEF Types, Flows, Carried
  <2>2. \A i \in 1..Len(ready) : ready[i] = Cut(ps[i])
    BY DEF Flows, Carried
  <2>3. ASSUME NEW i \in 1..Len(ready) PROVE ready[i] = Cut(next[i])
    <3>1. i \in 1..Len(ps)
      BY <1>3, <2>1
    <3> QED
      BY <1>6, <2>2, <3>1
  <2>4. Len(ready) <= Len(next)
    BY <1>3, <1>6, <2>1
  <2> QED
    BY <1>2, <1>8, <2>3, <2>4 DEF Carried
<1>10. InLine(next, line)'
  <2>1. /\ Len(line) = Len(ps) + Len(inside) + (IF feeder = "write" THEN 1 ELSE 0)
        /\ \A i \in 1..Len(ps) : line[i] = ps[i].frame
        /\ \A i \in 1..Len(inside) : line[Len(ps) + i] = inside[i]
        /\ feeder = "write" => line[Len(line)] = feeding
    BY DEF Flows, InLine
  <2>2. p.frame = inside[1]
    BY <1>1, <1>4
  <2>3. 1 \in 1..Len(inside)
    BY <1>2, <1>3
  <2>4. Len(line) = Len(next) + Len(inside') + (IF feeder = "write" THEN 1 ELSE 0)
    BY <1>3, <1>4, <1>6, <2>1
  <2>5. ASSUME NEW i \in 1..Len(next) PROVE line[i] = next[i].frame
    <3>1. CASE i \in 1..Len(ps)
      BY <1>6, <2>1, <3>1
    <3>2. CASE i = Len(ps) + 1
      BY <1>6, <2>1, <2>2, <2>3, <3>2
    <3> QED
      BY <1>3, <1>6, <3>1, <3>2
  <2>6. ASSUME NEW i \in 1..Len(inside') PROVE line[Len(next) + i] = inside'[i]
    <3>1. i + 1 \in 1..Len(inside) /\ Len(next) + i = Len(ps) + (i + 1)
      BY <1>3, <1>4, <1>6
    <3>2. line[Len(ps) + (i + 1)] = inside[i + 1]
      BY <2>1, <3>1
    <3> QED
      BY <1>4, <3>1, <3>2
  <2> QED
    BY <1>2, <2>1, <2>4, <2>5, <2>6 DEF InLine
<1>11. Ordered(line)' /\ Sent(line)' /\ Stamped(line)'
  <2>1. Coming' \subseteq Coming
    BY <1>2 DEF Coming
  <2> QED
    BY <1>2, <2>1, LineStays DEF Flows
<1>12. Flows(next, more, line)'
  BY <1>2, <1>3, <1>6, <1>9, <1>10, <1>11 DEF Flows
<1> QED
  BY <1>12 DEF InOrder
LEMMA FlowCaptures ==
  ASSUME Types, NEW ps, NEW at, NEW line, Flows(ps, at, line), Capture
  PROVE  Flows(ps, at, line)'
<1>1. /\ captured' = captured + 1 /\ slot' = captured + 1 /\ captured \in Nat
      /\ UNCHANGED <<feeder, feeding, fifo, resets, inside, stdout, buf, ready,
                     latest, shown>>
  BY EncoderAssumption DEF Capture, Types, EncoderAssumption
<1>2. line \in Seq(1..captured) /\ Len(line) \in Nat
  BY DEF Flows
<1>3. \A i \in 1..Len(line) : line[i] \in 1..captured
  BY <1>2, ElementOfSeq
<1>4. line \in Seq(1..captured')
  <2>1. 1..captured \subseteq 1..captured'
    BY <1>1
  <2> QED
    BY <1>2, <2>1, SeqMonotonic
\* What comes is what came before, or the new frame, which is the newest.
<1>5. ASSUME NEW c \in Coming' PROVE c \in Coming \/ c = captured + 1
  BY <1>1 DEF Coming
<1>6. ASSUME NEW f \in 0..captured, Before(f, line) PROVE Before(f, line)'
  <2>1. ASSUME NEW c \in Coming' PROVE f < c
    <3>1. CASE c \in Coming
      BY <1>6, <3>1 DEF Before
    <3>2. CASE c = captured + 1
      BY <1>1, <3>2
    <3> QED
      BY <1>5, <3>1, <3>2
  <2> QED
    BY <1>6, <2>1 DEF Before
<1>7. Ordered(line)'
  <2>1. /\ \A i, j \in 1..Len(line) : i < j => line[i] < line[j]
        /\ \A i \in 1..Len(line) : \A c \in Coming : line[i] < c
    BY DEF Flows, Ordered
  <2>2. ASSUME NEW i \in 1..Len(line), NEW c \in Coming' PROVE line[i] < c
    <3>1. CASE c \in Coming
      BY <2>1, <3>1
    <3>2. CASE c = captured + 1
      BY <1>1, <1>3, <3>2
    <3> QED
      BY <1>5, <3>1, <3>2
  <2>3. feeding' < slot'
    BY <1>1 DEF Types
  <2> QED
    BY <2>1, <2>2, <2>3 DEF Ordered
<1>8. Sent(line)'
  <2>1. Before(shown, line)'
    BY <1>1, <1>6 DEF Flows, Sent, Types
  <2>2. ASSUME NEW u \in latest'
        PROVE  \E f \in 1..captured' :
                 /\ u.data = AccessUnit(f, u.keyframe) /\ Last(u.data).frame = f
                 /\ shown' < f /\ Before(f, line)' /\ TrueStamp(u, f)'
    <3>1. PICK f \in 1..captured :
            /\ u.data = AccessUnit(f, u.keyframe) /\ Last(u.data).frame = f
            /\ shown < f /\ Before(f, line) /\ TrueStamp(u, f)
      BY <1>1 DEF Flows, Sent
    <3>2. f \in 1..captured' /\ f \in 0..captured
      BY <1>1
    <3>3. Before(f, line)' /\ TrueStamp(u, f)'
      BY <1>1, <1>6, <3>1, <3>2 DEF TrueStamp
    <3> QED
      BY <1>1, <3>1, <3>2, <3>3
  <2> QED
    BY <2>1, <2>2 DEF Sent
<1>9. Carried(ps, at)' /\ InLine(ps, line)' /\ Stamped(line)'
  BY <1>1 DEF Flows, Carried, InLine, Stamped
<1> QED
  BY <1>4, <1>7, <1>8, <1>9 DEF Flows

LEMMA FlowPushes ==
  ASSUME Types, NEW ps, NEW at, NEW line, Flows(ps, at, line), FeederPushes
  PROVE  InOrder'
<1>1. PICK k : k = feeding
  OBVIOUS
<1> DEFINE longer == Append(line, k)
           L == Len(line)
<1>2. /\ feeder = "push" /\ feeder' = "write" /\ fifo' = Pushed(k)
      /\ resets' = (resets \/ Len(fifo) = FifoBound)
      /\ UNCHANGED <<captured, slot, feeding, inside, stdout, buf, ready, latest,
                     shown>>
  BY <1>1 DEF FeederPushes
<1>3. /\ k \in 1..captured /\ captured \in Nat /\ slot \in 0..captured
      /\ fifo \in Seq(1..captured) /\ Len(fifo) \in Nat /\ FifoBound \in Nat \ {0}
      /\ resets \in BOOLEAN
  BY <1>1, <1>2, EncoderAssumption DEF Types, EncoderAssumption
<1>4. line \in Seq(1..captured) /\ L \in Nat /\ \A i \in 1..L : line[i] \in 1..captured
  <2>1. line \in Seq(1..captured)
    BY DEF Flows
  <2>2. Len(line) \in Nat
    BY <2>1
  <2>3. \A i \in 1..Len(line) : line[i] \in 1..captured
    BY <2>1, ElementOfSeq
  <2> QED
    BY <2>1, <2>2, <2>3
<1>5. /\ longer \in Seq(1..captured) /\ Len(longer) = L + 1 /\ longer[L + 1] = k
      /\ \A i \in 1..L : longer[i] = line[i]
  BY <1>3, <1>4, AppendProperties
<1> HIDE DEF longer
<1>6. Coming = {k} \cup ({slot} \ {0}) /\ Coming' = {slot} \ {0}
  BY <1>1, <1>2 DEF Coming
<1>7. /\ \A i, j \in 1..L : i < j => line[i] < line[j]
      /\ \A i \in 1..L : \A c \in Coming : line[i] < c
      /\ slot # 0 => k < slot
  BY <1>1, <1>2 DEF Flows, Ordered
<1>8. Ordered(longer)'
  <2>1. ASSUME NEW i \in 1..(L + 1), NEW j \in 1..(L + 1), i < j
        PROVE  longer[i] < longer[j]
    <3>1. i \in 1..L
      BY <1>4, <2>1
    <3>2. CASE j \in 1..L
      BY <1>5, <1>7, <2>1, <3>1, <3>2
    <3>3. CASE j = L + 1
      BY <1>5, <1>6, <1>7, <3>1, <3>3
    <3> QED
      BY <1>4, <3>2, <3>3
  <2>2. ASSUME NEW i \in 1..(L + 1), NEW c \in Coming' PROVE longer[i] < c
    <3>1. CASE i \in 1..L
      BY <1>5, <1>6, <1>7, <3>1
    <3>2. CASE i = L + 1
      BY <1>5, <1>6, <1>7, <3>2
    <3> QED
      BY <1>4, <3>1, <3>2
  <2> QED
    BY <1>2, <1>5, <2>1, <2>2 DEF Ordered
<1>9. ASSUME NEW f, Before(f, line) PROVE Before(f, longer)'
  <2>1. (\A i \in 1..L : f < line[i]) /\ (\A c \in Coming : f < c)
    BY <1>9 DEF Before
  <2>2. ASSUME NEW i \in 1..(L + 1) PROVE f < longer[i]
    <3>1. CASE i \in 1..L
      BY <1>5, <2>1, <3>1
    <3>2. CASE i = L + 1
      BY <1>5, <1>6, <2>1, <3>2
    <3> QED
      BY <1>4, <3>1, <3>2
  <2> QED
    BY <1>5, <1>6, <2>1, <2>2 DEF Before
<1>10. Sent(longer)'
  <2>1. Before(shown, longer)'
    BY <1>2, <1>9 DEF Flows, Sent
  <2>2. ASSUME NEW u \in latest'
        PROVE  \E f \in 1..captured' :
                 /\ u.data = AccessUnit(f, u.keyframe) /\ Last(u.data).frame = f
                 /\ shown' < f /\ Before(f, longer)' /\ TrueStamp(u, f)'
    <3>1. PICK f \in 1..captured :
            /\ u.data = AccessUnit(f, u.keyframe) /\ Last(u.data).frame = f
            /\ shown < f /\ Before(f, line) /\ TrueStamp(u, f)
      BY <1>2 DEF Flows, Sent
    <3>2. TrueStamp(u, f)'
      BY <1>2, <1>3, <3>1 DEF TrueStamp
    <3> QED
      BY <1>2, <1>9, <3>1, <3>2
  <2> QED
    BY <2>1, <2>2 DEF Sent
<1>11. Stamped(longer)'
  <2>1. /\ Len(fifo) <= L
        /\ \A i \in 1..Len(fifo) : fifo[i] = line[(L - Len(fifo)) + i]
        /\ ~resets => Len(fifo) = L
    BY DEF Flows, Stamped
  <2>2. fifo' = IF Len(fifo) = FifoBound THEN <<k>> ELSE Append(fifo, k)
    BY <1>2 DEF Pushed
  <2>3. CASE Len(fifo) = FifoBound
    <3>1. fifo' = <<k>> /\ Len(fifo') = 1 /\ fifo'[1] = k
      BY <2>2, <2>3
    <3>2. resets' = TRUE
      BY <1>2, <2>3
    <3>3. (L + 1 - 1) + 1 = L + 1 /\ 1 <= L + 1
      BY <1>4
    <3>4. \A i \in 1..1 : fifo'[i] = longer[(L + 1 - 1) + i]
      BY <1>5, <3>1, <3>3
    <3> QED
      BY <1>5, <3>1, <3>2, <3>3, <3>4 DEF Stamped
  <2>4. CASE Len(fifo) # FifoBound
    <3>1. fifo' = Append(fifo, k)
      BY <2>2, <2>4
    <3>2. /\ Len(fifo') = Len(fifo) + 1 /\ fifo'[Len(fifo) + 1] = k
          /\ \A i \in 1..Len(fifo) : fifo'[i] = fifo[i]
      BY <1>3, <3>1, AppendProperties
    <3>3. Len(longer) - Len(fifo') = L - Len(fifo) /\ L - Len(fifo) \in Nat
      BY <1>3, <1>4, <1>5, <2>1, <3>2
    <3>4. ASSUME NEW i \in 1..Len(fifo')
          PROVE  fifo'[i] = longer[(Len(longer) - Len(fifo')) + i]
      <4>1. CASE i \in 1..Len(fifo)
        <5>1. (L - Len(fifo)) + i \in 1..L
          BY <1>3, <1>4, <2>1, <4>1
        <5>2. fifo'[i] = line[(L - Len(fifo)) + i]
          BY <2>1, <3>2, <4>1
        <5> QED
          BY <1>5, <3>3, <5>1, <5>2
      <4>2. CASE i = Len(fifo) + 1
        <5>1. (L - Len(fifo)) + i = L + 1
          BY <1>3, <1>4, <4>2
        <5> QED
          BY <1>5, <3>2, <3>3, <4>2, <5>1
      <4> QED
        BY <1>3, <3>2, <4>1, <4>2
    <3>5. Len(fifo') <= Len(longer)
      BY <1>3, <1>4, <1>5, <2>1, <3>2
    <3>6. ~resets' => Len(fifo') = Len(longer)
      BY <1>2, <1>5, <2>1, <3>2
    <3> QED
      BY <3>4, <3>5, <3>6 DEF Stamped
  <2> QED
    BY <2>3, <2>4
<1>12. InLine(ps, longer)'
  <2>1. /\ L = Len(ps) + Len(inside)
        /\ \A i \in 1..Len(ps) : line[i] = ps[i].frame
        /\ \A i \in 1..Len(inside) : line[Len(ps) + i] = inside[i]
    <3>1. Len(ps) \in Nat /\ Len(inside) \in Nat
      BY DEF Flows, Types
    <3> QED
      BY <1>2, <3>1 DEF Flows, InLine
  <2>2. Len(ps) \in Nat /\ Len(inside) \in Nat
    BY DEF Flows, Types
  <2>3. ASSUME NEW i \in 1..Len(ps) PROVE longer[i] = ps[i].frame
    <3>1. i \in 1..L
      BY <2>1, <2>2
    <3> QED
      BY <1>5, <2>1, <3>1
  <2>4. ASSUME NEW i \in 1..Len(inside) PROVE longer[Len(ps) + i] = inside[i]
    <3>1. Len(ps) + i \in 1..L
      BY <2>1, <2>2
    <3> QED
      BY <1>5, <2>1, <3>1
  <2>5. Len(longer) = Len(ps) + Len(inside) + 1 /\ longer[Len(longer)] = feeding
    BY <1>1, <1>4, <1>5, <2>1
  <2> QED
    BY <1>2, <2>3, <2>4, <2>5 DEF InLine
<1>13. Carried(ps, at)'
  BY <1>2 DEF Flows, Carried
<1>14. Flows(ps, at, longer)'
  BY <1>2, <1>5, <1>8, <1>10, <1>11, <1>12, <1>13 DEF Flows
<1>15. \E ghost : Flows(ps, at, ghost)'
  BY <1>14
<1> QED
  BY <1>15 DEF InOrder
LEMMA FlowReads ==
  ASSUME OneSlice, Types, NEW ps, NEW at, NEW line, Flows(ps, at, line), ReadChunk
  PROVE  InOrder'
<1> DEFINE X == Tokens(captured)
<1>1. PICK n \in 1..Len(stdout) :
        LET s == buf \o SubSeq(stdout, 1, n)
        IN /\ stdout' = SubSeq(stdout, n + 1, Len(stdout))
           /\ ready' = Split(s) /\ buf' = HeldBack(s)
  BY DEF ReadChunk
<1> DEFINE s == buf \o SubSeq(stdout, 1, n)
           left == SubSeq(stdout, n + 1, Len(stdout))
<1>2. /\ stdout' = left /\ ready' = Split(s) /\ buf' = HeldBack(s)
      /\ ready = <<>>
      /\ UNCHANGED <<captured, slot, feeder, feeding, fifo, resets, inside, latest, shown>>
  BY <1>1 DEF ReadChunk
<1>3. /\ buf \in Seq(X) /\ stdout \in Seq(X) /\ ps \in Seq(Pictures) /\ Len(ps) \in Nat
      /\ IsStream(buf \o stdout, ps, 0, at)
  <2>1. Len(ready) = 0
    BY <1>2
  <2> QED
    BY <2>1 DEF Types, Flows, Carried
<1> HIDE DEF X
<1>4. s \in Seq(X) /\ left \in Seq(X) /\ buf \o stdout \in Seq(X)
      /\ Joined(buf \o stdout, s, left)
  BY <1>3, TwoParts
<1> HIDE DEF s, left
<1>5. PICK q \in 0..Len(ps) :
        /\ Len(Split(s)) = q /\ \A i \in 1..q : Split(s)[i] = Cut(ps[i])
        /\ \E rest : IsStream(HeldBack(s) \o left, ps, q, rest)
  BY <1>3, <1>4, ReadStream
<1>6. PICK rest : IsStream(HeldBack(s) \o left, ps, q, rest)
  BY <1>5
<1>7. Carried(ps, rest)'
  <2>1. Len(ready') = q /\ q <= Len(ps) /\ \A i \in 1..q : ready'[i] = Cut(ps[i])
    BY <1>2, <1>3, <1>5
  <2> QED
    BY <1>2, <1>6, <2>1 DEF Carried
<1>8. InLine(ps, line)'
  BY <1>2 DEF Flows, InLine
<1>9. Ordered(line)' /\ Sent(line)' /\ Stamped(line)'
  <2>1. Coming' \subseteq Coming
    BY <1>2 DEF Coming
  <2> QED
    BY <1>2, <2>1, LineStays DEF Flows
<1>10. Flows(ps, rest, line)'
  BY <1>2, <1>7, <1>8, <1>9 DEF Flows
<1>11. \E ghost : Flows(ps, ghost, line)'
  BY <1>10
<1> QED
  BY <1>11 DEF InOrder
\* The frame of a picture stands at its end.
LEMMA LastFrame ==
  ASSUME OneSlice, NEW p \in Pictures
  PROVE  Last(Unit(p)).frame = p.frame
<1>1. Len(Unit(p)) = Size(p) /\ Size(p) \in 1..Size(p)
  BY UnitIs DEF Size
<1>2. Last(Unit(p)) = Unit(p)[Size(p)]
  BY <1>1 DEF Last
<1> QED
  BY <1>1, <1>2, UnitParts

LEMMA FlowPublishes ==
  ASSUME OneSlice, Types, NEW ps, NEW at, NEW line, Flows(ps, at, line), Publish
  PROVE  InOrder'
<1> DEFINE fewer == Tail(ps)
           shorter == Tail(line)
           L == Len(line)
           F == Len(fifo)
<1>1. /\ ready # <<>> /\ ready' = Tail(ready)
      /\ latest' = {[keyframe |-> Head(ready).keyframe, capture |-> Popped,
                     data |-> Head(ready).data]}
      /\ fifo' = IF fifo = <<>> THEN <<>> ELSE Tail(fifo)
      /\ UNCHANGED <<captured, slot, feeder, feeding, resets, inside, stdout, buf,
                     shown>>
  BY DEF Publish
<1>2. /\ ps \in Seq(Pictures) /\ line \in Seq(1..captured) /\ fifo \in Seq(1..captured)
      /\ ready \in Seq(Units(captured)) /\ captured \in Nat /\ resets \in BOOLEAN
      /\ Len(ps) \in Nat /\ L \in Nat /\ F \in Nat /\ Len(ready) \in Nat /\ Len(inside) \in Nat
  BY EncoderAssumption DEF Flows, Types, EncoderAssumption
<1>3. /\ Len(ready) <= Len(ps) /\ \A i \in 1..Len(ready) : ready[i] = Cut(ps[i])
      /\ IsStream(buf \o stdout, ps, Len(ready), at)
  BY DEF Flows, Carried
<1>4. /\ L = Len(ps) + Len(inside) + (IF feeder = "write" THEN 1 ELSE 0)
      /\ \A i \in 1..Len(ps) : line[i] = ps[i].frame
      /\ \A i \in 1..Len(inside) : line[Len(ps) + i] = inside[i]
      /\ feeder = "write" => line[L] = feeding
  BY DEF Flows, InLine
<1>5. Len(ready) >= 1 /\ Len(ps) >= 1 /\ L >= 1
  <2>1. Len(ready) >= 1
    BY <1>1, <1>2
  <2> QED
    BY <1>2, <1>3, <1>4, <2>1
<1>6. /\ Len(ready') = Len(ready) - 1
      /\ \A i \in 1..Len(ready') : ready'[i] = ready[i + 1]
      /\ Head(ready) = ready[1]
  BY <1>1, <1>2, HeadTailProperties
<1>7. /\ fewer \in Seq(Pictures) /\ Len(fewer) = Len(ps) - 1
      /\ \A i \in 1..Len(fewer) : fewer[i] = ps[i + 1]
  <2>1. ps # <<>>
    BY <1>5
  <2> QED
    BY <1>2, <2>1, HeadTailProperties
<1>8. /\ shorter \in Seq(1..captured) /\ Len(shorter) = L - 1
      /\ \A i \in 1..Len(shorter) : shorter[i] = line[i + 1]
  <2>1. line # <<>>
    BY <1>5
  <2> QED
    BY <1>2, <2>1, HeadTailProperties
<1>9. ps[1] \in Pictures /\ line[1] \in 1..captured /\ \A i \in 1..L : line[i] \in Nat
  <2>1. 1 \in 1..Len(ps) /\ 1 \in 1..L
    BY <1>2, <1>5
  <2>2. \A i \in 1..L : line[i] \in 1..captured
    BY <1>2, ElementOfSeq
  <2> QED
    BY <1>2, <2>1, <2>2, ElementOfSeq
<1>10. PICK less : IsStream(buf \o stdout, fewer, Len(ready) - 1, less)
  <2>1. Len(ready) \in 1..Len(ps)
    BY <1>2, <1>3, <1>5
  <2> QED
    BY <1>2, <1>3, <2>1, StreamDrops
<1> HIDE DEF fewer, shorter
<1>11. Carried(fewer, less)'
  <2>1. ASSUME NEW i \in 1..Len(ready') PROVE ready'[i] = Cut(fewer[i])
    <3>1. i + 1 \in 1..Len(ready) /\ i \in 1..Len(fewer)
      BY <1>2, <1>3, <1>6, <1>7
    <3> QED
      BY <1>3, <1>6, <1>7, <3>1
  <2>2. Len(ready') <= Len(fewer)
    BY <1>2, <1>3, <1>6, <1>7
  <2> QED
    BY <1>1, <1>6, <1>10, <2>1, <2>2 DEF Carried
<1>12. InLine(fewer, shorter)'
  <2>1. Len(shorter) = Len(fewer) + Len(inside) + (IF feeder = "write" THEN 1 ELSE 0)
    BY <1>2, <1>4, <1>7, <1>8
  <2>2. ASSUME NEW i \in 1..Len(fewer) PROVE shorter[i] = fewer[i].frame
    <3>1. i + 1 \in 1..Len(ps) /\ i \in 1..Len(shorter)
      BY <1>2, <1>7, <2>1
    <3> QED
      BY <1>4, <1>7, <1>8, <3>1
  <2>3. ASSUME NEW i \in 1..Len(inside) PROVE shorter[Len(fewer) + i] = inside[i]
    <3>1. Len(fewer) + i \in 1..Len(shorter) /\ (Len(fewer) + i) + 1 = Len(ps) + i
      <4>1. Len(fewer) + Len(inside) <= Len(shorter) /\ Len(shorter) \in Nat
        BY <1>2, <1>5, <1>7, <1>8, <2>1
      <4>2. Len(fewer) \in Nat /\ i \in Nat /\ 1 <= i /\ i <= Len(inside)
        BY <1>2, <1>5, <1>7
      <4> QED
        BY <1>2, <1>7, <4>1, <4>2
    <3> QED
      BY <1>4, <1>8, <3>1
  <2>4. ASSUME feeder = "write" PROVE shorter[Len(shorter)] = feeding
    <3>1. Len(shorter) \in 1..Len(shorter) /\ Len(shorter) + 1 = L
      BY <1>2, <1>5, <1>7, <1>8, <2>1, <2>4
    <3> QED
      BY <1>4, <1>8, <2>4, <3>1
  <2> QED
    BY <1>1, <2>1, <2>2, <2>3, <2>4 DEF InLine
<1>13. Coming' = Coming
  BY <1>1 DEF Coming
<1>14. /\ \A i, j \in 1..L : i < j => line[i] < line[j]
       /\ \A i \in 1..L : \A c \in Coming : line[i] < c
       /\ feeder = "push" /\ slot # 0 => feeding < slot
  BY DEF Flows, Ordered
<1>15. ASSUME NEW i \in 1..Len(shorter)
       PROVE  i + 1 \in 1..L /\ 1 \in 1..L /\ 1 < i + 1 /\ shorter[i] = line[i + 1]
  BY <1>2, <1>8
<1>16. Ordered(shorter)'
  <2>1. ASSUME NEW i \in 1..Len(shorter), NEW j \in 1..Len(shorter), i < j
        PROVE  shorter[i] < shorter[j]
    <3>1. i + 1 < j + 1
      BY <2>1
    <3> QED
      BY <1>14, <1>15, <3>1
  <2>2. ASSUME NEW i \in 1..Len(shorter), NEW c \in Coming PROVE shorter[i] < c
    BY <1>14, <1>15
  <2> QED
    BY <1>1, <1>13, <1>14, <2>1, <2>2 DEF Ordered
\* Every frame that is shown before the line is shown before what is left of it, and
\* so is the head of the line.
<1>17. ASSUME NEW f, Before(f, line) PROVE Before(f, shorter)'
  BY <1>13, <1>15, <1>17 DEF Before
<1>18. PICK f \in 1..captured : f = line[1]
  BY <1>9
<1>19. Before(f, shorter)'
  <2>1. ASSUME NEW i \in 1..Len(shorter) PROVE f < shorter[i]
    BY <1>14, <1>15, <1>18
  <2>2. ASSUME NEW c \in Coming PROVE f < c
    <3>1. 1 \in 1..L
      BY <1>2, <1>5
    <3> QED
      BY <1>14, <1>18, <3>1
  <2> QED
    BY <1>13, <2>1, <2>2 DEF Before
<1>20. Before(shown, line) /\ shown < f
  <2>1. Before(shown, line)
    BY DEF Flows, Sent
  <2>2. 1 \in 1..L
    BY <1>2, <1>5
  <2> QED
    BY <1>18, <2>1, <2>2 DEF Before
\* The stamp.
<1>21. /\ F <= L
       /\ \A i \in 1..F : fifo[i] = line[(L - F) + i]
       /\ ~resets => F = L
  BY DEF Flows, Stamped
<1>22. IF resets THEN Popped = 0 \/ Popped >= f ELSE Popped = f
  <2>1. CASE fifo = <<>>
    <3>1. Popped = 0 /\ F = 0
      BY <2>1 DEF Popped
    <3>2. resets
      BY <1>2, <1>5, <1>21, <3>1
    <3> QED
      BY <3>1, <3>2
  <2>2. CASE fifo # <<>>
    <3>1. F >= 1 /\ Popped = fifo[1]
      BY <1>2, <2>2 DEF Popped
    <3>2. Popped = line[(L - F) + 1] /\ (L - F) + 1 \in 1..L
      BY <1>2, <1>21, <3>1
    <3>3. CASE F = L
      <4>1. (L - F) + 1 = 1
        BY <1>2, <3>3
      <4> QED
        BY <1>18, <3>2, <4>1
    <3>4. CASE F # L
      <4>1. resets /\ 1 < (L - F) + 1 /\ 1 \in 1..L
        BY <1>2, <1>5, <1>21, <3>4
      <4>2. f < Popped
        BY <1>14, <1>18, <3>2, <4>1
      <4>3. Popped \in Nat
        BY <1>9, <3>2
      <4> QED
        BY <4>1, <4>2, <4>3
    <3> QED
      BY <3>3, <3>4
  <2> QED
    BY <2>1, <2>2
<1>23. Sent(shorter)'
  <2>1. Before(shown, shorter)'
    BY <1>1, <1>17, <1>20
  <2>2. ASSUME NEW u \in latest'
        PROVE  \E g \in 1..captured' :
                 /\ u.data = AccessUnit(g, u.keyframe) /\ Last(u.data).frame = g
                 /\ shown' < g /\ Before(g, shorter)' /\ TrueStamp(u, g)'
    <3>1. /\ u.keyframe = Head(ready).keyframe /\ u.data = Head(ready).data
          /\ u.capture = Popped
      BY <1>1, <2>2
    <3>2. 1 \in 1..Len(ready) /\ 1 \in 1..Len(ps)
      BY <1>2, <1>5
    <3>3. Head(ready) = Cut(ps[1])
      BY <1>3, <1>6, <3>2
    <3>4. u.keyframe = ps[1].key /\ u.data = Unit(ps[1])
      BY <3>1, <3>3 DEF Cut
    <3>5. ps[1].frame = f
      BY <1>4, <1>18, <3>2
    <3>6. u.data = AccessUnit(f, u.keyframe)
      BY <3>4, <3>5 DEF Unit
    <3>7. Last(u.data).frame = f
      BY <1>9, <3>4, <3>5, LastFrame
    <3>8. TrueStamp(u, f)'
      BY <1>1, <1>22, <3>1 DEF TrueStamp
    <3> QED
      BY <1>1, <1>19, <1>20, <3>6, <3>7, <3>8
  <2> QED
    BY <2>1, <2>2 DEF Sent
<1>24. Stamped(shorter)'
  <2>1. CASE fifo = <<>>
    <3>1. Len(fifo') = 0 /\ F = 0
      BY <1>1, <2>1
    <3>2. resets
      BY <1>2, <1>5, <1>21, <3>1
    <3> QED
      BY <1>1, <1>2, <1>5, <1>8, <3>1, <3>2 DEF Stamped
  <2>2. CASE fifo # <<>>
    <3>1. /\ Len(fifo') = F - 1 /\ \A i \in 1..Len(fifo') : fifo'[i] = fifo[i + 1]
          /\ F >= 1
      BY <1>1, <1>2, <2>2, HeadTailProperties
    <3>2. Len(fifo') <= Len(shorter) /\ (~resets => Len(fifo') = Len(shorter))
      BY <1>2, <1>8, <1>21, <3>1
    <3>3. ASSUME NEW i \in 1..Len(fifo')
          PROVE  fifo'[i] = shorter[(Len(shorter) - Len(fifo')) + i]
      <4>1. /\ i + 1 \in 1..F /\ Len(shorter) - Len(fifo') = L - F
            /\ (L - F) + i \in 1..Len(shorter) /\ ((L - F) + i) + 1 = (L - F) + (i + 1)
        <5>1. /\ i \in Nat /\ 1 <= i /\ i <= F - 1 /\ F <= L /\ F \in Nat /\ L \in Nat
              /\ Len(shorter) = L - 1 /\ Len(fifo') = F - 1
          BY <1>2, <1>8, <1>21, <3>1
        <5> HIDE DEF L, F
        <5> QED
          BY <5>1
      <4> QED
        BY <1>8, <1>21, <3>1, <4>1
    <3> QED
      BY <1>1, <3>2, <3>3 DEF Stamped
  <2> QED
    BY <2>1, <2>2
<1>25. Flows(fewer, less, shorter)'
  BY <1>1, <1>7, <1>8, <1>11, <1>12, <1>16, <1>23, <1>24 DEF Flows
<1>26. \E front, back : Flows(front, less, back)'
  BY <1>25
<1> QED
  BY <1>26 DEF InOrder

LEMMA FlowSends ==
  ASSUME Types, NEW ps, NEW at, NEW line, Flows(ps, at, line), SendLatest
  PROVE  Flows(ps, at, line)'
<1>1. /\ latest' = {} /\ latest # {} /\ \E u \in latest : shown' = Last(u.data).frame
      /\ UNCHANGED <<captured, slot, feeder, feeding, fifo, resets, inside, stdout,
                     buf, ready>>
  BY DEF SendLatest
<1>2. PICK u \in latest : shown' = Last(u.data).frame
  BY <1>1
<1>3. PICK f \in 1..captured : f = Last(u.data).frame /\ Before(f, line)
  BY DEF Flows, Sent
<1>4. Before(f, line)'
  BY <1>1, <1>3 DEF Before, Coming
<1>5. Sent(line)'
  BY <1>1, <1>2, <1>3, <1>4 DEF Sent
<1>6. Carried(ps, at)' /\ InLine(ps, line)' /\ Stamped(line)'
  BY <1>1 DEF Flows, Carried, InLine, Stamped
<1>7. Ordered(line)'
  BY <1>1 DEF Flows, Ordered, Coming
<1> QED
  BY <1>1, <1>5, <1>6, <1>7 DEF Flows

\* A step that touches none of it: the stage is told to stop, or nothing happens.
LEMMA FlowRests ==
  ASSUME Types, NEW ps, NEW at, NEW line, Flows(ps, at, line),
         UNCHANGED <<captured, slot, feeder, feeding, fifo, resets, inside, stdout, buf,
                     ready, latest, shown>>
  PROVE  Flows(ps, at, line)'
<1>1. Coming' = Coming
  BY DEF Coming
<1>2. Ordered(line)' /\ Sent(line)' /\ Stamped(line)'
  BY <1>1, LineStays DEF Flows
<1>3. Carried(ps, at)' /\ InLine(ps, line)'
  BY DEF Flows, Carried, InLine
<1> QED
  BY <1>2, <1>3 DEF Flows

LEMMA FlowKept ==
  ASSUME OneSlice, Types, InOrder, [Next]_vars
  PROVE  InOrder'
<1>1. PICK ps, at, line : Flows(ps, at, line)
  BY DEF InOrder
<1>2. ASSUME Flows(ps, at, line)' PROVE InOrder'
  <2>1. \E p, a, l : Flows(p, a, l)'
    BY <1>2
  <2> QED
    BY <2>1 DEF InOrder
<1>3. CASE Capture
  BY <1>1, <1>2, <1>3, FlowCaptures
<1>4. CASE FeederTakes
  BY <1>1, <1>2, <1>4, FlowTakes
<1>5. CASE FeederPushes
  BY <1>1, <1>5, FlowPushes
<1>6. CASE FeederWrites
  BY <1>1, <1>2, <1>6, FlowWrites
<1>7. CASE Encode
  BY <1>1, <1>7, FlowEncodes
<1>8. CASE ReadChunk
  BY <1>1, <1>8, FlowReads
<1>9. CASE Publish
  BY <1>1, <1>9, FlowPublishes
<1>10. CASE SendLatest
  BY <1>1, <1>2, <1>10, FlowSends
<1>11. CASE StopStage \/ UNCHANGED vars
  <2>1. UNCHANGED <<captured, slot, feeder, feeding, fifo, resets, inside, stdout, buf,
                    ready, latest, shown>>
    BY <1>11 DEF StopStage, vars
  <2> QED
    BY <1>1, <1>2, <2>1, FlowRests
<1> QED
  BY <1>3, <1>4, <1>5, <1>6, <1>7, <1>8, <1>9, <1>10, <1>11 DEF Next
-----------------------------------------------------------------------------
(* The invariant of the stage, and what follows from it. *)

LEMMA Invariance == Spec => []IInv
<1>1. Init => IInv
  BY TypesStart, FlowStart DEF IInv
<1>2. IInv /\ [Next]_vars => IInv'
  <2> SUFFICES ASSUME IInv, [Next]_vars PROVE IInv'
    OBVIOUS
  <2>1. Types /\ (OneSlice => InOrder)
    BY DEF IInv
  <2>2. Types'
    <3>1. CASE Capture
      BY <2>1, <3>1, TypesGrow
    <3>2. CASE UNCHANGED vars
      BY <2>1, <3>2 DEF vars, Types
    <3> QED
      BY <2>1, <3>1, <3>2, TypesKept DEF Next
  <2>3. OneSlice => InOrder'
    BY <2>1, FlowKept
  <2>4. OneSlice' <=> OneSlice
    BY DEF OneSlice
  <2> QED
    BY <2>2, <2>3, <2>4 DEF IInv
<1> QED
  BY <1>1, <1>2, PTL DEF Spec

\* A list of a set's members has no others.
LEMMA RangeType ==
  ASSUME NEW S, NEW s \in Seq(S)
  PROVE  Range(s) \subseteq S
<1> SUFFICES ASSUME NEW x \in Range(s) PROVE x \in S
  OBVIOUS
<1>1. DOMAIN s = 1..Len(s)
  OBVIOUS
<1>2. PICK i \in 1..Len(s) : x = s[i]
  BY <1>1 DEF Range
<1> QED
  BY <1>2, ElementOfSeq

\* Everything stays within its bounds: the queue of stamps never exceeds
\* FIFO_DESYNC_BOUND, ffmpeg's count of pictures never reaches the keyframe
\* interval, and no frame is on its way that was not captured (encode.rs,
\* TimestampFifo, AnnexBSplitter), whatever the number of slices.
THEOREM TypeCorrect == Spec => []TypeOK
<1>1. IInv => TypeOK
  <2> SUFFICES ASSUME Types PROVE TypeOK
    BY DEF IInv
  <2>1. captured \in 0..MaxFrame /\ fifo \in Seq(1..captured)
    BY DEF Types
  <2>2. Range(fifo) \subseteq 1..captured
    BY <2>1, RangeType
  <2>3. FramesIn(stdout \o buf) \subseteq 1..captured
    <3>1. stdout \o buf \in Seq(Tokens(captured))
      BY ConcatProperties DEF Types
    <3>2. \A i \in 1..Len(stdout \o buf) : (stdout \o buf)[i] \in Tokens(captured)
      BY <3>1, ElementOfSeq
    <3>3. \A x \in Tokens(captured) : x.frame \in 1..captured
      BY DEF Tokens
    <3> QED
      BY <3>2, <3>3 DEF FramesIn
  <2> QED
    BY <2>2, <2>3 DEF Types, TypeOK
<1> QED
  BY <1>1, Invariance, PTL

\* However ffmpeg's output is cut by the reads of the pipe, AnnexBSplitter gives out
\* the whole access unit of one frame, with its parameter sets if it is a keyframe,
\* and calls it one if and only if it is: for every encoder that makes one slice of
\* a picture.
THEOREM WholeUnits == OneSlice => (Spec => []WholeFrames)
<1> SUFFICES ASSUME OneSlice PROVE Spec => []WholeFrames
  OBVIOUS
<1>1. IInv => WholeFrames
  <2> SUFFICES ASSUME Types, InOrder, NEW u \in latest \cup Range(ready)
               PROVE  \E k \in 1..captured : u.data = AccessUnit(k, u.keyframe)
    BY DEF IInv, WholeFrames
  <2>1. PICK ps, at, line : Flows(ps, at, line)
    BY DEF InOrder
  <2>2. CASE u \in latest
    BY <2>1, <2>2 DEF Flows, Sent
  <2>3. CASE u \in Range(ready)
    <3>1. ready \in Seq(Units(captured))
      BY DEF Types
    <3>2. DOMAIN ready = 1..Len(ready) /\ Len(ready) \in Nat
      BY <3>1
    <3>3. PICK i \in 1..Len(ready) : u = ready[i]
      BY <2>3, <3>2 DEF Range
    <3>4. /\ ps \in Seq(Pictures) /\ line \in Seq(1..captured)
          /\ Len(ready) <= Len(ps) /\ ready[i] = Cut(ps[i])
      BY <2>1 DEF Flows, Carried
    <3>5. i \in 1..Len(ps) /\ i \in 1..Len(line)
      <4>1. Len(ps) <= Len(line)
        <5>1. Len(inside) \in Nat /\ Len(ps) \in Nat
          BY <3>4 DEF Types
        <5> QED
          BY <2>1, <5>1 DEF Flows, InLine
      <4>2. Len(ps) \in Nat /\ Len(line) \in Nat
        BY <3>4
      <4> QED
        BY <3>2, <3>4, <4>1, <4>2
    <3>6. line[i] = ps[i].frame /\ line[i] \in 1..captured
      <4>1. line[i] \in 1..captured
        BY <3>4, <3>5, ElementOfSeq
      <4> QED
        BY <2>1, <3>5, <4>1 DEF Flows, InLine
    <3>7. u.data = AccessUnit(ps[i].frame, u.keyframe)
      BY <3>3, <3>4 DEF Cut, Unit
    <3> QED
      BY <3>6, <3>7
  <2> QED
    BY <2>2, <2>3
<1> QED
  BY <1>1, Invariance, PTL

\* The time TimestampFifo::pop gives a unit is the capture time of its own frame as
\* long as the queue was never cleared, and after that it is unknown or too late:
\* the latency the client is shown is never overstated.
THEOREM StampsMatch == OneSlice => (Spec => []StampsAreTrue)
<1> SUFFICES ASSUME OneSlice PROVE Spec => []StampsAreTrue
  OBVIOUS
<1>1. IInv => StampsAreTrue
  BY DEF IInv, InOrder, Flows, Sent, TrueStamp, StampsAreTrue
<1> QED
  BY <1>1, Invariance, PTL

\* No picture is sent twice or behind a newer one: FrameSlot, the feeder, ffmpeg and
\* LatestEncoded hand on each frame once, in the order of capture.
THEOREM NewestLast == OneSlice => (Spec => []OnlyNewPictures)
<1> SUFFICES ASSUME OneSlice PROVE Spec => []OnlyNewPictures
  OBVIOUS
<1>1. IInv => OnlyNewPictures
  <2> SUFFICES ASSUME InOrder, NEW u \in latest PROVE Last(u.data).frame > shown
    BY DEF IInv, OnlyNewPictures
  <2>1. PICK ps, at, line : Flows(ps, at, line)
    BY DEF InOrder
  <2>2. PICK f \in 1..captured : Last(u.data).frame = f /\ shown < f
    BY <2>1 DEF Flows, Sent
  <2> QED
    BY <2>2
<1> QED
  BY <1>1, Invariance, PTL
===============================================================================
