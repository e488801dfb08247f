-------------------------- MODULE DhcpWireProofs --------------------------
(***************************************************************************)
(* Theorems about DHCP messages on the wire, for every length of a         *)
(* fragment, all data, every header and every size of an answer.           *)
(*                                                                         *)
(* The properties are about what parseOptions makes of octets that were    *)
(* written fragment by fragment and cut off anywhere.  They are proved     *)
(* from what octets mean wherever they stand: Written says that what is    *)
(* put behind an area is read next (or, behind an end mark, never), and    *)
(* that every cut of it is read as the fragments that end before the cut.  *)
(* Neither can be seen in one state of a run, so that WireInv is an        *)
(* invariant for the proofs only.                                          *)
(*                                                                         *)
(* Parsing and joining are recursive functions, and what they compute is   *)
(* proved by induction: over sets of numbers and of sequences instead of   *)
(* predicates, from the well-foundedness of < on Nat.                      *)
(***************************************************************************)
EXTENDS DhcpWire, SequenceTheorems, WellFoundedInduction, TLAPS

-----------------------------------------------------------------------------
(* Induction, over sets instead of predicates: a predicate is the set of the *)
(* values it holds of.                                                     *)

\* Every set of numbers has a smallest one.
LEMMA Smallest ==
    ASSUME NEW S, S \subseteq Nat, S # {}
    PROVE  \E m \in S : \A n \in S : m <= n
<1>. DEFINE Below == OpToRel(<, Nat)
<1>1. IsWellFoundedOn(Below, Nat)
  BY NatLessThanWellFounded
<1>2. \A x, y \in Nat : <<y, x>> \in Below <=> y < x
  BY DEF OpToRel
<1>. HIDE DEF Below
<1>3. PICK m \in S : \A n \in S : <<n, m>> \notin Below
  BY <1>1, WFMin
<1>4. \A n \in S : ~(n < m)
  BY <1>2, <1>3
<1>5. \A n \in S : m <= n
  BY <1>4
<1>. QED
  BY <1>5

\* A set that has a number as soon as it has all smaller ones has all.
LEMMA Induction ==
    ASSUME NEW S, \A n \in Nat : (\A m \in Nat : m < n => m \in S) => n \in S
    PROVE  Nat \subseteq S
<1>. DEFINE Out == Nat \ S
<1>. SUFFICES ASSUME Out # {} PROVE FALSE
  OBVIOUS
<1>1. PICK m \in Out : \A n \in Out : m <= n
  BY Smallest, Out \subseteq Nat
<1>2. \A n \in Nat : n < m => n \in S
  BY <1>1
<1>. QED
  BY <1>1, <1>2

\* A set of sequences that has the empty one, and every one that is one longer than
\* one it has, has all.
LEMMA SequenceInduction ==
    ASSUME NEW V, NEW S, <<>> \in S, \A s \in Seq(V), x \in V : s \in S => Append(s, x) \in S
    PROVE  Seq(V) \subseteq S
<1>. DEFINE Done == {n \in Nat : \A s \in Seq(V) : Len(s) = n => s \in S}
<1>1. ASSUME NEW n \in Nat, \A m \in Nat : m < n => m \in Done
      PROVE  n \in Done
  <2>. SUFFICES ASSUME NEW s \in Seq(V), Len(s) = n PROVE s \in S
    OBVIOUS
  <2>1. CASE s = <<>>
    BY <2>1
  <2>2. CASE s # <<>>
    <3>1. PICK r \in Seq(V), x \in V : s = Append(r, x)
      BY <2>2, SequenceEmptyOrAppend
    <3>2. Len(r) \in Nat /\ Len(r) < n
      BY <3>1, LenProperties, AppendProperties
    <3>. QED
      BY <3>1, <3>2, <1>1
  <2>. QED
    BY <2>1, <2>2
<1>. HIDE DEF Done
<1>2. Nat \subseteq Done
  BY <1>1, Induction
<1>3. \A s \in Seq(V) : Len(s) \in Nat
  BY LenProperties
<1>. QED
  BY <1>2, <1>3 DEF Done

-----------------------------------------------------------------------------
(* Sequences end to end. *)

Flat(s) == CHOOSE f : f = [i \in 1..Len(s) |-> IF i = 1 THEN s[i] ELSE f[i-1] \o s[i]]

\* FlattenSeq is the last value of the function its definition declares.
LEMMA FlattenIs ==
    ASSUME NEW s
    PROVE  FlattenSeq(s) = IF Len(s) = 0 THEN s ELSE Flat(s)[Len(s)]
  BY DEF FlattenSeq, Flat

\* A function that is one on the first n.
FlatUpto(f, s, n, V) ==
    /\ f \in [1..n -> Seq(V)]
    /\ \A i \in 1..n : f[i] = IF i = 1 THEN s[i] ELSE f[i-1] \o s[i]

\* That function exists: each of its values is one more sequence behind the one before.
LEMMA FlatExists ==
    ASSUME NEW V, NEW s \in Seq(Seq(V))
    PROVE  FlatUpto(Flat(s), s, Len(s), V)
<1>. DEFINE Done == {n \in Nat : n <= Len(s) => \E f : FlatUpto(f, s, n, V)}
<1>0. Len(s) \in Nat /\ \A i \in 1..Len(s) : s[i] \in Seq(V)
  BY LenProperties, ElementOfSeq
<1>1. ASSUME NEW n \in Nat, \A m \in Nat : m < n => m \in Done
      PROVE  n \in Done
  <2>. SUFFICES ASSUME n <= Len(s) PROVE \E f : FlatUpto(f, s, n, V)
    OBVIOUS
  <2>1. CASE n = 0
    <3>1. FlatUpto([i \in 1..0 |-> <<>>], s, 0, V)
      BY DEF FlatUpto
    <3>. QED
      BY <2>1, <3>1
  <2>2. CASE n # 0
    <3>1. n - 1 \in Nat /\ n - 1 < n /\ n - 1 <= Len(s)
      BY <1>0, <2>2
    <3>2. PICK f : FlatUpto(f, s, n - 1, V)
      BY <1>1, <3>1
    <3>. DEFINE last == IF n = 1 THEN s[n] ELSE f[n-1] \o s[n]
                g == [i \in 1..n |-> IF i < n THEN f[i] ELSE last]
    <3>3. last \in Seq(V) /\ \A i \in 1..(n-1) : f[i] \in Seq(V)
      BY <1>0, <2>2, <3>1, <3>2, ConcatProperties DEF FlatUpto
    <3>4. \A i \in 1..n : g[i] = IF i < n THEN f[i] ELSE last
      OBVIOUS
    <3>5. g \in [1..n -> Seq(V)]
      BY <3>1, <3>3
    <3>6. \A i \in 1..(n-1) : f[i] = IF i = 1 THEN s[i] ELSE f[i-1] \o s[i]
      BY <3>2 DEF FlatUpto
    <3>7. \A i \in 1..n : g[i] = IF i = 1 THEN s[i] ELSE g[i-1] \o s[i]
      <4>. HIDE DEF g
      <4>. TAKE i \in 1..n
      <4>1. CASE i = n
        BY <4>1, <2>2, <3>4
      <4>2. CASE i # n
        <5>1. i \in 1..(n-1) /\ (i = 1 \/ i - 1 \in 1..(n-1)) /\ i \in Int
          BY <4>2
        <5>. QED
          BY <5>1, <3>4, <3>6
      <4>. QED
        BY <4>1, <4>2
    <3>. QED
      BY <3>5, <3>7 DEF FlatUpto
  <2>. QED
    BY <2>1, <2>2
<1>2. Nat \subseteq Done
  <2>. HIDE DEF Done
  <2>. QED
    BY <1>1, Induction
<1>3. PICK f : FlatUpto(f, s, Len(s), V)
  BY <1>0, <1>2
<1>4. f = [i \in 1..Len(s) |-> IF i = 1 THEN s[i] ELSE f[i-1] \o s[i]]
  BY <1>3 DEF FlatUpto
<1>5. Flat(s) = [i \in 1..Len(s) |-> IF i = 1 THEN s[i] ELSE Flat(s)[i-1] \o s[i]]
  BY <1>4 DEF Flat
<1>6. \A i \in 1..Len(s) : Flat(s)[i] = IF i = 1 THEN s[i] ELSE Flat(s)[i-1] \o s[i]
  BY <1>5
<1>. DEFINE Typed == {n \in Nat : n \in 1..Len(s) => Flat(s)[n] \in Seq(V)}
<1>7. ASSUME NEW n \in Nat, \A m \in Nat : m < n => m \in Typed
      PROVE  n \in Typed
  <2>. SUFFICES ASSUME n \in 1..Len(s) PROVE Flat(s)[n] \in Seq(V)
    OBVIOUS
  <2>1. CASE n = 1
    BY <2>1, <1>0, <1>6
  <2>2. CASE n # 1
    <3>1. Flat(s)[n-1] \in Seq(V) /\ s[n] \in Seq(V)
      BY <2>2, <1>7, <1>0
    <3>2. Flat(s)[n] = Flat(s)[n-1] \o s[n]
      BY <2>2, <1>6
    <3>. QED
      BY <3>1, <3>2, ConcatProperties
  <2>. QED
    BY <2>1, <2>2
<1>8. Nat \subseteq Typed
  <2>. HIDE DEF Typed
  <2>. QED
    BY <1>7, Induction
<1>9. \A i \in 1..Len(s) : Flat(s)[i] \in Seq(V)
  BY <1>8, <1>0
<1>. QED
  BY <1>5, <1>6, <1>9 DEF FlatUpto

\* What comes at the end changes nothing before.
LEMMA FlatUnique ==
    ASSUME NEW V, NEW s, NEW t, NEW n \in Nat, \A i \in 1..n : s[i] = t[i],
           NEW f, NEW g, FlatUpto(f, s, n, V), FlatUpto(g, t, n + 1, V)
    PROVE  \A i \in 1..n : f[i] = g[i]
<1>. DEFINE Same == {i \in Nat : i \in 1..n => f[i] = g[i]}
<1>1. ASSUME NEW i \in Nat, \A m \in Nat : m < i => m \in Same
      PROVE  i \in Same
  <2>. SUFFICES ASSUME i \in 1..n PROVE f[i] = g[i]
    OBVIOUS
  <2>0. i \in 1..n /\ i \in 1..(n + 1)
    OBVIOUS
  <2>1. /\ f[i] = IF i = 1 THEN s[i] ELSE f[i-1] \o s[i]
        /\ g[i] = IF i = 1 THEN t[i] ELSE g[i-1] \o t[i]
    BY <2>0 DEF FlatUpto
  <2>2. i = 1 \/ f[i-1] = g[i-1]
    BY <1>1
  <2>. QED
    BY <2>1, <2>2
<1>2. Nat \subseteq Same
  <2>. HIDE DEF Same
  <2>. QED
    BY <1>1, Induction
<1>. QED
  BY <1>2

\* Sequences over V end to end are a sequence over V.
LEMMA FlattenType ==
    ASSUME NEW V, NEW s \in Seq(Seq(V))
    PROVE  FlattenSeq(s) \in Seq(V)
<1>1. Len(s) \in Nat /\ (Len(s) = 0 => s = <<>>)
  BY LenProperties, EmptySeq
<1>2. Len(s) # 0 => Flat(s)[Len(s)] \in Seq(V)
  <2>1. Flat(s) \in [1..Len(s) -> Seq(V)]
    BY FlatExists DEF FlatUpto
  <2>2. Len(s) # 0 => Len(s) \in 1..Len(s)
    BY <1>1
  <2>. QED
    BY <2>1, <2>2, Zenon
<1>. QED
  BY <1>1, <1>2, FlattenIs, EmptySeq

\* No sequences end to end are the empty one.
LEMMA FlattenNone == FlattenSeq(<<>>) = <<>>
  BY FlattenIs, EmptySeq

\* One more sequence comes behind all others.
LEMMA FlattenMore ==
    ASSUME NEW V, NEW s \in Seq(Seq(V)), NEW x \in Seq(V)
    PROVE  FlattenSeq(Append(s, x)) = FlattenSeq(s) \o x
<1>. DEFINE t == Append(s, x)
            n == Len(s)
<1>1. /\ n \in Nat /\ t \in Seq(Seq(V)) /\ Len(t) = n + 1 /\ t[n + 1] = x
      /\ \A i \in 1..n : s[i] = t[i]
  BY LenProperties, AppendProperties
<1>. HIDE DEF t
<1>2. FlatUpto(Flat(s), s, n, V) /\ FlatUpto(Flat(t), t, n + 1, V)
  BY <1>1, FlatExists
<1>3. \A i \in 1..n : Flat(s)[i] = Flat(t)[i]
  <2>. HIDE DEF n
  <2>. QED
    BY <1>1, <1>2, FlatUnique
<1>4. FlattenSeq(t) = Flat(t)[n + 1]
  BY <1>1, FlattenIs
<1>5. Flat(t)[n + 1] = IF n = 0 THEN x ELSE Flat(t)[n] \o x
  <2>1. n + 1 \in 1..(n + 1) /\ (n + 1 = 1 <=> n = 0) /\ (n + 1) - 1 = n
    BY <1>1
  <2>. QED
    BY <1>1, <1>2, <2>1 DEF FlatUpto
<1>6. CASE n = 0
  <2>1. s = <<>>
    BY <1>6, EmptySeq
  <2>. QED
    BY <2>1, <1>4, <1>5, <1>6, FlattenNone, ConcatEmptySeq DEF t
<1>7. CASE n # 0
  <2>1. Flat(s)[n] = Flat(t)[n]
    BY <1>1, <1>3, <1>7
  <2>2. FlattenSeq(s) = Flat(s)[n]
    BY <1>7, FlattenIs
  <2>. QED
    BY <1>4, <1>5, <1>7, <2>1, <2>2 DEF t
<1>. QED
  BY <1>6, <1>7

\* The same for a function from the first numbers.
LEMMA FlattenLast ==
    ASSUME NEW V, NEW n \in Nat, NEW f \in [1..(n + 1) -> Seq(V)]
    PROVE  FlattenSeq(f) = FlattenSeq([i \in 1..n |-> f[i]]) \o f[n + 1]
<1>. DEFINE s == [i \in 1..n |-> f[i]]
            x == f[n + 1]
<1>1. s \in Seq(Seq(V)) /\ Len(s) = n /\ x \in Seq(V) /\ \A i \in 1..n : s[i] = f[i]
  BY SeqDef
<1>2. f \in Seq(Seq(V)) /\ Len(f) = n + 1
  BY SeqDef
<1>. HIDE DEF s
<1>3. Append(s, x) = f
  <2>1. /\ Append(s, x) \in Seq(Seq(V)) /\ Len(Append(s, x)) = n + 1
        /\ \A i \in 1..n : Append(s, x)[i] = s[i]
        /\ Append(s, x)[n + 1] = x
    BY <1>1, AppendProperties
  <2>2. \A i \in 1..(n + 1) : i \in 1..n \/ i = n + 1
    OBVIOUS
  <2>3. \A i \in 1..(n + 1) : Append(s, x)[i] = f[i]
    BY <1>1, <2>1, <2>2
  <2>. QED
    BY <1>2, <2>1, <2>3, SeqEqual
<1>. QED
  BY <1>1, <1>3, FlattenMore DEF s

\* Empty sequences at the end make no difference.
LEMMA FlattenEmpties ==
    ASSUME NEW V, NEW k \in Nat, NEW n \in Nat, k <= n, NEW f \in [1..n -> Seq(V)],
           \A i \in 1..n : i > k => f[i] = <<>>
    PROVE  FlattenSeq(f) = FlattenSeq([i \in 1..k |-> f[i]])
<1>. DEFINE part(m) == [i \in 1..m |-> f[i]]
            Done == {m \in Nat : k <= m /\ m <= n => FlattenSeq(part(m)) = FlattenSeq(part(k))}
<1>0. \A m \in Nat : m <= n => part(m) \in Seq(Seq(V)) /\ part(m) \in [1..m -> Seq(V)]
  BY SeqDef
<1>1. ASSUME NEW m \in Nat, \A j \in Nat : j < m => j \in Done
      PROVE  m \in Done
  <2>. SUFFICES ASSUME k < m, m <= n PROVE FlattenSeq(part(m)) = FlattenSeq(part(k))
    <3>1. m = k \/ k < m \/ ~(k <= m)
      OBVIOUS
    <3>. HIDE DEF part
    <3>. QED
      BY <3>1
  <2>1. m - 1 \in Nat /\ (m - 1) + 1 = m /\ m \in 1..n /\ k <= m - 1 /\ m - 1 <= n
    OBVIOUS
  <2>2. part(m) \in [1..((m - 1) + 1) -> Seq(V)] /\ part(m)[m] = <<>>
    BY <1>0, <2>1
  <2>3. [i \in 1..(m - 1) |-> part(m)[i]] = part(m - 1)
    BY <2>1
  <2>4. FlattenSeq(part(m)) = FlattenSeq(part(m - 1)) \o <<>>
    <3>. HIDE DEF part
    <3>. QED
      BY <2>1, <2>2, <2>3, FlattenLast
  <2>5. FlattenSeq(part(m - 1)) \in Seq(V)
    <3>. HIDE DEF part
    <3>. QED
      BY <1>0, <2>1, FlattenType
  <2>6. FlattenSeq(part(m - 1)) = FlattenSeq(part(k))
    <3>. HIDE DEF part
    <3>. QED
      BY <1>1, <2>1
  <2>. HIDE DEF part
  <2>. QED
    BY <2>4, <2>5, <2>6, ConcatEmptySeq
<1>2. Nat \subseteq Done
  <2>. HIDE DEF Done
  <2>. QED
    BY <1>1, Induction
<1>3. part(n) = f
  OBVIOUS
<1>. HIDE DEF part
<1>4. FlattenSeq(part(n)) = FlattenSeq(part(k))
  BY <1>2
<1>. QED
  BY <1>3, <1>4 DEF part

-----------------------------------------------------------------------------
(* The loop of parseOptions over what it reads. *)

Takes(p, s) ==
    CHOOSE g : g = [S \in SUBSET (DOMAIN s) |->
                      IF S = {} THEN p ELSE Take(g[S \ {Max(S)}], s[Max(S)])]

\* FoldLeft of Take is the last value of the function its definition declares.
LEMMA FoldIs ==
    ASSUME NEW p, NEW s
    PROVE  FoldLeft(Take, p, s) = Takes(p, s)[DOMAIN s]
  BY DEF FoldLeft, MapThenFoldSet, Takes

TakesUpto(g, p, s, n) ==
    /\ g = [S \in SUBSET (1..n) |-> g[S]]
    /\ \A S \in SUBSET (1..n) : g[S] = IF S = {} THEN p ELSE Take(g[S \ {Max(S)}], s[Max(S)])

\* The number it goes by is the largest of the positions left.
LEMMA MaxLast ==
    ASSUME NEW n \in Nat, NEW S \in SUBSET (1..n), n \in S
    PROVE  Max(S) = n
<1>1. \A i \in S : i \in 1..n
  OBVIOUS
<1>2. \A x \in S : (\A y \in S : x >= y) <=> x = n
  BY <1>1
<1>3. Max(S) = CHOOSE x \in S : \A y \in S : x >= y
  BY DEF Max
<1>. QED
  BY <1>2, <1>3

\* That function exists: it takes the last of the positions after all others.
LEMMA TakesExists ==
    ASSUME NEW p, NEW V, NEW s \in Seq(V)
    PROVE  TakesUpto(Takes(p, s), p, s, Len(s))
<1>. DEFINE Done == {n \in Nat : \E g : TakesUpto(g, p, s, n)}
<1>0. Len(s) \in Nat /\ DOMAIN s = 1..Len(s)
  BY LenProperties
<1>1. ASSUME NEW n \in Nat, \A m \in Nat : m < n => m \in Done
      PROVE  n \in Done
  <2>1. CASE n = 0
    <3>1. SUBSET (1..0) = {{}}
      OBVIOUS
    <3>2. TakesUpto([S \in SUBSET (1..0) |-> p], p, s, 0)
      BY <3>1 DEF TakesUpto
    <3>. QED
      BY <2>1, <3>2
  <2>2. CASE n # 0
    <3>1. n - 1 \in Nat /\ n - 1 < n /\ 1..n = 1..(n-1) \cup {n}
      BY <2>2
    <3>2. PICK h : TakesUpto(h, p, s, n - 1)
      BY <1>1, <3>1
    <3>. DEFINE g == [S \in SUBSET (1..n) |->
                        IF n \in S THEN Take(h[S \ {n}], s[n]) ELSE h[S]]
    <3>3. \A S \in SUBSET (1..n) : g[S] = IF n \in S THEN Take(h[S \ {n}], s[n]) ELSE h[S]
      OBVIOUS
    <3>4. g = [S \in SUBSET (1..n) |-> g[S]]
      OBVIOUS
    <3>. HIDE DEF g
    <3>5. ASSUME NEW S \in SUBSET (1..n)
          PROVE  g[S] = IF S = {} THEN p ELSE Take(g[S \ {Max(S)}], s[Max(S)])
      <4>1. CASE n \in S
        <5>1. Max(S) = n /\ S # {}
          BY <4>1, MaxLast
        <5>2. S \ {n} \in SUBSET (1..n) /\ n \notin S \ {n}
          OBVIOUS
        <5>. QED
          BY <4>1, <5>1, <5>2, <3>3
      <4>2. CASE n \notin S
        <5>1. S \in SUBSET (1..(n-1))
          BY <4>2, <3>1
        <5>2. g[S] = h[S] /\ g[S \ {Max(S)}] = h[S \ {Max(S)}]
          BY <4>2, <3>3
        <5>. QED
          BY <5>1, <5>2, <3>2 DEF TakesUpto
      <4>. QED
        BY <4>1, <4>2
    <3>6. TakesUpto(g, p, s, n)
      BY <3>4, <3>5 DEF TakesUpto
    <3>. QED
      BY <3>6
  <2>. QED
    BY <2>1, <2>2
<1>2. Nat \subseteq Done
  <2>. HIDE DEF Done
  <2>. QED
    BY <1>1, Induction
<1>3. PICK g : TakesUpto(g, p, s, Len(s))
  BY <1>0, <1>2
<1>4. g = [S \in SUBSET (DOMAIN s) |-> IF S = {} THEN p ELSE Take(g[S \ {Max(S)}], s[Max(S)])]
  BY <1>0, <1>3 DEF TakesUpto
<1>5. Takes(p, s) = [S \in SUBSET (DOMAIN s) |->
                       IF S = {} THEN p ELSE Take(Takes(p, s)[S \ {Max(S)}], s[Max(S)])]
  BY <1>4 DEF Takes
<1>. QED
  BY <1>0, <1>5 DEF TakesUpto

\* With nothing to read, nothing changes.
LEMMA FoldNone ==
    ASSUME NEW p
    PROVE  FoldLeft(Take, p, <<>>) = p
<1>1. <<>> \in Seq(Nat) /\ Len(<<>>) = 0 /\ DOMAIN <<>> = {} /\ 1..0 = {}
  BY EmptySeq
<1>2. TakesUpto(Takes(p, <<>>), p, <<>>, 0)
  BY <1>1, TakesExists
<1>3. Takes(p, <<>>)[{}] = p
  BY <1>2 DEF TakesUpto
<1>. QED
  BY <1>1, <1>3, FoldIs

\* One more to read is taken after all before it.
LEMMA FoldMore ==
    ASSUME NEW p, NEW V, NEW s \in Seq(V), NEW x \in V
    PROVE  FoldLeft(Take, p, Append(s, x)) = Take(FoldLeft(Take, p, s), x)
<1>. DEFINE t == Append(s, x)
            n == Len(s)
            f == Takes(p, s)
            g == Takes(p, t)
<1>1. /\ n \in Nat /\ t \in Seq(V) /\ Len(t) = n + 1 /\ t[n + 1] = x
      /\ \A i \in 1..n : s[i] = t[i]
      /\ DOMAIN s = 1..n /\ DOMAIN t = 1..(n + 1)
  BY LenProperties, AppendProperties
<1>. HIDE DEF t, n
<1>2. TakesUpto(f, p, s, n) /\ TakesUpto(g, p, t, n + 1)
  BY <1>1, TakesExists DEF n
<1>. HIDE DEF f, g
<1>3. ASSUME NEW i \in Nat, i > 0
      PROVE  Max(1..i) = i /\ 1..i # {} /\ (1..i) \ {i} = 1..(i-1)
  <2>1. Max(1..i) = i
    BY <1>3, MaxLast
  <2>2. i \in 1..i
    BY <1>3
  <2>3. \A m : m \in (1..i) \ {i} <=> m \in 1..(i-1)
    BY <1>3
  <2>. QED
    BY <2>1, <2>2, <2>3
<1>. DEFINE Same == {i \in Nat : i <= n => f[1..i] = g[1..i]}
<1>4. ASSUME NEW i \in Nat, \A m \in Nat : m < i => m \in Same
      PROVE  i \in Same
  <2>. SUFFICES ASSUME i <= n PROVE f[1..i] = g[1..i]
    OBVIOUS
  <2>0. 1..i \in SUBSET (1..n) /\ 1..i \in SUBSET (1..(n + 1))
    BY <1>1
  <2>1. CASE i = 0
    <3>1. 1..i = {}
      BY <2>1
    <3>. QED
      BY <3>1, <2>0, <1>2 DEF TakesUpto
  <2>2. CASE i # 0
    <3>1. Max(1..i) = i /\ 1..i # {} /\ (1..i) \ {i} = 1..(i-1)
      BY <1>3, <2>2
    <3>2. f[1..i] = Take(f[1..(i-1)], s[i]) /\ g[1..i] = Take(g[1..(i-1)], t[i])
      BY <3>1, <2>0, <1>2 DEF TakesUpto
    <3>3. f[1..(i-1)] = g[1..(i-1)] /\ s[i] = t[i]
      BY <1>1, <1>4, <2>2
    <3>. QED
      BY <3>2, <3>3
  <2>. QED
    BY <2>1, <2>2
<1>5. Nat \subseteq Same
  <2>. HIDE DEF Same
  <2>. QED
    BY <1>4, Induction
<1>6. f[1..n] = g[1..n]
  BY <1>1, <1>5
<1>7. g[1..(n + 1)] = Take(g[1..n], x)
  <2>1. Max(1..(n+1)) = n + 1 /\ 1..(n+1) # {} /\ (1..(n+1)) \ {n+1} = 1..n
    BY <1>1, <1>3
  <2>2. 1..(n + 1) \in SUBSET (1..(n + 1))
    OBVIOUS
  <2>3. g[1..(n+1)] = Take(g[(1..(n+1)) \ {Max(1..(n+1))}], t[Max(1..(n+1))])
    BY <1>2, <2>1, <2>2 DEF TakesUpto
  <2>. QED
    BY <1>1, <2>1, <2>3
<1>8. FoldLeft(Take, p, t) = g[1..(n + 1)] /\ FoldLeft(Take, p, s) = f[1..n]
  BY <1>1, FoldIs DEF f, g
<1>. QED
  BY <1>6, <1>7, <1>8 DEF t

-----------------------------------------------------------------------------
(* Reading octets. *)

Octets == Seq(Nat)
Item == [code : Nat, data : Octets]

\* What is read from position i on, if f says it for the positions after it.
ReadAt(f, b, i) ==
    IF i > Len(b) THEN <<>>
    ELSE IF b[i] = Pad THEN f[i + 1]
    ELSE IF b[i] = End \/ i = Len(b) THEN <<>>
    ELSE IF i + 1 + b[i + 1] > Len(b) THEN <<>>
    ELSE <<Option(b[i], SubSeq(b, i + 2, i + 1 + b[i + 1]))>> \o f[i + 2 + b[i + 1]]

From(b) == CHOOSE f : f = [i \in 1..Len(b) + 1 |-> ReadAt(f, b, i)]

\* Items is what is read from the first position on.
LEMMA ItemsIs ==
    ASSUME NEW b
    PROVE  Items(b) = From(b)[1]
  BY DEF Items, From, ReadAt

\* The option at a position, if there is one, is whole.
LEMMA OptionAt ==
    ASSUME NEW b \in Octets, NEW i \in 1..Len(b), b[i] # Pad, b[i] # End, i # Len(b),
           ~(i + 1 + b[i + 1] > Len(b))
    PROVE  /\ b[i + 1] \in Nat /\ i + 2 + b[i + 1] \in (i + 1)..(Len(b) + 1)
           /\ Option(b[i], SubSeq(b, i + 2, i + 1 + b[i + 1])) \in Item
<1>1. Len(b) \in Nat /\ i \in Nat /\ i + 1 \in 1..Len(b)
  BY LenProperties DEF Octets
<1>2. b[i] \in Nat /\ b[i + 1] \in Nat
  BY <1>1, ElementOfSeq DEF Octets
<1>3. \A j \in (i + 2)..(i + 1 + b[i + 1]) : b[j] \in Nat
  <2>1. \A j \in (i + 2)..(i + 1 + b[i + 1]) : j \in 1..Len(b)
    BY <1>1, <1>2
  <2>. QED
    BY <2>1, ElementOfSeq DEF Octets
<1>4. SubSeq(b, i + 2, i + 1 + b[i + 1]) \in Octets
  <2>1. i + 2 \in Int /\ i + 1 + b[i + 1] \in Int
    BY <1>1, <1>2
  <2>. QED
    BY <1>3, <2>1, SubSeqProperties DEF Octets
<1>. QED
  BY <1>1, <1>2, <1>4 DEF Option, Item

\* What is read from a position depends on what is read after it, and on nothing else.
LEMMA ReadAtSame ==
    ASSUME NEW b \in Octets, NEW i \in 1..(Len(b) + 1), NEW f, NEW g,
           \A j \in (i + 1)..(Len(b) + 1) : f[j] = g[j]
    PROVE  ReadAt(f, b, i) = ReadAt(g, b, i)
<1>1. CASE i > Len(b)
  BY <1>1 DEF ReadAt
<1>2. CASE ~(i > Len(b))
  <2>0. Len(b) \in Nat /\ i \in 1..Len(b)
    BY <1>2, LenProperties DEF Octets
  <2>1. CASE b[i] = Pad
    <3>1. i + 1 \in (i + 1)..(Len(b) + 1)
      BY <2>0
    <3>. QED
      BY <1>2, <2>1, <3>1 DEF ReadAt
  <2>2. CASE b[i] # Pad /\ (b[i] = End \/ i = Len(b) \/ i + 1 + b[i + 1] > Len(b))
    BY <1>2, <2>2 DEF ReadAt
  <2>3. CASE b[i] # Pad /\ b[i] # End /\ i # Len(b) /\ ~(i + 1 + b[i + 1] > Len(b))
    <3>1. i + 2 + b[i + 1] \in (i + 1)..(Len(b) + 1)
      BY <2>0, <2>3, OptionAt
    <3>2. f[i + 2 + b[i + 1]] = g[i + 2 + b[i + 1]]
      BY <3>1
    <3>. QED
      BY <1>2, <2>3, <3>2 DEF ReadAt
  <2>. QED
    BY <2>1, <2>2, <2>3
<1>. QED
  BY <1>1, <1>2

\* What is read at a position are options, if what is read behind it are.
LEMMA ReadAtType ==
    ASSUME NEW b \in Octets, NEW i \in 1..(Len(b) + 1), NEW f,
           \A j \in (i + 1)..(Len(b) + 1) : f[j] \in Seq(Item)
    PROVE  ReadAt(f, b, i) \in Seq(Item)
<1>0. <<>> \in Seq(Item)
  BY EmptySeq
<1>1. CASE i > Len(b)
  BY <1>0, <1>1 DEF ReadAt
<1>2. CASE ~(i > Len(b))
  <2>0. Len(b) \in Nat /\ i \in 1..Len(b)
    BY <1>2, LenProperties DEF Octets
  <2>1. CASE b[i] = Pad
    <3>1. i + 1 \in (i + 1)..(Len(b) + 1)
      BY <2>0
    <3>. QED
      BY <1>2, <2>1, <3>1 DEF ReadAt
  <2>2. CASE b[i] # Pad /\ (b[i] = End \/ i = Len(b) \/ i + 1 + b[i + 1] > Len(b))
    BY <1>0, <1>2, <2>2 DEF ReadAt
  <2>3. CASE b[i] # Pad /\ b[i] # End /\ i # Len(b) /\ ~(i + 1 + b[i + 1] > Len(b))
    <3>. DEFINE x == Option(b[i], SubSeq(b, i + 2, i + 1 + b[i + 1]))
    <3>1. i + 2 + b[i + 1] \in (i + 1)..(Len(b) + 1) /\ x \in Item
      BY <2>0, <2>3, OptionAt
    <3>2. f[i + 2 + b[i + 1]] \in Seq(Item)
      BY <3>1
    <3>3. ReadAt(f, b, i) = <<x>> \o f[i + 2 + b[i + 1]]
      BY <1>2, <2>3 DEF ReadAt
    <3>. HIDE DEF x
    <3>4. <<x>> \in Seq(Item)
      BY <3>1
    <3>. QED
      BY <3>2, <3>3, <3>4, ConcatProperties
  <2>. QED
    BY <2>1, <2>2, <2>3
<1>. QED
  BY <1>1, <1>2

\* A function that reads the last n positions, and what is after them.
FromLast(f, b, n) ==
    /\ f \in [(Len(b) + 1 - n)..(Len(b) + 1) -> Seq(Item)]
    /\ \A i \in (Len(b) + 1 - n)..(Len(b) + 1) : f[i] = ReadAt(f, b, i)

\* The function Items declares exists: parseOptions reads from every position on.
LEMMA FromExists ==
    ASSUME NEW b \in Octets
    PROVE  /\ Len(b) \in Nat
           /\ From(b) \in [1..(Len(b) + 1) -> Seq(Item)]
           /\ \A i \in 1..(Len(b) + 1) : From(b)[i] = ReadAt(From(b), b, i)
<1>0. Len(b) \in Nat
  BY LenProperties DEF Octets
<1>. DEFINE L == Len(b)
            Done == {n \in Nat : n <= L => \E f : FromLast(f, b, n)}
<1>1. ASSUME NEW n \in Nat, \A m \in Nat : m < n => m \in Done
      PROVE  n \in Done
  <2>. SUFFICES ASSUME n <= L PROVE \E f : FromLast(f, b, n)
    OBVIOUS
  <2>. DEFINE k == L + 1 - n
  <2>0. k \in 1..(L + 1) /\ k..(L + 1) = {k} \cup (k + 1)..(L + 1)
    BY <1>0
  <2>1. PICK h : \A i \in (k + 1)..(L + 1) : h[i] \in Seq(Item) /\ h[i] = ReadAt(h, b, i)
    <3>1. CASE n = 0
      BY <3>1, <1>0
    <3>2. CASE n # 0
      <4>1. n - 1 \in Nat /\ n - 1 < n /\ n - 1 <= L /\ L + 1 - (n - 1) = k + 1
        BY <1>0, <3>2
      <4>2. PICK f : FromLast(f, b, n - 1)
        BY <1>1, <4>1
      <4>. QED
        BY <4>1, <4>2 DEF FromLast
    <3>. QED
      BY <3>1, <3>2
  <2>. DEFINE g == [i \in k..(L + 1) |-> IF i = k THEN ReadAt(h, b, k) ELSE h[i]]
  <2>2. ReadAt(h, b, k) \in Seq(Item)
    BY <2>0, <2>1, ReadAtType
  <2>3. \A i \in k..(L + 1) : g[i] = IF i = k THEN ReadAt(h, b, k) ELSE h[i]
    OBVIOUS
  <2>4. g \in [k..(L + 1) -> Seq(Item)]
    BY <2>0, <2>1, <2>2
  <2>. HIDE DEF g
  <2>5. \A j \in (k + 1)..(L + 1) : g[j] = h[j]
    BY <2>0, <2>3
  <2>6. ASSUME NEW i \in k..(L + 1) PROVE g[i] = ReadAt(g, b, i)
    <3>0. i \in 1..(L + 1) /\ \A j \in (i + 1)..(L + 1) : j \in (k + 1)..(L + 1)
      BY <1>0
    <3>1. ReadAt(g, b, i) = ReadAt(h, b, i)
      BY <3>0, <2>5, ReadAtSame
    <3>2. i = k \/ i \in (k + 1)..(L + 1)
      BY <1>0
    <3>. QED
      BY <3>1, <3>2, <2>1, <2>3
  <2>. QED
    BY <2>4, <2>6 DEF FromLast
<1>2. Nat \subseteq Done
  <2>. HIDE DEF Done
  <2>. QED
    BY <1>1, Induction
<1>3. PICK f : FromLast(f, b, L)
  BY <1>0, <1>2
<1>4. L + 1 - L = 1
  BY <1>0
<1>5. f \in [1..(L + 1) -> Seq(Item)] /\ \A i \in 1..(L + 1) : f[i] = ReadAt(f, b, i)
  BY <1>3, <1>4 DEF FromLast
<1>6. f = [i \in 1..(L + 1) |-> ReadAt(f, b, i)]
  BY <1>5
<1>7. From(b) = [i \in 1..(L + 1) |-> ReadAt(From(b), b, i)]
  BY <1>6 DEF From
<1>8. \A i \in 1..(L + 1) : From(b)[i] = ReadAt(From(b), b, i)
  BY <1>7
<1>. DEFINE Typed == {n \in Nat : n <= L => From(b)[L + 1 - n] \in Seq(Item)}
<1>9. ASSUME NEW n \in Nat, \A m \in Nat : m < n => m \in Typed
      PROVE  n \in Typed
  <2>. SUFFICES ASSUME n <= L PROVE From(b)[L + 1 - n] \in Seq(Item)
    OBVIOUS
  <2>1. L + 1 - n \in 1..(L + 1)
    BY <1>0
  <2>2. ASSUME NEW j \in (L + 1 - n + 1)..(L + 1) PROVE From(b)[j] \in Seq(Item)
    <3>1. L + 1 - j \in Nat /\ L + 1 - j < n /\ L + 1 - j <= L /\ L + 1 - (L + 1 - j) = j
      BY <1>0
    <3>2. From(b)[L + 1 - (L + 1 - j)] \in Seq(Item)
      BY <3>1, <1>9
    <3>. QED
      BY <3>1, <3>2
  <2>3. ReadAt(From(b), b, L + 1 - n) \in Seq(Item)
    BY <2>1, <2>2, ReadAtType
  <2>. QED
    BY <2>1, <2>3, <1>8
<1>10. Nat \subseteq Typed
  <2>. HIDE DEF Typed
  <2>. QED
    BY <1>9, Induction
<1>11. ASSUME NEW i \in 1..(L + 1) PROVE From(b)[i] \in Seq(Item)
  <2>1. L + 1 - i \in Nat /\ L + 1 - i <= L /\ L + 1 - (L + 1 - i) = i
    BY <1>0
  <2>2. From(b)[L + 1 - (L + 1 - i)] \in Seq(Item)
    BY <1>10, <2>1
  <2>. QED
    BY <2>1, <2>2
<1>12. From(b) \in [1..(L + 1) -> Seq(Item)]
  BY <1>7, <1>11
<1>. QED
  BY <1>0, <1>8, <1>12

\* Octets are read as a list of options, whatever they are.
LEMMA ItemsType ==
    ASSUME NEW b \in Octets
    PROVE  Items(b) \in Seq(Item)
<1>1. 1 \in 1..(Len(b) + 1)
  BY FromExists
<1>. QED
  BY <1>1, FromExists, ItemsIs

\* The first elements of a sequence.
LEMMA Cut ==
    ASSUME NEW V, NEW s \in Seq(V), NEW n \in Nat, n <= Len(s)
    PROVE  /\ SubSeq(s, 1, n) \in Seq(V) /\ Len(SubSeq(s, 1, n)) = n
           /\ \A i \in 1..n : SubSeq(s, 1, n)[i] = s[i]
           /\ n = Len(s) => SubSeq(s, 1, n) = s
<1>1. Len(s) \in Nat /\ \A i \in 1..Len(s) : s[i] \in V
  BY LenProperties, ElementOfSeq
<1>2. \A i \in 1..n : s[i] \in V
  BY <1>1
<1>3. /\ SubSeq(s, 1, n) \in Seq(V)
      /\ Len(SubSeq(s, 1, n)) = IF 1 <= n THEN n - 1 + 1 ELSE 0
      /\ \A i \in 1..(n - 1 + 1) : SubSeq(s, 1, n)[i] = s[1 + i - 1]
  BY <1>2, SubSeqProperties
<1>4. n - 1 + 1 = n /\ (~(1 <= n) => n = 0) /\ \A i \in 1..n : 1 + i - 1 = i
  OBVIOUS
<1>. QED
  BY <1>3, <1>4, SubSeqFull

\* A part of the first of two sequences is cut out of it alone.
LEMMA CutBefore ==
    ASSUME NEW V, NEW s \in Seq(V), NEW t \in Seq(V), NEW n \in Nat, n <= Len(s)
    PROVE  SubSeq(s \o t, 1, n) = SubSeq(s, 1, n)
<1>1. CASE n = 0
  BY <1>1, SubSeqEmpty
<1>2. CASE n # 0
  <2>1. 1 \in 1..Len(s) /\ n \in 1..Len(s)
    BY <1>2, LenProperties
  <2>. QED
    BY <2>1, SubSeqOfConcat1
<1>. QED
  BY <1>1, <1>2

\* A part that goes beyond the first of two sequences has all of it.
LEMMA CutBehind ==
    ASSUME NEW V, NEW s \in Seq(V), NEW t \in Seq(V), NEW n \in Nat, n <= Len(t)
    PROVE  SubSeq(s \o t, 1, Len(s) + n) = s \o SubSeq(t, 1, n)
<1>. DEFINE b == s \o t
            k == Len(s)
<1>0. b \in Seq(V) /\ Len(b) = k + Len(t) /\ k \in Nat /\ Len(t) \in Nat
  BY LenProperties, ConcatProperties
<1>1. CASE n = 0
  <2>1. SubSeq(t, 1, n) = <<>> /\ SubSeq(b, 1, k) = SubSeq(s, 1, k)
    BY <1>0, <1>1, SubSeqEmpty, CutBefore
  <2>2. k + n = k
    BY <1>0, <1>1
  <2>. QED
    BY <2>1, <2>2, SubSeqFull, ConcatEmptySeq
<1>2. CASE n # 0
  <2>1. 1 \in 1..(Len(b) + 1) /\ k \in (1 - 1)..Len(b) /\ k + n \in k..Len(b)
    BY <1>0
  <2>2. SubSeq(b, 1, k) \o SubSeq(b, k + 1, k + n) = SubSeq(b, 1, k + n)
    <3>. HIDE DEF b, k
    <3>. QED
      BY <1>0, <2>1, ConcatAdjacentSubSeq
  <2>3. SubSeq(b, 1, k) = s
    BY <1>0, CutBefore, SubSeqFull
  <2>4. /\ k + 1 \in (k + 1)..(k + Len(t)) /\ k + n \in (k + 1)..(k + Len(t))
        /\ k + 1 - k = 1 /\ k + n - k = n
    BY <1>0, <1>2
  <2>5. SubSeq(b, k + 1, k + n) = SubSeq(t, 1, n)
    BY <2>4, SubSeqOfConcat2
  <2>. QED
    BY <2>2, <2>3, <2>5
<1>. QED
  BY <1>1, <1>2

\* The four cases of what is read at a position.
ReadCased(f, b, i) ==
    /\ i > Len(b) => ReadAt(f, b, i) = <<>>
    /\ ~(i > Len(b)) /\ b[i] = Pad => ReadAt(f, b, i) = f[i + 1]
    /\ ~(i > Len(b)) /\ b[i] # Pad /\ (b[i] = End \/ i = Len(b) \/ i + 1 + b[i + 1] > Len(b))
         => ReadAt(f, b, i) = <<>>
    /\ ~(i > Len(b)) /\ b[i] # Pad /\ b[i] # End /\ i # Len(b) /\ ~(i + 1 + b[i + 1] > Len(b))
         => ReadAt(f, b, i) = <<Option(b[i], SubSeq(b, i + 2, i + 1 + b[i + 1]))>> \o f[i + 2 + b[i + 1]]

LEMMA ReadCases ==
    ASSUME NEW f, NEW b, NEW i
    PROVE  ReadCased(f, b, i)
  BY DEF ReadAt, ReadCased

\* What is in the second of two sequences is at its place behind the first.
LEMMA Behind ==
    ASSUME NEW p \in Octets, NEW r \in Octets
    PROVE  /\ Len(p) \in Nat /\ Len(r) \in Nat /\ p \o r \in Octets
           /\ Len(p \o r) = Len(p) + Len(r)
           /\ \A j \in 1..Len(p) : (p \o r)[j] = p[j]
           /\ \A j \in 1..Len(r) : (p \o r)[Len(p) + j] = r[j]
<1>1. /\ Len(p) \in Nat /\ Len(r) \in Nat /\ p \o r \in Octets
      /\ Len(p \o r) = Len(p) + Len(r)
      /\ \A j \in 1..(Len(p) + Len(r)) : (p \o r)[j] = IF j <= Len(p) THEN p[j] ELSE r[j - Len(p)]
  BY LenProperties, ConcatProperties DEF Octets
<1>2. ASSUME NEW j \in 1..Len(p) PROVE (p \o r)[j] = p[j]
  <2>1. j \in 1..(Len(p) + Len(r)) /\ j <= Len(p)
    BY <1>1
  <2>. QED
    BY <1>1, <2>1
<1>3. ASSUME NEW j \in 1..Len(r) PROVE (p \o r)[Len(p) + j] = r[j]
  <2>1. Len(p) + j \in 1..(Len(p) + Len(r)) /\ ~(Len(p) + j <= Len(p)) /\ Len(p) + j - Len(p) = j
    BY <1>1
  <2>. QED
    BY <1>1, <2>1
<1>. QED
  BY <1>1, <1>2, <1>3

\* A part of the second of two sequences is at its place behind the first.
LEMMA PartBehind ==
    ASSUME NEW p \in Octets, NEW r \in Octets, NEW j \in Nat, NEW k \in Nat, j >= 1, k <= Len(r)
    PROVE  SubSeq(p \o r, Len(p) + j, Len(p) + k) = SubSeq(r, j, k)
<1>1. Len(p) \in Nat /\ Len(r) \in Nat
  BY LenProperties DEF Octets
<1>2. CASE k < j
  <2>1. SubSeq(p \o r, Len(p) + j, Len(p) + k) = <<>>
    BY <1>1, <1>2, SubSeqEmpty
  <2>2. SubSeq(r, j, k) = <<>>
    BY <1>2, SubSeqEmpty
  <2>. QED
    BY <2>1, <2>2
<1>3. CASE ~(k < j)
  <2>1. /\ Len(p) + j \in (Len(p) + 1)..(Len(p) + Len(r))
        /\ Len(p) + k \in (Len(p) + 1)..(Len(p) + Len(r))
        /\ Len(p) + j - Len(p) = j /\ Len(p) + k - Len(p) = k
    BY <1>1, <1>3
  <2>. QED
    BY <2>1, SubSeqOfConcat2 DEF Octets
<1>. QED
  BY <1>2, <1>3

\* One step of parseOptions' loop does not depend on what is before its position.
LEMMA ReadShifted ==
    ASSUME NEW p \in Octets, NEW r \in Octets, NEW k \in 1..(Len(r) + 1), NEW f, NEW g,
           \A j \in (k + 1)..(Len(r) + 1) : f[Len(p) + j] = g[j]
    PROVE  ReadAt(f, p \o r, Len(p) + k) = ReadAt(g, r, k)
<1>. DEFINE b == p \o r
            P == Len(p)
            L == Len(r)
<1>1. /\ P \in Nat /\ L \in Nat /\ Len(b) = P + L
      /\ \A j \in 1..L : b[P + j] = r[j]
  BY Behind
<1>2. \A j \in 1..L : r[j] \in Nat
  BY ElementOfSeq DEF Octets
<1>3. k \in 1..(L + 1) /\ \A j \in (k + 1)..(L + 1) : f[P + j] = g[j]
  OBVIOUS
<1>4. /\ k > L => ReadAt(g, r, k) = <<>>
      /\ ~(k > L) /\ r[k] = Pad => ReadAt(g, r, k) = g[k + 1]
      /\ ~(k > L) /\ r[k] # Pad /\ (r[k] = End \/ k = L \/ k + 1 + r[k + 1] > L)
           => ReadAt(g, r, k) = <<>>
      /\ ~(k > L) /\ r[k] # Pad /\ r[k] # End /\ k # L /\ ~(k + 1 + r[k + 1] > L)
           => ReadAt(g, r, k) = <<Option(r[k], SubSeq(r, k + 2, k + 1 + r[k + 1]))>> \o g[k + 2 + r[k + 1]]
  <2>1. ReadCased(g, r, k)
    BY ReadCases
  <2>. QED
    BY <2>1 DEF ReadCased
<1>. DEFINE i == P + k
<1>5. /\ i > Len(b) => ReadAt(f, b, i) = <<>>
      /\ ~(i > Len(b)) /\ b[i] = Pad => ReadAt(f, b, i) = f[i + 1]
      /\ ~(i > Len(b)) /\ b[i] # Pad /\ (b[i] = End \/ i = Len(b) \/ i + 1 + b[i + 1] > Len(b))
           => ReadAt(f, b, i) = <<>>
      /\ ~(i > Len(b)) /\ b[i] # Pad /\ b[i] # End /\ i # Len(b) /\ ~(i + 1 + b[i + 1] > Len(b))
           => ReadAt(f, b, i) = <<Option(b[i], SubSeq(b, i + 2, i + 1 + b[i + 1]))>> \o f[i + 2 + b[i + 1]]
  <2>. HIDE DEF i, b, L, P
  <2>1. ReadCased(f, b, i)
    BY ReadCases
  <2>. QED
    BY <2>1 DEF ReadCased
<1>. SUFFICES ReadAt(f, b, i) = ReadAt(g, r, k)
  OBVIOUS
<1>6. i \in Nat /\ k \in Nat /\ (i > Len(b) <=> k > L) /\ (i = Len(b) <=> k = L) /\ i + 1 = P + (k + 1)
  <2>. HIDE DEF b, L, P
  <2>. QED
    BY <1>1, <1>3
<1>7. CASE k > L
  <2>. HIDE DEF i, b, L
  <2>. QED
    BY <1>4, <1>5, <1>6, <1>7
<1>8. CASE ~(k > L)
  <2>1. k \in 1..L /\ (k # L => k + 1 \in 1..L)
    BY <1>1, <1>3, <1>8
  <2>2. b[i] = r[k] /\ (k # L => b[i + 1] = r[k + 1] /\ r[k + 1] \in Nat)
    <3>1. k # L => b[P + (k + 1)] = r[k + 1] /\ r[k + 1] \in Nat
      BY <1>1, <1>2, <2>1
    <3>. QED
      BY <1>1, <1>6, <2>1, <3>1
  <2>3. CASE r[k] = Pad
    <3>1. f[P + (k + 1)] = g[k + 1]
      BY <1>1, <1>3, <2>1
    <3>. HIDE DEF i, b, L
    <3>. QED
      BY <1>4, <1>5, <1>6, <1>8, <2>2, <2>3, <3>1
  <2>4. CASE r[k] # Pad /\ (r[k] = End \/ k = L)
    <3>. HIDE DEF i, b, L
    <3>. QED
      BY <1>4, <1>5, <1>6, <1>8, <2>2, <2>4
  <2>5. CASE r[k] # Pad /\ r[k] # End /\ k # L
    <3>. DEFINE n == r[k + 1]
    <3>1. n \in Nat /\ b[i + 1] = n /\ k + 1 <= L
      BY <2>1, <2>2, <2>5
    <3>. HIDE DEF n
    <3>2. i + 1 + n > Len(b) <=> k + 1 + n > L
      BY <1>1, <1>6, <3>1
    <3>3. CASE k + 1 + n > L
      <4>. HIDE DEF i, b, L
      <4>. QED
        BY <1>4, <1>5, <1>6, <1>8, <2>2, <2>5, <3>1, <3>2, <3>3 DEF n
    <3>4. CASE ~(k + 1 + n > L)
      <4>1. /\ k + 2 \in Nat /\ k + 1 + n \in Nat /\ k + 2 >= 1 /\ k + 1 + n <= L
            /\ i + 2 = P + (k + 2) /\ i + 1 + n = P + (k + 1 + n)
            /\ i + 2 + n = P + (k + 2 + n) /\ k + 2 + n \in (k + 1)..(L + 1)
        BY <1>1, <1>6, <3>1, <3>4
      <4>2. SubSeq(b, i + 2, i + 1 + n) = SubSeq(r, k + 2, k + 1 + n)
        <5>1. \A x, y \in Nat : x >= 1 /\ y <= L => SubSeq(b, P + x, P + y) = SubSeq(r, x, y)
          BY PartBehind
        <5>. HIDE DEF i, b, L, P
        <5>. QED
          BY <4>1, <5>1
      <4>3. f[i + 2 + n] = g[k + 2 + n]
        <5>. HIDE DEF i, b
        <5>. QED
          BY <4>1, <1>3
      <4>4. ReadAt(f, b, i) = <<Option(b[i], SubSeq(b, i + 2, i + 1 + n))>> \o f[i + 2 + n]
        <5>. HIDE DEF i, b, L
        <5>. QED
          BY <1>5, <1>6, <1>8, <2>2, <2>5, <3>1, <3>2, <3>4
      <4>5. ReadAt(g, r, k) = <<Option(r[k], SubSeq(r, k + 2, k + 1 + n))>> \o g[k + 2 + n]
        <5>. HIDE DEF i, b, L
        <5>. QED
          BY <1>4, <1>8, <2>5, <3>4 DEF n
      <4>. HIDE DEF i, b
      <4>. QED
        BY <2>2, <4>2, <4>3, <4>4, <4>5
    <3>. QED
      BY <3>3, <3>4
  <2>. QED
    BY <2>3, <2>4, <2>5
<1>. QED
  BY <1>7, <1>8

\* What is read from a position does not depend on what is before it.
LEMMA Shifted ==
    ASSUME NEW p \in Octets, NEW r \in Octets, NEW i \in 1..(Len(r) + 1)
    PROVE  From(p \o r)[Len(p) + i] = From(r)[i]
<1>. DEFINE Same == {n \in Nat : n <= Len(r) =>
                       From(p \o r)[Len(p) + (Len(r) + 1 - n)] = From(r)[Len(r) + 1 - n]}
<1>0. /\ Len(p) \in Nat /\ Len(r) \in Nat /\ p \o r \in Octets
      /\ Len(p \o r) = Len(p) + Len(r)
  BY Behind
<1>1. ASSUME NEW n \in Nat, \A m \in Nat : m < n => m \in Same
      PROVE  n \in Same
  <2>. SUFFICES ASSUME n <= Len(r), NEW k, k = Len(r) + 1 - n
                PROVE  From(p \o r)[Len(p) + k] = From(r)[k]
    OBVIOUS
  <2>0. k \in 1..(Len(r) + 1) /\ Len(p) + k \in 1..(Len(p \o r) + 1)
    BY <1>0
  <2>1. ASSUME NEW j \in (k + 1)..(Len(r) + 1)
        PROVE  From(p \o r)[Len(p) + j] = From(r)[j]
    <3>1. PICK m \in Nat : m < n /\ m <= Len(r) /\ Len(r) + 1 - m = j
      <4>1. Len(r) + 1 - j \in Nat /\ Len(r) + 1 - j < n /\ Len(r) + 1 - j <= Len(r)
            /\ Len(r) + 1 - (Len(r) + 1 - j) = j
        BY <1>0
      <4>. QED
        BY <4>1
    <3>. QED
      BY <3>1, <1>1
  <2>2. /\ From(p \o r)[Len(p) + k] = ReadAt(From(p \o r), p \o r, Len(p) + k)
        /\ From(r)[k] = ReadAt(From(r), r, k)
    BY <2>0, FromExists, <1>0
  <2>3. ReadAt(From(p \o r), p \o r, Len(p) + k) = ReadAt(From(r), r, k)
    <3>. DEFINE F == From(p \o r)
                G == From(r)
    <3>1. \A j \in (k + 1)..(Len(r) + 1) : F[Len(p) + j] = G[j]
      BY <2>1
    <3>. HIDE DEF F, G
    <3>2. ReadAt(F, p \o r, Len(p) + k) = ReadAt(G, r, k)
      BY <2>0, <3>1, ReadShifted, SMTT(30)
    <3>. QED
      BY <3>2 DEF F, G
  <2>. QED
    BY <2>2, <2>3
<1>2. Nat \subseteq Same
  <2>. HIDE DEF Same
  <2>. QED
    BY <1>1, Induction
<1>3. PICK m \in Nat : m <= Len(r) /\ Len(r) + 1 - m = i
  <2>1. Len(r) + 1 - i \in Nat /\ Len(r) + 1 - i <= Len(r) /\ Len(r) + 1 - (Len(r) + 1 - i) = i
    BY <1>0
  <2>. QED
    BY <2>1
<1>. QED
  BY <1>2, <1>3

\* What is read of octets is what is read at their first position.
LEMMA ItemsFirst ==
    ASSUME NEW b \in Octets
    PROVE  /\ Len(b) \in Nat
           /\ Items(b) = ReadAt(From(b), b, 1)
<1>1. 1 \in 1..(Len(b) + 1)
  BY FromExists
<1>. QED
  BY <1>1, FromExists, ItemsIs

\* Behind any octets the rest is read as it would be alone.
LEMMA ItemsRest ==
    ASSUME NEW p \in Octets, NEW r \in Octets
    PROVE  From(p \o r)[Len(p) + 1] = Items(r)
<1>1. 1 \in 1..(Len(r) + 1)
  BY FromExists
<1>. QED
  BY <1>1, Shifted, ItemsIs

\* There is nothing to read of no octets.
LEMMA ItemsNone == Items(<<>>) = <<>>
<1>1. <<>> \in Octets /\ Len(<<>>) = 0
  BY EmptySeq DEF Octets
<1>2. Items(<<>>) = ReadAt(From(<<>>), <<>>, 1)
  BY <1>1, ItemsFirst
<1>. QED
  BY <1>1, <1>2 DEF ReadAt

\* A pad is passed over.
LEMMA ItemsPad ==
    ASSUME NEW r \in Octets
    PROVE  Items(<<Pad>> \o r) = Items(r)
<1>. DEFINE p == <<Pad>>
            b == p \o r
<1>1. p \in Octets /\ Len(p) = 1 /\ p[1] = Pad
  BY DEF Pad, Octets
<1>. HIDE DEF p
<1>2. Len(r) \in Nat /\ b \in Octets /\ Len(b) = 1 + Len(r) /\ b[1] = Pad /\ ~(1 > Len(b))
  <2>1. 1 \in 1..Len(p)
    BY <1>1
  <2>2. Len(r) \in Nat /\ b \in Octets /\ Len(b) = Len(p) + Len(r) /\ b[1] = p[1]
    BY <1>1, <2>1, Behind
  <2>. QED
    BY <1>1, <2>2
<1>3. From(b)[1 + 1] = Items(r)
  BY <1>1, ItemsRest
<1>. HIDE DEF b
<1>4. Items(b) = ReadAt(From(b), b, 1)
  BY <1>2, ItemsFirst
<1>5. ReadAt(From(b), b, 1) = From(b)[1 + 1]
  BY <1>2, ReadCases DEF ReadCased
<1>. QED
  BY <1>3, <1>4, <1>5 DEF b, p

\* What follows an end mark is not read.
LEMMA ItemsEnd ==
    ASSUME NEW r \in Octets
    PROVE  Items(<<End>> \o r) = <<>>
<1>. DEFINE p == <<End>>
            b == p \o r
<1>1. p \in Octets /\ Len(p) = 1 /\ p[1] = End
  BY DEF End, Octets
<1>. HIDE DEF p
<1>2. Len(r) \in Nat /\ b \in Octets /\ Len(b) = 1 + Len(r) /\ b[1] = End /\ ~(1 > Len(b))
  <2>1. 1 \in 1..Len(p)
    BY <1>1
  <2>2. Len(r) \in Nat /\ b \in Octets /\ Len(b) = Len(p) + Len(r) /\ b[1] = p[1]
    BY <1>1, <2>1, Behind
  <2>. QED
    BY <1>1, <2>2
<1>3. End # Pad
  BY DEF End, Pad
<1>. HIDE DEF b
<1>4. Items(b) = ReadAt(From(b), b, 1)
  BY <1>2, ItemsFirst
<1>5. ReadAt(From(b), b, 1) = <<>>
  BY <1>2, <1>3, ReadCases DEF ReadCased
<1>. QED
  BY <1>4, <1>5 DEF b, p

\* The octets of a fragment: the tag, the length and the data.
Coded(c, d) == <<c, Len(d)>> \o d

\* A fragment as AppendTo writes it: the code, the length, and the data.
LEMMA CodedParts ==
    ASSUME NEW c \in Nat, NEW d \in Octets, NEW r \in Octets
    PROVE  /\ Coded(c, d) \in Octets /\ Len(d) \in Nat /\ Len(Coded(c, d)) = Len(d) + 2
           /\ Coded(c, d)[1] = c /\ Coded(c, d)[2] = Len(d)
           /\ (Coded(c, d) \o r)[1] = c /\ (Coded(c, d) \o r)[2] = Len(d)
           /\ SubSeq(Coded(c, d) \o r, 3, 2 + Len(d)) = d
<1>1. Len(d) \in Nat
  BY LenProperties DEF Octets
<1>. DEFINE h == <<c, Len(d)>>
<1>2. h \in Octets /\ Len(h) = 2 /\ h[1] = c /\ h[2] = Len(d)
  BY <1>1 DEF Octets
<1>. HIDE DEF h
<1>3. /\ h \o d \in Octets /\ Len(h \o d) = 2 + Len(d)
      /\ \A i \in 1..2 : (h \o d)[i] = h[i]
  <2>1. /\ h \o d \in Octets /\ Len(h \o d) = Len(h) + Len(d)
        /\ \A i \in 1..Len(h) : (h \o d)[i] = h[i]
    BY <1>2, Behind
  <2>. QED
    BY <1>2, <2>1
<1>4. (h \o d)[1] = c /\ (h \o d)[2] = Len(d)
  BY <1>2, <1>3
<1>. DEFINE e == h \o d
<1>5. \A i \in 1..(2 + Len(d)) : (e \o r)[i] = e[i]
  <2>1. e \in Octets /\ Len(e) = 2 + Len(d)
    BY <1>3
  <2>. HIDE DEF e
  <2>. QED
    BY <2>1, Behind
<1>6. e \o r = h \o (d \o r)
  <2>1. h \in Seq(Nat) /\ d \in Seq(Nat) /\ r \in Seq(Nat)
    BY <1>2 DEF Octets
  <2>. QED
    BY <2>1, ConcatAssociative, SMTT(30)
<1>7. SubSeq(d \o r, 1, Len(d)) = d
  BY <1>1, CutBefore, SubSeqFull DEF Octets
<1>8. SubSeq(h \o (d \o r), 2 + 1, 2 + Len(d)) = SubSeq(d \o r, 1, Len(d))
  <2>. DEFINE q == d \o r
  <2>1. q \in Octets /\ Len(d) <= Len(q)
    BY Behind
  <2>. HIDE DEF q
  <2>2. 1 \in Nat /\ Len(d) \in Nat
    BY <1>1
  <2>3. SubSeq(h \o q, Len(h) + 1, Len(h) + Len(d)) = SubSeq(q, 1, Len(d))
    <3>1. PICK j \in Nat : j = 1
      BY <2>2
    <3>2. PICK k \in Nat : k = Len(d)
      BY <2>2
    <3>3. j >= 1 /\ k <= Len(q)
      BY <2>1, <3>1, <3>2
    <3>4. SubSeq(h \o q, Len(h) + j, Len(h) + k) = SubSeq(q, j, k)
      <4>. HIDE DEF e
      <4>. QED
        BY <1>2, <2>1, <3>3, PartBehind, ZenonT(60)
    <3>. QED
      BY <3>1, <3>2, <3>4
  <2>. QED
    BY <1>2, <2>3 DEF q
<1>9. 2 + 1 = 3 /\ 1 \in 1..(2 + Len(d)) /\ 2 \in 1..(2 + Len(d)) /\ 2 + Len(d) = Len(d) + 2
  BY <1>1
<1>10. SubSeq(e \o r, 3, 2 + Len(d)) = d
  BY <1>6, <1>7, <1>8, <1>9
<1>11. (e \o r)[1] = c /\ (e \o r)[2] = Len(d)
  BY <1>4, <1>5, <1>9
<1>12. Coded(c, d) = h \o d
  BY DEF Coded, h
<1>. HIDE DEF e
<1>. QED
  BY <1>1, <1>3, <1>4, <1>9, <1>10, <1>11, <1>12 DEF e

\* A whole fragment is read, and then what follows it.
LEMMA ItemsOption ==
    ASSUME NEW c \in Nat \ {Pad, End}, NEW d \in Octets, NEW r \in Octets
    PROVE  Items(Coded(c, d) \o r) = <<Option(c, d)>> \o Items(r)
<1>. DEFINE p == Coded(c, d)
            b == p \o r
            n == Len(d)
<1>1. /\ p \in Octets /\ n \in Nat /\ Len(p) = n + 2
      /\ b[1] = c /\ b[2] = n /\ SubSeq(b, 3, 2 + n) = d
  BY CodedParts
<1>. HIDE DEF p, n
<1>2. Len(r) \in Nat /\ b \in Octets /\ Len(b) = n + 2 + Len(r)
  <2>1. Len(r) \in Nat /\ b \in Octets /\ Len(b) = Len(p) + Len(r)
    BY <1>1, Behind
  <2>. QED
    BY <1>1, <2>1
<1>3. From(b)[n + 2 + 1] = Items(r)
  BY <1>1, ItemsRest
<1>. HIDE DEF b
<1>4. /\ 1 + 1 = 2 /\ 1 + 2 = 3 /\ 1 + 1 + n = 2 + n /\ 1 + 2 + n = n + 2 + 1
      /\ ~(1 > Len(b)) /\ 1 # Len(b) /\ ~(1 + 1 + n > Len(b))
  BY <1>1, <1>2
<1>5. /\ b[1] # Pad /\ b[1] # End /\ b[1 + 1] = n
  BY <1>1, <1>4
<1>6. ReadAt(From(b), b, 1)
        = <<Option(b[1], SubSeq(b, 1 + 2, 1 + 1 + b[1 + 1]))>> \o From(b)[1 + 2 + b[1 + 1]]
  <2>1. PICK i : i = 1
    OBVIOUS
  <2>2. /\ ~(i > Len(b)) /\ b[i] # Pad /\ b[i] # End /\ i # Len(b) /\ ~(i + 1 + b[i + 1] > Len(b))
    BY <1>4, <1>5, <2>1
  <2>3. ReadAt(From(b), b, i)
          = <<Option(b[i], SubSeq(b, i + 2, i + 1 + b[i + 1]))>> \o From(b)[i + 2 + b[i + 1]]
    BY <2>2, ReadCases DEF ReadCased
  <2>. QED
    BY <2>1, <2>3
<1>7. ReadAt(From(b), b, 1) = <<Option(c, d)>> \o From(b)[n + 2 + 1]
  BY <1>1, <1>4, <1>5, <1>6
<1>8. Items(b) = ReadAt(From(b), b, 1)
  BY <1>2, ItemsFirst
<1>. QED
  BY <1>3, <1>7, <1>8 DEF b, p

\* Of a fragment that is cut off nothing is read.
LEMMA ItemsCut ==
    ASSUME NEW c \in Nat \ {Pad, End}, NEW d \in Octets, NEW m \in Nat, m < Len(d) + 2
    PROVE  SubSeq(Coded(c, d), 1, m) \in Octets /\ Items(SubSeq(Coded(c, d), 1, m)) = <<>>
<1>. DEFINE p == Coded(c, d)
            n == Len(d)
            b == SubSeq(p, 1, m)
<1>1. /\ p \in Octets /\ n \in Nat /\ Len(p) = n + 2 /\ p[1] = c /\ p[2] = n
  BY CodedParts, EmptySeq DEF Octets
<1>. HIDE DEF p
<1>2. m < n + 2
  OBVIOUS
<1>. HIDE DEF n
<1>3. b \in Octets /\ Len(b) = m /\ (m >= 1 => b[1] = c) /\ (m >= 2 => b[2] = n)
  <2>1. \A i \in 1..m : p[i] \in Nat
    <3>1. \A i \in 1..m : i \in 1..Len(p)
      BY <1>1, <1>2
    <3>. QED
      BY <1>1, <3>1, ElementOfSeq DEF Octets
  <2>2. /\ b \in Seq(Nat) /\ Len(b) = IF 1 <= m THEN m - 1 + 1 ELSE 0
        /\ \A i \in 1..(m - 1 + 1) : b[i] = p[1 + i - 1]
    BY <2>1, SubSeqProperties
  <2>3. m - 1 + 1 = m /\ (m >= 1 => 1 \in 1..m) /\ (m >= 2 => 2 \in 1..m)
        /\ 1 + 1 - 1 = 1 /\ 1 + 2 - 1 = 2 /\ (~(1 <= m) => m = 0)
    OBVIOUS
  <2>. HIDE DEF b
  <2>. QED
    BY <1>1, <2>2, <2>3 DEF Octets
<1>. HIDE DEF b
<1>4. Items(b) = ReadAt(From(b), b, 1)
  BY <1>3, ItemsFirst
<1>5. ReadAt(From(b), b, 1) = <<>>
  <2>1. m = 0 \/ m = 1 \/ m >= 2
    OBVIOUS
  <2>2. b = b /\ c # Pad /\ (m >= 2 => 1 + 1 = 2 /\ b[1 + 1] = n /\ 1 + 1 + n > m)
    BY <1>1, <1>2, <1>3
  <2>3. 1 > Len(b) \/ (~(1 > Len(b)) /\ b[1] # Pad /\ (b[1] = End \/ 1 = Len(b) \/ 1 + 1 + b[1 + 1] > Len(b)))
    BY <1>3, <2>1, <2>2
  <2>. QED
    BY <2>3, ReadCases DEF ReadCased
<1>. QED
  BY <1>3, <1>4, <1>5 DEF b, p

-----------------------------------------------------------------------------
(* Option lists. *)

Has(o, c) == \E i \in DOMAIN o : o[i].code = c

\* The data of an option, or nothing.
Value(o, c) == IF Has(o, c) THEN o[IndexOf(o, c)].data ELSE <<>>

Distinct(o) == \A i, j \in DOMAIN o : o[i].code = o[j].code => i = j

\* IndexOf finds an option if there is one.
LEMMA IndexIs ==
    ASSUME NEW o \in Seq(Item), NEW c
    PROVE  /\ Has(o, c) => IndexOf(o, c) \in DOMAIN o /\ o[IndexOf(o, c)].code = c
           /\ ~Has(o, c) => IndexOf(o, c) = 0
<1>. DEFINE I == {i \in 1..Len(o) : o[i].code = c}
<1>0. Len(o) \in Nat /\ DOMAIN o = 1..Len(o)
  BY LenProperties
<1>1. IndexOf(o, c) = IF I # {} THEN Min(I) ELSE 0
  BY DEF IndexOf, SelectInSeq
<1>2. I # {} <=> Has(o, c)
  BY <1>0 DEF Has
<1>3. I # {} => Min(I) \in I
  <2>. SUFFICES ASSUME I # {} PROVE Min(I) \in I
    OBVIOUS
  <2>1. \E m \in I : \A n \in I : m <= n
    <3>1. I \subseteq Nat
      BY <1>0
    <3>. HIDE DEF I
    <3>. QED
      BY <3>1, Smallest
  <2>2. Min(I) = CHOOSE x \in I : \A y \in I : x <= y
    BY DEF Min
  <2>. HIDE DEF I
  <2>. QED
    BY <2>1, <2>2
<1>. QED
  BY <1>0, <1>1, <1>2, <1>3

\* Get's answer is the data of the option at the position IndexOf finds.
LEMMA GetIs ==
    ASSUME NEW o \in Seq(Item), NEW c
    PROVE  Get(o, c) = IF Has(o, c) THEN {Value(o, c)} ELSE {}
<1>1. DOMAIN o = 1..Len(o) /\ Len(o) \in Nat
  BY LenProperties
<1>2. CASE Has(o, c)
  <2>1. IndexOf(o, c) # 0
    BY <1>1, <1>2, IndexIs
  <2>. QED
    BY <1>2, <2>1 DEF Get, Value
<1>3. CASE ~Has(o, c)
  <2>1. IndexOf(o, c) = 0
    BY <1>3, IndexIs
  <2>. QED
    BY <1>3, <2>1 DEF Get
<1>. QED
  BY <1>2, <1>3

\* Where codes are distinct, the option at a position is the one IndexOf finds.
LEMMA ValueAt ==
    ASSUME NEW o \in Seq(Item), Distinct(o), NEW i \in DOMAIN o
    PROVE  /\ IndexOf(o, o[i].code) = i /\ Value(o, o[i].code) = o[i].data
           /\ Has(o, o[i].code)
<1>1. Has(o, o[i].code)
  BY DEF Has
<1>2. IndexOf(o, o[i].code) \in DOMAIN o /\ o[IndexOf(o, o[i].code)].code = o[i].code
  BY <1>1, IndexIs
<1>3. IndexOf(o, o[i].code) = i
  BY <1>2 DEF Distinct
<1>. QED
  BY <1>1, <1>3 DEF Value

\* The data of an option, or of none, are octets.
LEMMA ValueType ==
    ASSUME NEW o \in Seq(Item), NEW c
    PROVE  Value(o, c) \in Octets
<1>1. CASE Has(o, c)
  <2>1. o[IndexOf(o, c)] \in Item
    BY <1>1, IndexIs, LenProperties, ElementOfSeq
  <2>. QED
    BY <1>1, <2>1 DEF Value, Item
<1>2. CASE ~Has(o, c)
  BY <1>2, EmptySeq DEF Value, Octets
<1>. QED
  BY <1>1, <1>2

\* An option that is not there yet goes to the end.
LEMMA AppendOption ==
    ASSUME NEW o \in Seq(Item), Distinct(o), NEW x \in Item, ~Has(o, x.code)
    PROVE  /\ Append(o, x) \in Seq(Item) /\ Distinct(Append(o, x))
           /\ \A c : /\ Has(Append(o, x), c) <=> Has(o, c) \/ x.code = c
                     /\ Value(Append(o, x), c) = IF x.code = c THEN x.data ELSE Value(o, c)
<1>. DEFINE t == Append(o, x)
            n == Len(o)
<1>1. /\ n \in Nat /\ t \in Seq(Item) /\ Len(t) = n + 1 /\ t[n + 1] = x
      /\ \A i \in 1..n : t[i] = o[i]
      /\ DOMAIN o = 1..n /\ DOMAIN t = 1..(n + 1)
  BY LenProperties, AppendProperties
<1>. HIDE DEF t, n
<1>2. \A i \in 1..(n + 1) : i \in 1..n \/ i = n + 1
  BY <1>1
<1>3. Distinct(t)
  <2>. SUFFICES ASSUME NEW i \in 1..(n + 1), NEW j \in 1..(n + 1), t[i].code = t[j].code
                PROVE  i = j
    BY <1>1 DEF Distinct
  <2>1. CASE i \in 1..n /\ j \in 1..n
    BY <2>1, <1>1 DEF Distinct
  <2>2. CASE i = n + 1 /\ j \in 1..n
    BY <2>2, <1>1 DEF Has
  <2>3. CASE j = n + 1 /\ i \in 1..n
    BY <2>3, <1>1 DEF Has
  <2>. QED
    BY <2>1, <2>2, <2>3, <1>2
<1>4. ASSUME NEW c
      PROVE  Has(t, c) <=> Has(o, c) \/ x.code = c
  <2>1. n + 1 \in 1..(n + 1) /\ \A i \in 1..n : i \in 1..(n + 1)
    BY <1>1
  <2>2. Has(t, c) => Has(o, c) \/ x.code = c
    BY <1>1, <1>2 DEF Has
  <2>3. Has(o, c) => Has(t, c)
    BY <1>1, <2>1 DEF Has
  <2>4. x.code = c => Has(t, c)
    BY <1>1, <2>1 DEF Has
  <2>. QED
    BY <2>2, <2>3, <2>4
<1>5. ASSUME NEW c
      PROVE  Value(t, c) = IF x.code = c THEN x.data ELSE Value(o, c)
  <2>0. n + 1 \in 1..(n + 1) /\ \A i \in 1..n : i \in 1..(n + 1)
    BY <1>1
  <2>1. CASE x.code = c
    BY <2>0, <2>1, <1>1, <1>3, ValueAt
  <2>2. CASE x.code # c /\ Has(o, c)
    <3>1. PICK i \in 1..n : o[i].code = c
      BY <1>1, <2>2 DEF Has
    <3>2. Value(o, c) = o[i].data
      BY <1>1, <3>1, ValueAt
    <3>3. i \in DOMAIN t /\ t[i] = o[i]
      BY <1>1, <2>0, <3>1
    <3>4. Value(t, c) = t[i].data
      BY <1>1, <1>3, <3>1, <3>3, ValueAt
    <3>. QED
      BY <2>2, <3>2, <3>3, <3>4
  <2>3. CASE x.code # c /\ ~Has(o, c)
    BY <1>4, <2>3 DEF Value
  <2>. QED
    BY <2>1, <2>2, <2>3
<1>. QED
  BY <1>1, <1>3, <1>4, <1>5 DEF t

\* One that is there gets other data, at its place.
LEMMA ReplaceData ==
    ASSUME NEW o \in Seq(Item), Distinct(o), NEW i \in DOMAIN o, NEW d \in Octets
    PROVE  /\ [o EXCEPT ![i].data = d] \in Seq(Item) /\ Distinct([o EXCEPT ![i].data = d])
           /\ \A c : /\ Has([o EXCEPT ![i].data = d], c) <=> Has(o, c)
                     /\ Value([o EXCEPT ![i].data = d], c) = IF o[i].code = c THEN d ELSE Value(o, c)
<1>. DEFINE t == [o EXCEPT ![i].data = d]
            n == Len(o)
<1>1. /\ n \in Nat /\ DOMAIN o = 1..n /\ \A j \in 1..n : o[j] \in Item
  BY LenProperties, ElementOfSeq
<1>2. /\ DOMAIN t = 1..n /\ t = [j \in 1..n |-> t[j]]
      /\ \A j \in 1..n : t[j] = IF j = i THEN [o[i] EXCEPT !.data = d] ELSE o[j]
  BY <1>1
<1>3. t[i].code = o[i].code /\ t[i].data = d /\ t[i] \in Item
  BY <1>1, <1>2 DEF Item
<1>. HIDE DEF t, n
<1>4. t \in Seq(Item)
  <2>1. \A j \in 1..n : t[j] \in Item
    BY <1>1, <1>2, <1>3
  <2>. QED
    BY <1>1, <1>2, <2>1, SeqDef
<1>5. \A j \in 1..n : t[j].code = o[j].code /\ (j # i => t[j] = o[j])
  BY <1>1, <1>2, <1>3
<1>6. Distinct(t)
  BY <1>1, <1>2, <1>5 DEF Distinct
<1>7. ASSUME NEW c
      PROVE  Has(t, c) <=> Has(o, c)
  BY <1>1, <1>2, <1>5 DEF Has
<1>8. ASSUME NEW c
      PROVE  Value(t, c) = IF o[i].code = c THEN d ELSE Value(o, c)
  <2>1. CASE o[i].code = c
    BY <2>1, <1>1, <1>2, <1>3, <1>4, <1>6, ValueAt
  <2>2. CASE o[i].code # c /\ Has(o, c)
    <3>1. PICK j \in 1..n : o[j].code = c
      BY <1>1, <2>2 DEF Has
    <3>2. j # i /\ t[j] = o[j]
      BY <2>2, <3>1, <1>5
    <3>3. Value(o, c) = o[j].data
      BY <1>1, <3>1, ValueAt
    <3>4. Value(t, c) = t[j].data
      BY <1>2, <1>4, <1>6, <3>1, <3>2, ValueAt
    <3>. QED
      BY <2>2, <3>2, <3>3, <3>4
  <2>3. CASE o[i].code # c /\ ~Has(o, c)
    BY <1>7, <2>3 DEF Value
  <2>. QED
    BY <2>1, <2>2, <2>3
<1>. QED
  BY <1>4, <1>6, <1>7, <1>8 DEF t

\* A fragment continues the option it belongs to, and no other.
LEMMA ExtendIs ==
    ASSUME NEW o \in Seq(Item), Distinct(o), NEW x \in Item
    PROVE  /\ Extend(o, x) \in Seq(Item) /\ Distinct(Extend(o, x))
           /\ \A c : /\ Has(Extend(o, x), c) <=> Has(o, c) \/ x.code = c
                     /\ Value(Extend(o, x), c) = IF x.code = c THEN Value(o, c) \o x.data
                                                 ELSE Value(o, c)
<1>0. DOMAIN o = 1..Len(o) /\ Len(o) \in Nat /\ x.data \in Seq(Nat)
  BY LenProperties DEF Item, Octets
<1>1. CASE ~Has(o, x.code)
  <2>1. Extend(o, x) = Append(o, x)
    BY <1>1, IndexIs DEF Extend
  <2>2. Value(o, x.code) = <<>> /\ <<>> \o x.data = x.data
    BY <1>0, <1>1, ConcatEmptySeq DEF Value
  <2>. DEFINE t == Append(o, x)
  <2>3. /\ t \in Seq(Item) /\ Distinct(t)
        /\ \A c : /\ Has(t, c) <=> Has(o, c) \/ x.code = c
                  /\ Value(t, c) = IF x.code = c THEN x.data ELSE Value(o, c)
    BY <1>1, AppendOption
  <2>. HIDE DEF t
  <2>4. ASSUME NEW c PROVE Value(t, c) = IF x.code = c THEN Value(o, c) \o x.data ELSE Value(o, c)
    <3>1. CASE x.code = c
      BY <2>2, <2>3, <3>1
    <3>2. CASE x.code # c
      BY <2>3, <3>2
    <3>. QED
      BY <3>1, <3>2
  <2>. QED
    BY <2>1, <2>3, <2>4 DEF t
<1>2. CASE Has(o, x.code)
  <2>. DEFINE i == IndexOf(o, x.code)
              d == o[i].data \o x.data
  <2>1. i \in DOMAIN o /\ o[i].code = x.code
    BY <1>2, IndexIs
  <2>2. i # 0
    BY <1>0, <2>1
  <2>3. Extend(o, x) = [o EXCEPT ![i].data = d]
    BY <2>2 DEF Extend
  <2>4. Value(o, x.code) = o[i].data /\ o[i].data \in Seq(Nat)
    BY <1>2, ValueType DEF Value, Octets
  <2>5. d \in Octets
    BY <1>0, <2>4, ConcatProperties DEF Octets
  <2>6. d = Value(o, x.code) \o x.data
    BY <2>4
  <2>. HIDE DEF d, i
  <2>. DEFINE t == [o EXCEPT ![i].data = d]
  <2>7. /\ t \in Seq(Item) /\ Distinct(t)
        /\ \A c : /\ Has(t, c) <=> Has(o, c)
                  /\ Value(t, c) = IF o[i].code = c THEN d ELSE Value(o, c)
    BY <2>1, <2>5, ReplaceData
  <2>8. Extend(o, x) = t
    BY <2>3
  <2>. HIDE DEF t
  <2>9. ASSUME NEW c
        PROVE  /\ Has(t, c) <=> Has(o, c) \/ x.code = c
               /\ Value(t, c) = IF x.code = c THEN Value(o, c) \o x.data ELSE Value(o, c)
    <3>1. CASE x.code = c
      BY <1>2, <2>1, <2>6, <2>7, <3>1
    <3>2. CASE x.code # c
      BY <2>1, <2>7, <3>2
    <3>. QED
      BY <3>1, <3>2
  <2>. QED
    BY <2>7, <2>8, <2>9
<1>. QED
  BY <1>1, <1>2

-----------------------------------------------------------------------------
(* What parseOptions makes of a list of fragments. *)

State == [options : Seq(Item), overload : Nat]

\* The data of an option in a list of fragments, end to end.
Parts(l, c) == [i \in DOMAIN l |-> IF l[i].code = c THEN l[i].data ELSE <<>>]
Cat(l, c) == FlattenSeq(Parts(l, c))

\* The data of an option in a list, fragment by fragment, are sequences of octets.
LEMMA PartsType ==
    ASSUME NEW l \in Seq(Item), NEW c
    PROVE  Parts(l, c) \in [1..Len(l) -> Octets] /\ Parts(l, c) \in Seq(Octets) /\ Len(l) \in Nat
<1>1. Len(l) \in Nat /\ DOMAIN l = 1..Len(l) /\ \A i \in 1..Len(l) : l[i] \in Item
  BY LenProperties, ElementOfSeq
<1>2. <<>> \in Octets /\ \A i \in 1..Len(l) : l[i].data \in Octets
  BY <1>1, EmptySeq DEF Item, Octets
<1>3. Parts(l, c) \in [1..Len(l) -> Octets]
  BY <1>1, <1>2 DEF Parts
<1>. QED
  BY <1>1, <1>3, SeqDef

\* One more fragment of an option adds its data, another adds nothing.
LEMMA CatMore ==
    ASSUME NEW l \in Seq(Item), NEW x \in Item, NEW c
    PROVE  /\ Cat(Append(l, x), c) = Cat(l, c) \o (IF x.code = c THEN x.data ELSE <<>>)
           /\ Cat(l, c) \in Octets
<1>. DEFINE t == Append(l, x)
            n == Len(l)
<1>1. /\ n \in Nat /\ t \in Seq(Item) /\ Len(t) = n + 1 /\ t[n + 1] = x
      /\ \A i \in 1..n : t[i] = l[i]
      /\ DOMAIN l = 1..n /\ DOMAIN t = 1..(n + 1)
  BY LenProperties, AppendProperties
<1>. HIDE DEF t
<1>2. Parts(t, c) \in [1..(n + 1) -> Octets] /\ Parts(l, c) \in Seq(Octets)
  <2>. HIDE DEF n
  <2>. QED
    BY <1>1, PartsType
<1>. HIDE DEF n
<1>3. [i \in 1..n |-> Parts(t, c)[i]] = Parts(l, c)
  <2>1. \A i \in 1..n : Parts(t, c)[i] = IF l[i].code = c THEN l[i].data ELSE <<>>
    BY <1>1 DEF Parts
  <2>. QED
    BY <1>1, <2>1 DEF Parts
<1>4. Parts(t, c)[n + 1] = IF x.code = c THEN x.data ELSE <<>>
  <2>1. n + 1 \in DOMAIN t
    BY <1>1
  <2>. QED
    BY <1>1, <2>1 DEF Parts
<1>. DEFINE f == Parts(t, c)
            g == Parts(l, c)
<1>5. f \in [1..(n + 1) -> Seq(Nat)] /\ g \in Seq(Seq(Nat)) /\ [i \in 1..n |-> f[i]] = g
  BY <1>2, <1>3 DEF Octets
<1>. HIDE DEF f, g
<1>6. FlattenSeq(f) = FlattenSeq([i \in 1..n |-> f[i]]) \o f[n + 1]
  BY <1>1, <1>5, FlattenLast
<1>7. FlattenSeq(g) \in Seq(Nat)
  BY <1>5, FlattenType
<1>. QED
  BY <1>4, <1>5, <1>6, <1>7 DEF Cat, f, g, t, Octets

\* No fragments have no data.
LEMMA CatNone ==
    ASSUME NEW c
    PROVE  Cat(<<>>, c) = <<>> /\ ~Has(<<>>, c) /\ Distinct(<<>>)
<1>1. Parts(<<>>, c) = <<>>
  BY DEF Parts
<1>. QED
  BY <1>1, FlattenNone DEF Cat, Has, Distinct

\* One more fragment makes one more option known.
LEMMA HasMore ==
    ASSUME NEW l \in Seq(Item), NEW x \in Item, NEW c
    PROVE  Has(Append(l, x), c) <=> Has(l, c) \/ x.code = c
<1>. DEFINE t == Append(l, x)
            n == Len(l)
<1>1. /\ n \in Nat /\ t[n + 1] = x /\ \A i \in 1..n : t[i] = l[i]
      /\ DOMAIN l = 1..n /\ DOMAIN t = 1..(n + 1)
  BY LenProperties, AppendProperties
<1>. HIDE DEF t, n
<1>2. n + 1 \in 1..(n + 1) /\ \A i \in 1..n : i \in 1..(n + 1)
  BY <1>1
<1>3. \A i \in 1..(n + 1) : i \in 1..n \/ i = n + 1
  BY <1>1
<1>4. Has(t, c) => Has(l, c) \/ x.code = c
  BY <1>1, <1>3 DEF Has
<1>5. Has(l, c) => Has(t, c)
  BY <1>1, <1>2 DEF Has
<1>6. x.code = c => Has(t, c)
  BY <1>1, <1>2 DEF Has
<1>. QED
  BY <1>4, <1>5, <1>6 DEF t

Joins(p, l) ==
    LET q == FoldLeft(Take, p, l) IN
    /\ q \in State /\ Distinct(q.options)
    /\ \A c : /\ Has(q.options, c) <=> Has(p.options, c) \/ Has(l, c)
              /\ Value(q.options, c) = Value(p.options, c) \o Cat(l, c)

\* Taking one option keeps the list's codes distinct and adds to its own data only.
LEMMA TakeIs ==
    ASSUME NEW q \in State, Distinct(q.options), NEW x \in Item
    PROVE  /\ Take(q, x) \in State /\ Distinct(Take(q, x).options)
           /\ \A c : /\ Has(Take(q, x).options, c) <=> Has(q.options, c) \/ x.code = c
                     /\ Value(Take(q, x).options, c) = IF x.code = c THEN Value(q.options, c) \o x.data
                                                       ELSE Value(q.options, c)
           /\ Take(q, x).overload = IF x.code = Overload /\ Len(x.data) = 1 THEN x.data[1] ELSE q.overload
<1>1. q.options \in Seq(Item) /\ q.overload \in Nat
  BY DEF State
<1>2. Len(x.data) = 1 => x.data[1] \in Nat
  <2>1. Len(x.data) = 1 => 1 \in 1..Len(x.data)
    OBVIOUS
  <2>. QED
    BY <2>1, ElementOfSeq DEF Item, Octets
<1>. DEFINE o == q.options
            e == Extend(o, x)
            v == IF x.code = Overload /\ Len(x.data) = 1 THEN x.data[1] ELSE q.overload
<1>3. v \in Nat
  BY <1>1, <1>2
<1>4. Take(q, x) = [options |-> e, overload |-> v]
  BY DEF Take
<1>5. /\ e \in Seq(Item) /\ Distinct(e)
      /\ \A c : /\ Has(e, c) <=> Has(o, c) \/ x.code = c
                /\ Value(e, c) = IF x.code = c THEN Value(o, c) \o x.data ELSE Value(o, c)
  <2>. HIDE DEF o
  <2>1. o \in Seq(Item) /\ Distinct(o)
    BY <1>1 DEF o
  <2>. QED
    BY <2>1, ExtendIs
<1>. HIDE DEF e, v
<1>6. Take(q, x).options = e /\ Take(q, x).overload = v /\ Take(q, x) \in State
  BY <1>3, <1>4, <1>5 DEF State
<1>. QED
  BY <1>5, <1>6 DEF v

\* Every option of the list gets the data it had, and then that of its fragments.
LEMMA FoldJoins ==
    ASSUME NEW p \in State, Distinct(p.options), NEW l \in Seq(Item)
    PROVE  Joins(p, l)
<1>. DEFINE Done == {s \in Seq(Item) : Joins(p, s)}
<1>1. <<>> \in Done
  <2>1. FoldLeft(Take, p, <<>>) = p /\ <<>> \in Seq(Item)
    BY FoldNone, EmptySeq
  <2>2. \A c : ~Has(<<>>, c) /\ Value(p.options, c) \o Cat(<<>>, c) = Value(p.options, c)
    <3>. TAKE c
    <3>1. p.options \in Seq(Item)
      BY DEF State
    <3>2. Value(p.options, c) \in Seq(Nat)
      BY <3>1, ValueType DEF Octets
    <3>. QED
      BY <3>2, CatNone, ConcatEmptySeq
  <2>. QED
    BY <2>1, <2>2 DEF Joins
<1>2. ASSUME NEW s \in Seq(Item), NEW x \in Item, s \in Done
      PROVE  Append(s, x) \in Done
  <2>. DEFINE q == FoldLeft(Take, p, s)
              t == Append(s, x)
  <2>1. Joins(p, s) /\ t \in Seq(Item)
    BY <1>2, AppendProperties
  <2>2. FoldLeft(Take, p, t) = Take(q, x)
    BY FoldMore
  <2>3. /\ q \in State /\ Distinct(q.options)
        /\ \A c : /\ Has(q.options, c) <=> Has(p.options, c) \/ Has(s, c)
                  /\ Value(q.options, c) = Value(p.options, c) \o Cat(s, c)
    BY <2>1 DEF Joins
  <2>. HIDE DEF q
  <2>. DEFINE w == Take(q, x)
  <2>4. /\ w \in State /\ Distinct(w.options)
        /\ \A c : /\ Has(w.options, c) <=> Has(q.options, c) \/ x.code = c
                  /\ Value(w.options, c) = IF x.code = c THEN Value(q.options, c) \o x.data
                                           ELSE Value(q.options, c)
    BY <2>3, TakeIs
  <2>. HIDE DEF w
  <2>5. ASSUME NEW c
        PROVE  /\ Has(w.options, c) <=> Has(p.options, c) \/ Has(t, c)
               /\ Value(w.options, c) = Value(p.options, c) \o Cat(t, c)
    <3>1. Has(t, c) <=> Has(s, c) \/ x.code = c
      BY HasMore
    <3>. DEFINE a == Value(p.options, c)
                b == Cat(s, c)
                y == IF x.code = c THEN x.data ELSE <<>>
    <3>2. Cat(t, c) = b \o y /\ b \in Seq(Nat)
      BY CatMore DEF Octets
    <3>3. y \in Seq(Nat)
      BY EmptySeq DEF Item, Octets
    <3>4. a \in Seq(Nat)
      <4>1. p.options \in Seq(Item)
        BY DEF State
      <4>. QED
        BY <4>1, ValueType DEF Octets
    <3>5. Value(w.options, c) = (a \o b) \o y
      <4>1. CASE x.code = c
        BY <2>3, <2>4, <4>1
      <4>2. CASE x.code # c
        <5>1. a \o b \in Seq(Nat)
          <6>. HIDE DEF a, b
          <6>. QED
            BY <3>2, <3>4, ConcatProperties
        <5>. QED
          BY <2>3, <2>4, <4>2, <5>1, ConcatEmptySeq
      <4>. QED
        BY <4>1, <4>2
    <3>. HIDE DEF a, b, y
    <3>6. (a \o b) \o y = a \o (b \o y)
      <4>1. a \in Seq(Nat) /\ b \in Seq(Nat) /\ y \in Seq(Nat)
        BY <3>2, <3>3, <3>4
      <4>2. \A e, f, g \in Seq(Nat) : (e \o f) \o g = e \o (f \o g)
        <5>. TAKE e, f, g \in Seq(Nat)
        <5>. QED
          BY ConcatAssociative, SMTT(30)
      <4>. QED
        BY <4>1, <4>2
    <3>. QED
      BY <2>3, <2>4, <3>1, <3>2, <3>5, <3>6 DEF a
  <2>6. Joins(p, t)
    BY <2>2, <2>4, <2>5 DEF Joins, w
  <2>. QED
    BY <2>1, <2>6
<1>3. Seq(Item) \subseteq Done
  <2>. HIDE DEF Done
  <2>. QED
    BY <1>1, <1>2, SequenceInduction
<1>. QED
  BY <1>3

\* The flags are those of the overload option, if there is one and no other.
LEMMA FoldFlags ==
    ASSUME NEW p \in State, Distinct(p.options), NEW v \in Nat, NEW l \in Seq(Item),
           \A i \in DOMAIN l : l[i].code = Overload => l[i].data = <<v>>
    PROVE  FoldLeft(Take, p, l).overload = IF Has(l, Overload) THEN v ELSE p.overload
<1>. DEFINE Alike(s) == \A i \in DOMAIN s : s[i].code = Overload => s[i].data = <<v>>
            Flagged(s) == FoldLeft(Take, p, s).overload = IF Has(s, Overload) THEN v ELSE p.overload
            Done == {s \in Seq(Item) : Alike(s) => Flagged(s)}
<1>1. <<>> \in Done
  <2>1. FoldLeft(Take, p, <<>>) = p /\ <<>> \in Seq(Item) /\ ~Has(<<>>, Overload)
    BY FoldNone, EmptySeq, CatNone
  <2>. QED
    BY <2>1
<1>2. ASSUME NEW s \in Seq(Item), NEW x \in Item, s \in Done
      PROVE  Append(s, x) \in Done
  <2>. DEFINE t == Append(s, x)
              q == FoldLeft(Take, p, s)
              n == Len(s)
  <2>1. /\ n \in Nat /\ t \in Seq(Item) /\ t[n + 1] = x /\ \A i \in 1..n : t[i] = s[i]
        /\ DOMAIN s = 1..n /\ DOMAIN t = 1..(n + 1)
    BY LenProperties, AppendProperties
  <2>2. FoldLeft(Take, p, t) = Take(q, x)
    BY FoldMore
  <2>3. q \in State /\ Distinct(q.options)
    BY FoldJoins DEF Joins
  <2>. HIDE DEF q, t, n
  <2>4. Take(q, x).overload = IF x.code = Overload /\ Len(x.data) = 1 THEN x.data[1] ELSE q.overload
    BY <2>3, TakeIs
  <2>5. Has(t, Overload) <=> Has(s, Overload) \/ x.code = Overload
    BY HasMore DEF t
  <2>. SUFFICES ASSUME Alike(t) PROVE Flagged(t)
    BY <2>1 DEF t
  <2>6. n + 1 \in DOMAIN t /\ \A i \in DOMAIN s : i \in DOMAIN t
    BY <2>1
  <2>7. Alike(s)
    BY <2>1, <2>6
  <2>8. x.code = Overload => x.data = <<v>>
    BY <2>1, <2>6
  <2>9. q.overload = IF Has(s, Overload) THEN v ELSE p.overload
    BY <1>2, <2>7 DEF q
  <2>10. Len(<<v>>) = 1 /\ <<v>>[1] = v
    OBVIOUS
  <2>. QED
    BY <2>2, <2>4, <2>5, <2>8, <2>9, <2>10
<1>3. Seq(Item) \subseteq Done
  <2>. HIDE DEF Done
  <2>. QED
    BY <1>1, <1>2, SequenceInduction
<1>. QED
  BY <1>3

\* One list after another is one list.
LEMMA FoldConcat ==
    ASSUME NEW p, NEW l \in Seq(Item), NEW m \in Seq(Item)
    PROVE  FoldLeft(Take, p, l \o m) = FoldLeft(Take, FoldLeft(Take, p, l), m)
<1>. DEFINE q == FoldLeft(Take, p, l)
            Done == {s \in Seq(Item) : FoldLeft(Take, p, l \o s) = FoldLeft(Take, q, s)}
<1>1. <<>> \in Done
  BY FoldNone, EmptySeq, ConcatEmptySeq
<1>2. ASSUME NEW s \in Seq(Item), NEW x \in Item, s \in Done
      PROVE  Append(s, x) \in Done
  <2>1. Append(s, x) \in Seq(Item) /\ Append(s, x) = s \o <<x>> /\ <<x>> \in Seq(Item)
    BY AppendProperties, AppendIsConcat
  <2>2. l \o s \in Seq(Item)
    BY ConcatProperties
  <2>3. l \o (s \o <<x>>) = (l \o s) \o <<x>>
    BY <2>1, ConcatAssociative
  <2>4. (l \o s) \o <<x>> = Append(l \o s, x)
    BY <2>2, AppendIsConcat
  <2>5. FoldLeft(Take, p, Append(l \o s, x)) = Take(FoldLeft(Take, p, l \o s), x)
    BY <2>2, FoldMore
  <2>6. FoldLeft(Take, q, Append(s, x)) = Take(FoldLeft(Take, q, s), x)
    <3>. HIDE DEF q
    <3>. QED
      BY FoldMore
  <2>7. FoldLeft(Take, p, l \o s) = FoldLeft(Take, q, s)
    BY <1>2
  <2>. QED
    BY <2>1, <2>3, <2>4, <2>5, <2>6, <2>7
<1>3. Seq(Item) \subseteq Done
  <2>. HIDE DEF Done
  <2>. QED
    BY <1>1, <1>2, SequenceInduction
<1>. QED
  BY <1>3

-----------------------------------------------------------------------------
(* What an area says, while it is written and wherever it is cut off. *)

Mark == [code : Nat, data : Octets, ends : Nat]

\* The fragments composed, as they are read.
Composed(m) == [i \in DOMAIN m |-> Option(m[i].code, m[i].data)]

Within(b, m) == \A i \in DOMAIN m : m[i].ends <= Len(b)

\* Of the first n octets the first k fragments are read, those that end there.
ReadsUpto(b, m, n) ==
    \E k \in 0..Len(m) :
        /\ \A i \in DOMAIN m : m[i].ends <= n <=> i <= k
        /\ Items(SubSeq(b, 1, n)) = SubSeq(Composed(m), 1, k)

Reads(b, m) == \A n \in 0..Len(b) : ReadsUpto(b, m, n)

\* What is put behind is read next, or not at all.
GoesOn(b, m, e) == \A r \in Octets : Items(b \o r) = IF e THEN Composed(m) ELSE Composed(m) \o Items(r)

Written(b, m, e) ==
    /\ b \in Octets /\ m \in Seq(Mark)
    /\ Within(b, m) /\ Reads(b, m) /\ GoesOn(b, m, e)

\* The fragments composed are a list of options, as long as the list of marks.
LEMMA ComposedType ==
    ASSUME NEW m \in Seq(Mark)
    PROVE  /\ Len(m) \in Nat /\ DOMAIN m = 1..Len(m) /\ \A i \in 1..Len(m) : m[i] \in Mark
           /\ Composed(m) \in Seq(Item) /\ Len(Composed(m)) = Len(m)
           /\ \A i \in 1..Len(m) : Composed(m)[i] = Option(m[i].code, m[i].data)
           /\ SubSeq(Composed(m), 1, Len(m)) = Composed(m)
<1>1. Len(m) \in Nat /\ DOMAIN m = 1..Len(m) /\ \A i \in 1..Len(m) : m[i] \in Mark
  BY LenProperties, ElementOfSeq
<1>2. \A i \in 1..Len(m) : Option(m[i].code, m[i].data) \in Item
  BY <1>1 DEF Mark, Item, Option
<1>. DEFINE f == Composed(m)
<1>3. f = [i \in 1..Len(m) |-> f[i]] /\ \A i \in 1..Len(m) : f[i] = Option(m[i].code, m[i].data)
  BY <1>1 DEF Composed
<1>. HIDE DEF f
<1>4. f \in Seq(Item) /\ Len(f) = Len(m)
  BY <1>1, <1>2, <1>3, SeqDef
<1>5. SubSeq(f, 1, Len(f)) = f
  BY <1>4, SubSeqFull
<1>. QED
  BY <1>1, <1>3, <1>4, <1>5 DEF f

\* One more mark is one more fragment composed, behind all others.
LEMMA ComposedMore ==
    ASSUME NEW m \in Seq(Mark), NEW x \in Mark
    PROVE  /\ Composed(Append(m, x)) = Composed(m) \o <<Option(x.code, x.data)>>
           /\ \A k \in 0..Len(m) : SubSeq(Composed(Append(m, x)), 1, k) = SubSeq(Composed(m), 1, k)
<1>. DEFINE t == Append(m, x)
            n == Len(m)
            f == Composed(m)
            y == Option(x.code, x.data)
            g == Append(f, y)
<1>1. /\ n \in Nat /\ t \in Seq(Mark) /\ Len(t) = n + 1 /\ t[n + 1] = x
      /\ \A i \in 1..n : t[i] = m[i]
  BY LenProperties, AppendProperties
<1>2. f \in Seq(Item) /\ Len(f) = n /\ \A i \in 1..n : f[i] = Option(m[i].code, m[i].data)
  BY ComposedType
<1>3. y \in Item
  BY DEF Mark, Item, Option
<1>. HIDE DEF t, n, f, y
<1>4. /\ g \in Seq(Item) /\ Len(g) = n + 1 /\ g[n + 1] = y /\ \A i \in 1..n : g[i] = f[i]
      /\ g = f \o <<y>>
  BY <1>2, <1>3, AppendProperties, AppendIsConcat
<1>5. Composed(t) \in Seq(Item) /\ Len(Composed(t)) = n + 1
      /\ \A i \in 1..(n + 1) : Composed(t)[i] = Option(t[i].code, t[i].data)
  BY <1>1, ComposedType
<1>6. \A i \in 1..(n + 1) : Composed(t)[i] = g[i]
  <2>1. \A i \in 1..(n + 1) : i \in 1..n \/ i = n + 1
    BY <1>1
  <2>2. \A i \in 1..n : i \in 1..(n + 1)
    BY <1>1
  <2>3. \A i \in 1..n : Composed(t)[i] = g[i]
    BY <1>1, <1>2, <1>4, <1>5, <2>2
  <2>4. Composed(t)[n + 1] = g[n + 1]
    <3>1. n + 1 \in 1..(n + 1)
      BY <1>1
    <3>. QED
      BY <1>1, <1>4, <1>5, <3>1 DEF y
  <2>. QED
    BY <2>1, <2>3, <2>4
<1>7. Composed(t) = g
  BY <1>4, <1>5, <1>6, SeqEqual
<1>8. ASSUME NEW k \in 0..n PROVE SubSeq(g, 1, k) = SubSeq(f, 1, k)
  <2>1. <<y>> \in Seq(Item) /\ k \in Nat /\ k <= Len(f)
    BY <1>1, <1>2, <1>3
  <2>. QED
    BY <1>2, <1>4, <2>1, CutBefore
<1>. QED
  BY <1>4, <1>7, <1>8 DEF t, n, f, y

\* Nothing is written yet.
LEMMA WrittenNone == Written(<<>>, <<>>, FALSE)
<1>. DEFINE z == <<>>
<1>1. z \in Octets /\ z \in Seq(Mark) /\ Len(z) = 0 /\ DOMAIN z = {} /\ z \in Seq(Item)
  BY EmptySeq DEF Octets
<1>2. Composed(z) = z
  BY DEF Composed
<1>3. SubSeq(z, 1, 0) = z
  BY SubSeqEmpty
<1>. HIDE DEF z
<1>4. Items(z) = z
  BY ItemsNone DEF z
<1>5. Reads(z, z)
  <2>1. 0 \in 0..Len(z) /\ \A n \in 0..Len(z) : n = 0
    BY <1>1
  <2>2. ReadsUpto(z, z, 0)
    BY <1>1, <1>2, <1>3, <1>4, <2>1 DEF ReadsUpto
  <2>. QED
    BY <2>1, <2>2 DEF Reads
<1>6. GoesOn(z, z, FALSE)
  <2>. SUFFICES ASSUME NEW r \in Octets PROVE Items(z \o r) = Composed(z) \o Items(r)
    BY DEF GoesOn
  <2>1. z \o r = r
    BY ConcatEmptySeq DEF Octets, z
  <2>2. z \o Items(r) = Items(r)
    BY ItemsType, ConcatEmptySeq DEF z
  <2>. QED
    BY <1>2, <2>1, <2>2
<1>. QED
  BY <1>1, <1>5, <1>6 DEF Written, Within, z

\* Octets behind an area change nothing before them; where they say nothing, all that
\* was composed is read, however many of them arrive.
LEMMA WrittenSame ==
    ASSUME NEW b, NEW m, NEW e, Written(b, m, e), NEW q \in Octets, NEW g,
           \A j \in 1..Len(q) : Items(b \o SubSeq(q, 1, j)) = Composed(m),
           GoesOn(b \o q, m, g)
    PROVE  Written(b \o q, m, g)
<1>. DEFINE t == b \o q
<1>1. b \in Octets /\ m \in Seq(Mark) /\ Within(b, m) /\ Reads(b, m)
  BY DEF Written
<1>2. t \in Octets /\ Len(t) = Len(b) + Len(q) /\ Len(b) \in Nat /\ Len(q) \in Nat
  BY <1>1, Behind
<1>3. /\ Len(m) \in Nat /\ DOMAIN m = 1..Len(m) /\ \A i \in 1..Len(m) : m[i] \in Mark
      /\ SubSeq(Composed(m), 1, Len(m)) = Composed(m)
  BY <1>1, ComposedType
<1>4. Within(t, m)
  <2>1. \A i \in 1..Len(m) : m[i].ends \in Nat /\ m[i].ends <= Len(b)
    BY <1>1, <1>3 DEF Within, Mark
  <2>. HIDE DEF t
  <2>. QED
    BY <1>2, <1>3, <2>1 DEF Within
<1>5. ASSUME NEW n \in 0..Len(t) PROVE ReadsUpto(t, m, n)
  <2>0. n \in Nat
    BY <1>2
  <2>1. CASE n <= Len(b)
    <3>1. n \in 0..Len(b)
      BY <2>0, <2>1
    <3>2. SubSeq(t, 1, n) = SubSeq(b, 1, n)
      BY <1>1, <2>0, <2>1, CutBefore DEF Octets
    <3>. HIDE DEF t
    <3>. QED
      BY <1>1, <3>1, <3>2 DEF Reads, ReadsUpto
  <2>2. CASE ~(n <= Len(b))
    <3>1. PICK j \in 1..Len(q) : n = Len(b) + j
      <4>1. n - Len(b) \in 1..Len(q) /\ n = Len(b) + (n - Len(b))
        BY <1>2, <2>2
      <4>. QED
        BY <4>1
    <3>2. SubSeq(t, 1, Len(b) + j) = b \o SubSeq(q, 1, j)
      <4>1. j \in Nat /\ j <= Len(q)
        BY <1>2
      <4>. QED
        BY <1>1, <4>1, CutBehind DEF Octets
    <3>. HIDE DEF t
    <3>3. Items(SubSeq(t, 1, n)) = SubSeq(Composed(m), 1, Len(m))
      BY <1>3, <3>1, <3>2
    <3>4. \A i \in 1..Len(m) : m[i].ends <= n /\ i <= Len(m)
      <4>1. \A i \in 1..Len(m) : m[i].ends \in Nat /\ m[i].ends <= Len(b)
        BY <1>1, <1>3 DEF Within, Mark
      <4>. QED
        BY <1>2, <1>3, <2>0, <2>2, <4>1
    <3>5. Len(m) \in 0..Len(m)
      BY <1>3
    <3>. QED
      BY <1>3, <3>3, <3>4, <3>5 DEF ReadsUpto
  <2>. QED
    BY <2>1, <2>2
<1>6. Reads(t, m)
  BY <1>5 DEF Reads
<1>. QED
  BY <1>1, <1>2, <1>4, <1>6 DEF Written

\* Composed(m) and nothing after it.
LEMMA ComposedAlone ==
    ASSUME NEW m \in Seq(Mark)
    PROVE  Composed(m) \o <<>> = Composed(m)
  BY ComposedType, ConcatEmptySeq

\* One octet, and a part of it.
LEMMA OneOctet ==
    ASSUME NEW v \in Nat
    PROVE  /\ <<v>> \in Octets /\ Len(<<v>>) = 1
           /\ \A j \in 1..1 : SubSeq(<<v>>, 1, j) = <<v>>
<1>1. <<v>> \in Seq(Nat) /\ Len(<<v>>) = 1
  OBVIOUS
<1>2. SubSeq(<<v>>, 1, 1) = <<v>>
  BY <1>1, SubSeqFull
<1>3. \A j \in 1..1 : j = 1
  OBVIOUS
<1>. QED
  BY <1>1, <1>2, <1>3 DEF Octets

\* Three lists of options, end to end in either order.
LEMMA ItemsAssociative ==
    ASSUME NEW l \in Seq(Item), NEW m \in Seq(Item), NEW k \in Seq(Item)
    PROVE  (l \o m) \o k = l \o (m \o k)
  BY ConcatAssociative, SMTT(30)

\* Three sequences of octets, end to end in either order.
LEMMA OctetsAssociative ==
    ASSUME NEW b \in Octets, NEW d \in Octets, NEW r \in Octets
    PROVE  (b \o d) \o r = b \o (d \o r)
<1>1. \A s, t, u \in Seq(Nat) : (s \o t) \o u = s \o (t \o u)
  <2>. TAKE s, t, u \in Seq(Nat)
  <2>. QED
    BY ConcatAssociative, SMTT(30)
<1>. QED
  BY <1>1 DEF Octets

\* A pad behind what was written changes nothing that is read (PutPad).
LEMMA WrittenPad ==
    ASSUME NEW b, NEW m, Written(b, m, FALSE)
    PROVE  Written(b \o <<Pad>>, m, FALSE)
<1>. DEFINE q == <<Pad>>
<1>1. b \in Octets /\ m \in Seq(Mark) /\ GoesOn(b, m, FALSE)
  BY DEF Written
<1>2. q \in Octets /\ Len(q) = 1 /\ \A j \in 1..1 : SubSeq(q, 1, j) = q
  BY OneOctet DEF Pad
<1>3. \A r \in Octets : Items(q \o r) = Items(r)
  BY ItemsPad
<1>4. Items(q) = <<>>
  <2>1. <<>> \in Octets /\ q \o <<>> = q
    BY <1>2, EmptySeq, ConcatEmptySeq DEF Octets
  <2>. QED
    BY <1>3, <2>1, ItemsNone
<1>. HIDE DEF q
<1>5. Items(b \o q) = Composed(m)
  BY <1>1, <1>2, <1>4, ComposedAlone DEF GoesOn
<1>6. GoesOn(b \o q, m, FALSE)
  <2>. SUFFICES ASSUME NEW r \in Octets PROVE Items((b \o q) \o r) = Composed(m) \o Items(r)
    BY DEF GoesOn
  <2>1. (b \o q) \o r = b \o (q \o r)
    BY <1>1, <1>2, OctetsAssociative
  <2>2. q \o r \in Octets
    BY <1>2, ConcatProperties DEF Octets
  <2>. QED
    BY <1>1, <1>3, <2>1, <2>2 DEF GoesOn
<1>7. \A j \in 1..Len(q) : Items(b \o SubSeq(q, 1, j)) = Composed(m)
  BY <1>2, <1>5
<1>. QED
  BY <1>2, <1>6, <1>7, WrittenSame DEF q

\* Behind an end mark nothing more will be read (PutEnd).
LEMMA WrittenEnd ==
    ASSUME NEW b, NEW m, Written(b, m, FALSE)
    PROVE  Written(b \o <<End>>, m, TRUE)
<1>. DEFINE q == <<End>>
<1>1. b \in Octets /\ m \in Seq(Mark) /\ GoesOn(b, m, FALSE)
  BY DEF Written
<1>2. q \in Octets /\ Len(q) = 1 /\ \A j \in 1..1 : SubSeq(q, 1, j) = q
  BY OneOctet DEF End
<1>3. \A r \in Octets : Items(q \o r) = <<>>
  BY ItemsEnd
<1>4. Items(q) = <<>>
  <2>1. <<>> \in Octets /\ q \o <<>> = q
    BY <1>2, EmptySeq, ConcatEmptySeq DEF Octets
  <2>. QED
    BY <1>3, <2>1
<1>. HIDE DEF q
<1>5. Items(b \o q) = Composed(m)
  BY <1>1, <1>2, <1>4, ComposedAlone DEF GoesOn
<1>6. GoesOn(b \o q, m, TRUE)
  <2>. SUFFICES ASSUME NEW r \in Octets PROVE Items((b \o q) \o r) = Composed(m)
    BY DEF GoesOn
  <2>1. (b \o q) \o r = b \o (q \o r)
    BY <1>1, <1>2, OctetsAssociative
  <2>2. q \o r \in Octets
    BY <1>2, ConcatProperties DEF Octets
  <2>. QED
    BY <1>1, <1>3, <2>1, <2>2, ComposedAlone DEF GoesOn
<1>7. \A j \in 1..Len(q) : Items(b \o SubSeq(q, 1, j)) = Composed(m)
  BY <1>2, <1>5
<1>. QED
  BY <1>2, <1>6, <1>7, WrittenSame DEF q

\* Behind an end mark there may be anything.
LEMMA WrittenAfterEnd ==
    ASSUME NEW b, NEW m, Written(b, m, TRUE), NEW q \in Octets
    PROVE  Written(b \o q, m, TRUE)
<1>1. b \in Octets /\ m \in Seq(Mark) /\ GoesOn(b, m, TRUE)
  BY DEF Written
<1>2. GoesOn(b \o q, m, TRUE)
  <2>. SUFFICES ASSUME NEW r \in Octets PROVE Items((b \o q) \o r) = Composed(m)
    BY DEF GoesOn
  <2>1. (b \o q) \o r = b \o (q \o r)
    BY <1>1, OctetsAssociative
  <2>2. q \o r \in Octets
    BY ConcatProperties DEF Octets
  <2>. QED
    BY <1>1, <2>1, <2>2 DEF GoesOn
<1>3. \A j \in 1..Len(q) : Items(b \o SubSeq(q, 1, j)) = Composed(m)
  <2>. TAKE j \in 1..Len(q)
  <2>1. SubSeq(q, 1, j) \in Octets
    <3>1. j \in Nat /\ j <= Len(q)
      BY LenProperties DEF Octets
    <3>. QED
      BY <3>1, Cut DEF Octets
  <2>. QED
    BY <1>1, <2>1 DEF GoesOn
<1>. QED
  BY <1>2, <1>3, WrittenSame

\* A fragment behind an area is read where it arrives whole, and where it is cut off it
\* takes nothing else along.
LEMMA WrittenOption ==
    ASSUME NEW b, NEW m, Written(b, m, FALSE), NEW c \in Nat \ {Pad, End}, NEW d \in Octets
    PROVE  Written(b \o Coded(c, d),
                   Append(m, [code |-> c, data |-> d, ends |-> Len(b \o Coded(c, d))]), FALSE)
<1>. DEFINE q == Coded(c, d)
            t == b \o q
            x == [code |-> c, data |-> d, ends |-> Len(t)]
            w == Append(m, x)
            y == Option(c, d)
<1>1. b \in Octets /\ m \in Seq(Mark) /\ Within(b, m) /\ Reads(b, m) /\ GoesOn(b, m, FALSE)
  BY DEF Written
<1>2. q \in Octets /\ Len(q) = Len(d) + 2 /\ Len(d) \in Nat
  BY <1>1, CodedParts
<1>3. \A r \in Octets : Items(q \o r) = <<y>> \o Items(r)
  BY ItemsOption
<1>4. \A j \in Nat : j < Len(d) + 2 => SubSeq(q, 1, j) \in Octets /\ Items(SubSeq(q, 1, j)) = <<>>
  BY ItemsCut
<1>5. y \in Item /\ <<y>> \in Seq(Item)
  BY DEF Item, Option
<1>. HIDE DEF q, y
<1>6. Items(q) = <<y>>
  <2>1. <<>> \in Octets /\ q \o <<>> = q
    BY <1>2, EmptySeq, ConcatEmptySeq DEF Octets
  <2>2. Items(q \o <<>>) = <<y>> \o <<>>
    BY <1>3, <2>1, ItemsNone
  <2>3. <<y>> \o <<>> = <<y>>
    BY <1>5, ConcatEmptySeq
  <2>. QED
    BY <2>1, <2>2, <2>3
<1>7. t \in Octets /\ Len(t) = Len(b) + Len(q) /\ Len(b) \in Nat /\ Len(q) \in Nat
  BY <1>1, <1>2, Behind
<1>. HIDE DEF t
<1>8. x \in Mark /\ x.ends = Len(t) /\ Option(x.code, x.data) = y
  BY <1>7 DEF Mark, y
<1>. HIDE DEF x
<1>9. /\ Len(m) \in Nat /\ w \in Seq(Mark) /\ Len(w) = Len(m) + 1 /\ w[Len(m) + 1] = x
      /\ DOMAIN w = 1..(Len(m) + 1) /\ \A i \in 1..Len(m) : w[i] = m[i]
  BY <1>1, <1>8, AppendProperties, LenProperties
<1>10. /\ DOMAIN m = 1..Len(m) /\ \A i \in 1..Len(m) : m[i] \in Mark
       /\ SubSeq(Composed(m), 1, Len(m)) = Composed(m) /\ Composed(m) \in Seq(Item)
  BY <1>1, ComposedType
<1>11. /\ Composed(w) = Composed(m) \o <<y>>
       /\ \A k \in 0..Len(m) : SubSeq(Composed(w), 1, k) = SubSeq(Composed(m), 1, k)
  BY <1>1, <1>8, ComposedMore
<1>12. SubSeq(Composed(w), 1, Len(m) + 1) = Composed(w)
  BY <1>9, ComposedType
<1>. HIDE DEF w
<1>13. \A i \in 1..Len(m) : m[i].ends \in Nat /\ m[i].ends <= Len(b)
  BY <1>1, <1>10 DEF Within, Mark
<1>14. \A i \in 1..(Len(m) + 1) : i \in 1..Len(m) \/ i = Len(m) + 1
  BY <1>9
<1>15. Within(t, w)
  <2>1. \A i \in 1..Len(m) : w[i].ends <= Len(t)
    BY <1>2, <1>7, <1>9, <1>13
  <2>2. w[Len(m) + 1].ends <= Len(t)
    BY <1>7, <1>8, <1>9
  <2>. QED
    BY <1>9, <1>14, <2>1, <2>2 DEF Within
<1>16. GoesOn(t, w, FALSE)
  <2>. SUFFICES ASSUME NEW r \in Octets PROVE Items(t \o r) = Composed(w) \o Items(r)
    BY DEF GoesOn
  <2>0. b \in Seq(Nat) /\ q \in Seq(Nat) /\ r \in Seq(Nat)
    BY <1>1, <1>2 DEF Octets
  <2>1. t \o r = b \o (q \o r) /\ q \o r \in Octets
    <3>1. q \o r \in Octets
      BY <2>0, ConcatProperties DEF Octets
    <3>2. (b \o q) \o r = b \o (q \o r)
      <4>. HIDE DEF t, q
      <4>. QED
        BY <2>0, OctetsAssociative, SMTT(30) DEF Octets
    <3>. QED
      BY <3>1, <3>2 DEF t
  <2>2. Items(t \o r) = Composed(m) \o (<<y>> \o Items(r))
    BY <1>1, <1>3, <2>1 DEF GoesOn
  <2>3. Composed(m) \o (<<y>> \o Items(r)) = (Composed(m) \o <<y>>) \o Items(r)
    BY <1>5, <1>10, ItemsType, ConcatAssociative
  <2>. QED
    BY <1>11, <2>2, <2>3
<1>17. ASSUME NEW n \in 0..Len(t) PROVE ReadsUpto(t, w, n)
  <2>0. n \in Nat
    BY <1>7
  <2>1. CASE n <= Len(b)
    <3>1. n \in 0..Len(b)
      BY <2>0, <2>1
    <3>2. SubSeq(t, 1, n) = SubSeq(b, 1, n)
      BY <1>1, <1>2, <2>0, <2>1, CutBefore DEF Octets, t
    <3>3. PICK k \in 0..Len(m) : /\ \A i \in DOMAIN m : m[i].ends <= n <=> i <= k
                                 /\ Items(SubSeq(b, 1, n)) = SubSeq(Composed(m), 1, k)
      BY <1>1, <3>1 DEF Reads, ReadsUpto
    <3>4. k \in 0..(Len(m) + 1) /\ k \in Nat /\ ~(Len(m) + 1 <= k)
      BY <1>9
    <3>5. ~(Len(t) <= n)
      BY <1>2, <1>7, <2>0, <2>1
    <3>6. \A i \in DOMAIN w : w[i].ends <= n <=> i <= k
      <4>1. \A i \in 1..Len(m) : w[i].ends <= n <=> i <= k
        BY <1>9, <1>10, <3>3
      <4>2. w[Len(m) + 1].ends <= n <=> Len(m) + 1 <= k
        BY <1>8, <1>9, <3>4, <3>5
      <4>. QED
        BY <1>9, <1>14, <4>1, <4>2
    <3>7. Items(SubSeq(t, 1, n)) = SubSeq(Composed(w), 1, k)
      BY <1>11, <3>2, <3>3
    <3>. QED
      BY <1>9, <3>4, <3>6, <3>7 DEF ReadsUpto
  <2>2. CASE ~(n <= Len(b))
    <3>1. PICK j \in 1..Len(q) : n = Len(b) + j
      <4>1. n - Len(b) \in 1..Len(q) /\ n = Len(b) + (n - Len(b))
        BY <1>7, <2>2
      <4>. QED
        BY <4>1
    <3>2. SubSeq(t, 1, Len(b) + j) = b \o SubSeq(q, 1, j) /\ j \in Nat /\ j <= Len(q)
      <4>1. j \in Nat /\ j <= Len(q)
        BY <1>7
      <4>. QED
        BY <1>1, <1>2, <4>1, CutBehind DEF Octets, t
    <3>3. \A i \in 1..Len(m) : w[i].ends <= n
      BY <1>7, <1>9, <1>13, <2>0, <2>2
    <3>4. CASE j < Len(d) + 2
      <4>1. SubSeq(q, 1, j) \in Octets /\ Items(SubSeq(q, 1, j)) = <<>>
        BY <1>4, <3>2, <3>4
      <4>2. Items(SubSeq(t, 1, n)) = Composed(m)
        BY <1>1, <3>1, <3>2, <4>1, ComposedAlone DEF GoesOn
      <4>3. Len(m) \in 0..Len(m) /\ Len(m) \in 0..(Len(m) + 1) /\ ~(Len(m) + 1 <= Len(m))
            /\ \A i \in 1..Len(m) : i <= Len(m)
        BY <1>9
      <4>4. Items(SubSeq(t, 1, n)) = SubSeq(Composed(w), 1, Len(m))
        BY <1>10, <1>11, <4>2, <4>3
      <4>5. ~(Len(t) <= n)
        BY <1>2, <1>7, <3>1, <3>2, <3>4
      <4>6. \A i \in DOMAIN w : w[i].ends <= n <=> i <= Len(m)
        <5>1. \A i \in 1..Len(m) : w[i].ends <= n <=> i <= Len(m)
          BY <3>3, <4>3
        <5>2. w[Len(m) + 1].ends <= n <=> Len(m) + 1 <= Len(m)
          BY <1>8, <1>9, <4>3, <4>5
        <5>. QED
          BY <1>9, <1>14, <5>1, <5>2
      <4>. QED
        BY <1>9, <4>3, <4>4, <4>6 DEF ReadsUpto
    <3>5. CASE ~(j < Len(d) + 2)
      <4>0. j = Len(q)
        BY <1>2, <3>2, <3>5
      <4>1. n = Len(t) /\ j = Len(q)
        BY <1>7, <3>1, <4>0
      <4>2. SubSeq(t, 1, n) = b \o q
        BY <1>2, <3>1, <3>2, <4>1, SubSeqFull DEF Octets
      <4>3. Items(b \o q) = Composed(w)
        BY <1>1, <1>2, <1>6, <1>11 DEF GoesOn
      <4>4. Len(m) + 1 \in 0..(Len(m) + 1) /\ \A i \in 1..(Len(m) + 1) : i <= Len(m) + 1
        BY <1>9
      <4>5. \A i \in DOMAIN w : w[i].ends <= n
        <5>1. w[Len(m) + 1].ends <= n
          BY <1>7, <1>8, <1>9, <4>1
        <5>. QED
          BY <1>9, <1>14, <3>3, <5>1
      <4>. QED
        BY <1>9, <1>12, <4>2, <4>3, <4>4, <4>5 DEF ReadsUpto
    <3>. QED
      BY <3>4, <3>5
  <2>. QED
    BY <2>1, <2>2
<1>18. Reads(t, w)
  BY <1>17 DEF Reads
<1>19. Written(t, w, FALSE)
  BY <1>7, <1>9, <1>15, <1>16, <1>18 DEF Written
<1>. QED
  BY <1>19 DEF w, x, t, q

\* What is cut off an area is cut off wherever it is cut again.
LEMMA ReadsCut ==
    ASSUME NEW b \in Octets, NEW m, Reads(b, m), NEW n \in 0..Len(b)
    PROVE  SubSeq(b, 1, n) \in Octets /\ Len(SubSeq(b, 1, n)) = n /\ Reads(SubSeq(b, 1, n), m)
<1>. DEFINE t == SubSeq(b, 1, n)
<1>0. Len(b) \in Nat /\ n \in Nat /\ n <= Len(b)
  BY LenProperties DEF Octets
<1>1. t \in Octets /\ Len(t) = n /\ \A i \in 1..n : t[i] = b[i]
  BY <1>0, Cut DEF Octets
<1>. HIDE DEF t
<1>2. ASSUME NEW k \in 0..n PROVE ReadsUpto(t, m, k)
  <2>0. k \in Nat /\ k <= n /\ k \in 0..Len(b) /\ k <= Len(b)
    BY <1>0
  <2>1. /\ SubSeq(t, 1, k) \in Octets /\ Len(SubSeq(t, 1, k)) = k
        /\ \A i \in 1..k : SubSeq(t, 1, k)[i] = t[i]
    BY <1>1, <2>0, Cut DEF Octets
  <2>2. /\ SubSeq(b, 1, k) \in Octets /\ Len(SubSeq(b, 1, k)) = k
        /\ \A i \in 1..k : SubSeq(b, 1, k)[i] = b[i]
    BY <2>0, Cut DEF Octets
  <2>3. \A i \in 1..k : i \in 1..n
    BY <1>0, <2>0
  <2>4. \A i \in 1..k : SubSeq(t, 1, k)[i] = SubSeq(b, 1, k)[i]
    BY <1>1, <2>1, <2>2, <2>3
  <2>5. SubSeq(t, 1, k) = SubSeq(b, 1, k)
    BY <2>1, <2>2, <2>4, SeqEqual DEF Octets
  <2>6. ReadsUpto(b, m, k)
    BY <2>0 DEF Reads
  <2>. QED
    BY <2>5, <2>6 DEF ReadsUpto
<1>. QED
  BY <1>1, <1>2 DEF Reads, t

-----------------------------------------------------------------------------
(* What Unpack makes of three areas. *)

\* The data of an option, end to end, are octets.
LEMMA CatType ==
    ASSUME NEW l \in Seq(Item), NEW c
    PROVE  Cat(l, c) \in Octets
<1>1. Parts(l, c) \in Seq(Seq(Nat))
  BY PartsType DEF Octets
<1>. QED
  BY <1>1, FlattenType DEF Cat, Octets

\* parseOptions of one area: each option gets the data of its fragments behind what it had.
LEMMA ParseIs ==
    ASSUME NEW b \in Octets, NEW out \in Seq(Item), Distinct(out)
    PROVE  /\ ParseOptions(b, out).options \in Seq(Item) /\ Distinct(ParseOptions(b, out).options)
           /\ \A c : /\ Has(ParseOptions(b, out).options, c) <=> Has(out, c) \/ Has(Items(b), c)
                     /\ Value(ParseOptions(b, out).options, c) = Value(out, c) \o Cat(Items(b), c)
           /\ \A v \in Nat :
                 (\A i \in DOMAIN Items(b) : Items(b)[i].code = Overload => Items(b)[i].data = <<v>>)
                 => ParseOptions(b, out).overload = IF Has(Items(b), Overload) THEN v ELSE 0
<1>. DEFINE p == [options |-> out, overload |-> 0]
            l == Items(b)
            q == FoldLeft(Take, p, l)
<1>1. p \in State /\ p.options = out /\ p.overload = 0
  BY DEF State
<1>2. ParseOptions(b, out) = q
  BY DEF ParseOptions
<1>3. l \in Seq(Item)
  BY ItemsType
<1>. HIDE DEF p, l
<1>4. Joins(p, l)
  BY <1>1, <1>3, FoldJoins
<1>5. ASSUME NEW v \in Nat, \A i \in DOMAIN l : l[i].code = Overload => l[i].data = <<v>>
      PROVE  q.overload = IF Has(l, Overload) THEN v ELSE 0
  BY <1>1, <1>3, <1>5, FoldFlags
<1>. HIDE DEF q
<1>6. /\ q \in State /\ Distinct(q.options)
      /\ \A c : /\ Has(q.options, c) <=> Has(out, c) \/ Has(l, c)
                /\ Value(q.options, c) = Value(out, c) \o Cat(l, c)
  BY <1>1, <1>4 DEF Joins, q
<1>7. q.options \in Seq(Item)
  BY <1>6 DEF State
<1>. QED
  BY <1>2, <1>5, <1>6, <1>7 DEF l

\* Whatever three areas are received: the list Unpack makes names no code twice, and
\* has of each option what the options field says of it, and behind that what file
\* and sname say, as far as the overload option wants them read (message.go:126).
THEOREM UnpackIs ==
    ASSUME NEW x \in [Areas -> Octets], NEW h, NEW v \in Nat,
           \A i \in DOMAIN Items(x["options"]) :
              Items(x["options"])[i].code = Overload => Items(x["options"])[i].data = <<v>>,
           NEW f, f = IF Has(Items(x["options"]), Overload) THEN v ELSE 0
    PROVE  /\ Unpack(x, h).options \in Seq(Item) /\ Distinct(Unpack(x, h).options)
           /\ \A c :
                /\ Has(Unpack(x, h).options, c)
                     <=> \/ Has(Items(x["options"]), c)
                         \/ FileToo(f) /\ Has(Items(x["file"]), c)
                         \/ SnameToo(f) /\ Has(Items(x["sname"]), c)
                /\ Value(Unpack(x, h).options, c)
                     = Cat(Items(x["options"]), c)
                       \o (IF FileToo(f) THEN Cat(Items(x["file"]), c) ELSE <<>>)
                       \o (IF SnameToo(f) THEN Cat(Items(x["sname"]), c) ELSE <<>>)
<1>. DEFINE bo == x["options"]
            bf == x["file"]
            bs == x["sname"]
            first == ParseOptions(bo, <<>>)
            o1 == first.options
            o2 == IF FileToo(f) THEN ParseOptions(bf, o1).options ELSE o1
            o3 == IF SnameToo(f) THEN ParseOptions(bs, o2).options ELSE o2
<1>1. bo \in Octets /\ bf \in Octets /\ bs \in Octets
  BY DEF Areas
<1>2. <<>> \in Seq(Item) /\ Distinct(<<>>) /\ \A c : ~Has(<<>>, c) /\ Value(<<>>, c) = <<>>
  BY EmptySeq, CatNone DEF Value
<1>3. /\ o1 \in Seq(Item) /\ Distinct(o1)
      /\ \A c : /\ Has(o1, c) <=> Has(<<>>, c) \/ Has(Items(bo), c)
                /\ Value(o1, c) = Value(<<>>, c) \o Cat(Items(bo), c)
      /\ first.overload = f
  BY <1>1, <1>2, ParseIs
<1>4. Unpack(x, h).options = o3
  BY <1>3 DEF Unpack
<1>5. ASSUME NEW c PROVE Value(o1, c) = Cat(Items(bo), c) /\ (Has(o1, c) <=> Has(Items(bo), c))
  <2>1. Cat(Items(bo), c) \in Octets
    BY <1>1, ItemsType, CatType
  <2>. HIDE DEF o1, bo
  <2>. QED
    BY <1>2, <1>3, <2>1, ConcatEmptySeq DEF Octets
<1>. HIDE DEF o1, first, bo, bf, bs
<1>6. /\ o2 \in Seq(Item) /\ Distinct(o2)
      /\ \A c : /\ Has(o2, c) <=> Has(o1, c) \/ (FileToo(f) /\ Has(Items(bf), c))
                /\ Value(o2, c) = Value(o1, c) \o (IF FileToo(f) THEN Cat(Items(bf), c) ELSE <<>>)
  <2>1. CASE FileToo(f)
    BY <2>1, <1>1, <1>3, ParseIs
  <2>2. CASE ~FileToo(f)
    <3>1. \A c : Value(o1, c) \o <<>> = Value(o1, c)
      BY <1>3, ValueType, ConcatEmptySeq DEF Octets
    <3>. QED
      BY <2>2, <3>1, <1>3
  <2>. QED
    BY <2>1, <2>2
<1>. HIDE DEF o2
<1>7. /\ o3 \in Seq(Item) /\ Distinct(o3)
      /\ \A c : /\ Has(o3, c) <=> Has(o2, c) \/ (SnameToo(f) /\ Has(Items(bs), c))
                /\ Value(o3, c) = Value(o2, c) \o (IF SnameToo(f) THEN Cat(Items(bs), c) ELSE <<>>)
  <2>1. CASE SnameToo(f)
    BY <2>1, <1>1, <1>6, ParseIs
  <2>2. CASE ~SnameToo(f)
    <3>1. \A c : Value(o2, c) \o <<>> = Value(o2, c)
      BY <1>6, ValueType, ConcatEmptySeq DEF Octets
    <3>. QED
      BY <2>2, <3>1, <1>6
  <2>. QED
    BY <2>1, <2>2
<1>. HIDE DEF o3
<1>. QED
  BY <1>4, <1>5, <1>6, <1>7 DEF bo, bf, bs

\* The first k fragments composed, and what they say of an option.
LEMMA FirstComposed ==
    ASSUME NEW m \in Seq(Mark), NEW k \in 0..Len(m), NEW l, l = SubSeq(Composed(m), 1, k)
    PROVE  /\ l \in Seq(Item) /\ DOMAIN l = 1..k /\ DOMAIN m = 1..Len(m) /\ Len(m) \in Nat
           /\ \A i \in 1..k : i \in DOMAIN m /\ l[i].code = m[i].code /\ l[i].data = m[i].data
<1>1. /\ Len(m) \in Nat /\ DOMAIN m = 1..Len(m) /\ \A i \in 1..Len(m) : m[i] \in Mark
      /\ Composed(m) \in Seq(Item) /\ Len(Composed(m)) = Len(m)
      /\ \A i \in 1..Len(m) : Composed(m)[i] = Option(m[i].code, m[i].data)
  BY ComposedType
<1>2. k \in Nat /\ k <= Len(Composed(m)) /\ \A i \in 1..k : i \in 1..Len(m)
  BY <1>1
<1>3. l \in Seq(Item) /\ Len(l) = k /\ \A i \in 1..k : l[i] = Composed(m)[i]
  BY <1>1, <1>2, Cut
<1>4. DOMAIN l = 1..k
  BY <1>3, LenProperties
<1>5. ASSUME NEW i \in 1..k
      PROVE  i \in DOMAIN m /\ l[i].code = m[i].code /\ l[i].data = m[i].data
  <2>1. i \in 1..Len(m)
    BY <1>2
  <2>2. l[i] = Option(m[i].code, m[i].data)
    BY <1>1, <1>3, <2>1
  <2>. QED
    BY <1>1, <2>1, <2>2 DEF Option
<1>. QED
  BY <1>1, <1>3, <1>4, <1>5

\* The data of the fragments that arrived are those of the first k composed.
LEMMA CatArrived ==
    ASSUME NEW m \in Seq(Mark), NEW k \in 0..Len(m), NEW c, NEW A, A = 1..k
    PROVE  /\ FlattenSeq([i \in DOMAIN m |-> IF i \in A /\ m[i].code = c THEN m[i].data ELSE <<>>])
                = Cat(SubSeq(Composed(m), 1, k), c)
           /\ Has(SubSeq(Composed(m), 1, k), c) <=> \E i \in A : m[i].code = c
<1>. DEFINE l == SubSeq(Composed(m), 1, k)
            g == [i \in DOMAIN m |-> IF i \in A /\ m[i].code = c THEN m[i].data ELSE <<>>]
            n == Len(m)
<1>1. /\ l \in Seq(Item) /\ DOMAIN l = 1..k /\ DOMAIN m = 1..n /\ n \in Nat
      /\ \A i \in 1..k : i \in DOMAIN m /\ l[i].code = m[i].code /\ l[i].data = m[i].data
  BY FirstComposed
<1>2. \A i \in 1..n : m[i].data \in Seq(Nat)
  BY ComposedType DEF Mark, Octets
<1>3. k \in Nat /\ k <= n /\ \A i \in 1..n : i \in 1..k <=> i <= k
  BY <1>1
<1>4. /\ g \in [1..n -> Seq(Nat)]
      /\ \A i \in 1..n : g[i] = IF i \in A /\ m[i].code = c THEN m[i].data ELSE <<>>
  <2>1. <<>> \in Seq(Nat)
    BY EmptySeq
  <2>. QED
    BY <1>1, <1>2, <2>1
<1>. HIDE DEF l, g, n
<1>5. \A i \in 1..n : i > k => g[i] = <<>>
  BY <1>3, <1>4
<1>6. FlattenSeq(g) = FlattenSeq([i \in 1..k |-> g[i]])
  BY <1>1, <1>3, <1>4, <1>5, FlattenEmpties
<1>7. [i \in 1..k |-> g[i]] = Parts(l, c)
  <2>1. \A i \in 1..k : g[i] = IF l[i].code = c THEN l[i].data ELSE <<>>
    BY <1>1, <1>4
  <2>. QED
    BY <1>1, <2>1 DEF Parts
<1>8. Has(l, c) <=> \E i \in A : m[i].code = c
  BY <1>1 DEF Has
<1>. QED
  BY <1>6, <1>7, <1>8 DEF Cat, l, g

-----------------------------------------------------------------------------
(* Octets written and read again. *)

\* Octets b, read with the list out before them, leave the list res, and what follows
\* them is read after them.
Adds(b, out, res) ==
    /\ b \in Octets
    /\ \E l \in Seq(Item) :
          /\ \A r \in Octets : Items(b \o r) = l \o Items(r)
          /\ \A p \in State : p.options = out => FoldLeft(Take, p, l).options = res

\* No octets leave the list as it is.
LEMMA AddsNone ==
    ASSUME NEW out
    PROVE  Adds(<<>>, out, out)
<1>1. <<>> \in Octets /\ <<>> \in Seq(Item)
  BY EmptySeq DEF Octets
<1>2. \A r \in Octets : <<>> \o r = r /\ <<>> \o Items(r) = Items(r)
  BY ConcatEmptySeq, ItemsType DEF Octets
<1>. QED
  BY <1>1, <1>2, FoldNone DEF Adds

\* Octets one after the other leave what the second make of what the first left.
LEMMA AddsConcat ==
    ASSUME NEW b, NEW d, NEW out \in Seq(Item), Distinct(out), NEW o, NEW res,
           Adds(b, out, o), Adds(d, o, res)
    PROVE  Adds(b \o d, out, res)
<1>1. b \in Octets /\ d \in Octets
  BY DEF Adds
<1>2. PICK l \in Seq(Item) : /\ \A r \in Octets : Items(b \o r) = l \o Items(r)
                             /\ \A p \in State : p.options = out => FoldLeft(Take, p, l).options = o
  BY DEF Adds
<1>3. PICK m \in Seq(Item) : /\ \A r \in Octets : Items(d \o r) = m \o Items(r)
                             /\ \A p \in State : p.options = o => FoldLeft(Take, p, m).options = res
  BY DEF Adds
<1>4. b \o d \in Octets /\ l \o m \in Seq(Item)
  BY <1>1, ConcatProperties DEF Octets
<1>5. ASSUME NEW r \in Octets PROVE Items((b \o d) \o r) = (l \o m) \o Items(r)
  <2>0. b \in Seq(Nat) /\ d \in Seq(Nat) /\ r \in Seq(Nat)
    BY <1>1 DEF Octets
  <2>1. (b \o d) \o r = b \o (d \o r) /\ d \o r \in Octets
    <3>1. (b \o d) \o r = b \o (d \o r)
      BY <1>1, OctetsAssociative
    <3>2. d \o r \in Octets
      BY <2>0, ConcatProperties DEF Octets
    <3>. QED
      BY <3>1, <3>2
  <2>2. Items(b \o (d \o r)) = l \o (m \o Items(r))
    BY <1>2, <1>3, <2>1
  <2>3. l \o (m \o Items(r)) = (l \o m) \o Items(r)
    <3>1. PICK k \in Seq(Item) : k = Items(r)
      BY ItemsType
    <3>2. l \o (m \o k) = (l \o m) \o k
      BY ItemsAssociative
    <3>. QED
      BY <3>1, <3>2
  <2>. QED
    BY <2>1, <2>2, <2>3
<1>6. ASSUME NEW p \in State, p.options = out PROVE FoldLeft(Take, p, l \o m).options = res
  <2>1. FoldLeft(Take, p, l \o m) = FoldLeft(Take, FoldLeft(Take, p, l), m)
    BY FoldConcat
  <2>2. FoldLeft(Take, p, l) \in State
    BY <1>6, FoldJoins DEF Joins
  <2>3. FoldLeft(Take, p, l).options = o
    BY <1>2, <1>6
  <2>. QED
    BY <1>3, <2>1, <2>2, <2>3
<1>. QED
  BY <1>4, <1>5, <1>6 DEF Adds

\* One whole fragment is one step of Extend.
LEMMA AddsOption ==
    ASSUME NEW c \in Nat \ {Pad, End}, NEW d \in Octets, NEW out
    PROVE  Adds(Coded(c, d), out, Extend(out, Option(c, d)))
<1>. DEFINE x == Option(c, d)
            q == Coded(c, d)
<1>1. x \in Item /\ <<x>> \in Seq(Item) /\ <<x>> = Append(<<>>, x) /\ <<>> \in Seq(Item)
  BY EmptySeq DEF Option, Item
<1>2. q \in Octets
  BY CodedParts, EmptySeq DEF Octets
<1>3. \A r \in Octets : Items(q \o r) = <<x>> \o Items(r)
  BY ItemsOption
<1>. HIDE DEF x, q
<1>4. \A p \in State : p.options = out => FoldLeft(Take, p, <<x>>).options = Extend(out, x)
  <2>. TAKE p \in State
  <2>1. FoldLeft(Take, p, Append(<<>>, x)) = Take(FoldLeft(Take, p, <<>>), x)
    <3>1. \A s \in Seq(Item), y \in Item : FoldLeft(Take, p, Append(s, y)) = Take(FoldLeft(Take, p, s), y)
      BY FoldMore
    <3>. QED
      BY <1>1, <3>1
  <2>2. FoldLeft(Take, p, <<x>>) = Take(p, x)
    BY <1>1, <2>1, FoldNone
  <2>3. Take(p, x).options = Extend(p.options, x)
    BY DEF Take
  <2>. QED
    BY <2>2, <2>3
<1>. QED
  BY <1>1, <1>2, <1>3, <1>4 DEF Adds, x, q

\* A fragment of the option that was read last continues it.
LEMMA ExtendLast ==
    ASSUME NEW out \in Seq(Item), Distinct(out), NEW c \in Nat, ~Has(out, c),
           NEW d \in Octets, NEW e \in Octets
    PROVE  Extend(Append(out, Option(c, d)), Option(c, e)) = Append(out, Option(c, d \o e))
<1>. DEFINE x == Option(c, d)
            y == Option(c, d \o e)
            t == Append(out, x)
            n == Len(out)
<1>1. d \o e \in Octets
  BY ConcatProperties DEF Octets
<1>2. x \in Item /\ y \in Item /\ x.code = c /\ x.data = d /\ y = [x EXCEPT !.data = d \o e]
  <2>1. x = [code |-> c, data |-> d] /\ y = [code |-> c, data |-> d \o e]
    BY DEF Option
  <2>. HIDE DEF x, y
  <2>2. x \in Item /\ y \in Item
    BY <1>1, <2>1 DEF Item
  <2>3. x.code = c /\ x.data = d
    BY <2>1
  <2>4. y = [x EXCEPT !.data = d \o e]
    <3>1. \A z : [[code |-> c, data |-> d] EXCEPT !.data = z] = [code |-> c, data |-> z]
      OBVIOUS
    <3>. QED
      BY <2>1, <3>1
  <2>. QED
    BY <2>2, <2>3, <2>4
<1>. HIDE DEF x, y
<1>3. /\ n \in Nat /\ t \in Seq(Item) /\ Len(t) = n + 1 /\ t[n + 1] = x
      /\ \A i \in 1..n : t[i] = out[i]
      /\ DOMAIN t = 1..(n + 1)
  BY <1>2, LenProperties, AppendProperties
<1>4. Distinct(t)
  BY <1>2, AppendOption
<1>. DEFINE u == Append(out, y)
<1>5. /\ u \in Seq(Item) /\ Len(u) = n + 1 /\ u[n + 1] = y /\ \A i \in 1..n : u[i] = out[i]
      /\ DOMAIN u = 1..(n + 1)
  BY <1>2, LenProperties, AppendProperties
<1>. HIDE DEF t, u, n
<1>6. n + 1 \in DOMAIN t /\ n + 1 # 0
  BY <1>3
<1>7. IndexOf(t, c) = n + 1
  BY <1>2, <1>3, <1>4, <1>6, ValueAt
<1>8. Extend(t, Option(c, e)) = [t EXCEPT ![n + 1].data = d \o e]
  BY <1>2, <1>3, <1>6, <1>7 DEF Extend, Option
<1>. DEFINE w == [t EXCEPT ![n + 1].data = d \o e]
<1>9. /\ w = [i \in 1..(n + 1) |-> w[i]]
      /\ \A i \in 1..(n + 1) : w[i] = IF i = n + 1 THEN [x EXCEPT !.data = d \o e] ELSE t[i]
  BY <1>3
<1>. HIDE DEF w
<1>10. \A i \in 1..(n + 1) : w[i] = u[i]
  <2>1. \A i \in 1..(n + 1) : i \in 1..n \/ i = n + 1
    BY <1>3
  <2>. QED
    BY <1>2, <1>3, <1>5, <1>9, <2>1
<1>11. u = [i \in 1..(n + 1) |-> u[i]]
  BY <1>5, LenProperties
<1>12. w = u
  BY <1>9, <1>10, <1>11
<1>. QED
  BY <1>8, <1>12 DEF w, u, t, x, y

\* As many fragments as it takes.
LEMMA EnoughFragments ==
    ASSUME NEW L \in Nat \ {0}, NEW K \in Nat \ {0}
    PROVE  /\ (L + K - 1) \div K \in Nat \ {0}
           /\ ((L + K - 1) \div K) * K >= L
<1>. DEFINE a == L + K - 1
            q == a \div K
<1>1. a \in Nat /\ a >= K
  OBVIOUS
<1>. HIDE DEF a
<1>2. q \in Int /\ a = q * K + (a % K) /\ a % K \in 0..(K - 1)
  BY <1>1
<1>. HIDE DEF q
<1>3. q * K >= L
  BY <1>2 DEF a
<1>4. q > 0
  BY <1>2, <1>3
<1>. QED
  BY <1>2, <1>3, <1>4 DEF a, q

\* How far the first j fragments of an option go, how many there are, and the j-th.
Upto(x, j) == IF j * Chunk > Len(x.data) THEN Len(x.data) ELSE j * Chunk
Count(x) == IF x.data = <<>> THEN 1 ELSE (Len(x.data) + Chunk - 1) \div Chunk
Piece(x, j) ==
    <<x.code, Upto(x, j) - Upto(x, j - 1)>> \o SubSeq(x.data, Upto(x, j - 1) + 1, Upto(x, j))

\* Fragments, in the words of this section.
LEMMA FragmentsIs ==
    ASSUME NEW x
    PROVE  Fragments(x) = FlattenSeq([j \in 1..Count(x) |-> Piece(x, j)])
  BY DEF Fragments, Count, Piece, Upto

\* The fragments of an option go on from where the last one ended, to the end of the data.
LEMMA UptoIs ==
    ASSUME NEW x \in Item
    PROVE  /\ x.data \in Octets /\ Len(x.data) \in Nat /\ Count(x) \in Nat \ {0}
           /\ Upto(x, 0) = 0 /\ Upto(x, Count(x)) = Len(x.data)
           /\ \A j \in Nat \ {0} : /\ Upto(x, j) \in Nat /\ Upto(x, j - 1) \in Nat
                                   /\ Upto(x, j - 1) <= Upto(x, j) /\ Upto(x, j) <= Len(x.data)
<1>0. Chunk \in Nat \ {0}
  BY WireAssumption
<1>. DEFINE L == Len(x.data)
<1>1. x.data \in Octets /\ L \in Nat /\ (x.data = <<>> <=> L = 0)
  BY LenProperties, EmptySeq DEF Item, Octets
<1>2. Count(x) \in Nat \ {0} /\ (L # 0 => Count(x) * Chunk >= L)
  <2>. HIDE DEF L
  <2>1. CASE L = 0
    <3>1. Count(x) = 1
      BY <1>1, <2>1 DEF Count
    <3>. QED
      BY <2>1, <3>1
  <2>2. CASE L # 0
    <3>1. Count(x) = (L + Chunk - 1) \div Chunk
      BY <1>1, <2>2 DEF Count, L
    <3>2. L \in Nat \ {0}
      BY <1>1, <2>2
    <3>. QED
      BY <1>0, <3>1, <3>2, EnoughFragments
  <2>. QED
    BY <2>1, <2>2
<1>3. \A j : Upto(x, j) = IF j * Chunk > L THEN L ELSE j * Chunk
  BY DEF Upto
<1>. HIDE DEF L
<1>4. Upto(x, 0) = 0
  <2>1. 0 * Chunk = 0 /\ ~(0 * Chunk > L)
    BY <1>0, <1>1
  <2>. QED
    BY <1>3, <2>1
<1>5. Upto(x, Count(x)) = L
  <2>. DEFINE n == Count(x)
  <2>. HIDE DEF n
  <2>1. n \in Nat \ {0} /\ (L # 0 => n * Chunk >= L)
    BY <1>2 DEF n
  <2>2. n * Chunk \in Nat
    BY <1>0, <2>1
  <2>3. n * Chunk >= L
    BY <1>1, <2>1, <2>2
  <2>. QED
    BY <1>1, <1>3, <2>2, <2>3 DEF n
<1>6. ASSUME NEW j \in Nat \ {0}
      PROVE  /\ Upto(x, j) \in Nat /\ Upto(x, j - 1) \in Nat
             /\ Upto(x, j - 1) <= Upto(x, j) /\ Upto(x, j) <= L
  <2>1. PICK a \in Nat : a = j * Chunk
    BY <1>0
  <2>2. PICK b \in Nat : b = (j - 1) * Chunk
    <3>1. j - 1 \in Nat
      OBVIOUS
    <3>. QED
      BY <1>0, <3>1
  <2>3. b <= a
    <3>1. (j - 1) * Chunk = j * Chunk - Chunk
      BY <1>0
    <3>. QED
      BY <1>0, <2>1, <2>2, <3>1
  <2>4. Upto(x, j) = IF a > L THEN L ELSE a
    BY <1>3, <2>1
  <2>5. Upto(x, j - 1) = IF b > L THEN L ELSE b
    BY <1>3, <2>2
  <2>. QED
    BY <1>1, <2>3, <2>4, <2>5
<1>. QED
  BY <1>1, <1>2, <1>4, <1>5, <1>6 DEF L

\* One fragment takes the data up to where it ends.
LEMMA PieceIs ==
    ASSUME NEW x \in Item, NEW j \in Nat \ {0}, NEW d, d = SubSeq(x.data, Upto(x, j - 1) + 1, Upto(x, j))
    PROVE  /\ d \in Octets /\ Piece(x, j) = Coded(x.code, d)
           /\ SubSeq(x.data, 1, Upto(x, j - 1)) \in Octets
           /\ SubSeq(x.data, 1, Upto(x, j - 1)) \o d = SubSeq(x.data, 1, Upto(x, j))
<1>. DEFINE s == x.data
            a == Upto(x, j - 1)
            b == Upto(x, j)
<1>1. s \in Seq(Nat) /\ Len(s) \in Nat /\ a \in Nat /\ b \in Nat /\ a <= b /\ b <= Len(s)
  BY UptoIs DEF Octets
<1>2. Piece(x, j) = <<x.code, b - a>> \o d
  BY DEF Piece
<1>3. d = SubSeq(s, a + 1, b)
  OBVIOUS
<1>. HIDE DEF s, a, b
<1>4. \A i \in (a + 1)..b : s[i] \in Nat
  <2>1. \A i \in (a + 1)..b : i \in 1..Len(s)
    BY <1>1
  <2>. QED
    BY <1>1, <2>1, ElementOfSeq
<1>5. d \in Octets /\ Len(d) = b - a
  <2>1. PICK m \in Int : m = a + 1
    BY <1>1
  <2>2. PICK n \in Int : n = b
    BY <1>1
  <2>3. \A i \in m..n : s[i] \in Nat
    BY <1>4, <2>1, <2>2
  <2>4. SubSeq(s, m, n) \in Seq(Nat) /\ Len(SubSeq(s, m, n)) = IF m <= n THEN n - m + 1 ELSE 0
    BY <2>3, SubSeqProperties
  <2>5. (IF m <= n THEN n - m + 1 ELSE 0) = b - a
    BY <1>1, <2>1, <2>2
  <2>. QED
    BY <1>3, <2>1, <2>2, <2>4, <2>5 DEF Octets
<1>6. SubSeq(s, 1, a) \o d = SubSeq(s, 1, b)
  <2>1. 1 \in 1..(Len(s) + 1) /\ a \in (1 - 1)..Len(s) /\ b \in a..Len(s)
    BY <1>1
  <2>. QED
    BY <1>1, <1>3, <2>1, ConcatAdjacentSubSeq
<1>7. SubSeq(s, 1, a) \in Octets
  <2>1. a <= Len(s)
    BY <1>1
  <2>. QED
    BY <1>1, <2>1, Cut DEF Octets
<1>. QED
  BY <1>2, <1>5, <1>6, <1>7 DEF s, a, b, Coded

\* An option written in fragments is one option when it is read.
LEMMA FragmentsAdd ==
    ASSUME NEW x \in Item, x.code \notin {Pad, End}, NEW out \in Seq(Item), Distinct(out),
           ~Has(out, x.code)
    PROVE  Adds(Fragments(x), out, Append(out, x)) /\ Fragments(x) \in Octets
<1>. DEFINE c == x.code
            n == Count(x)
            f == [j \in 1..n |-> Piece(x, j)]
            part(j) == SubSeq(x.data, Upto(x, j - 1) + 1, Upto(x, j))
            upto(j) == SubSeq(x.data, 1, Upto(x, j))
            some(j) == [i \in 1..j |-> f[i]]
            Done == {j \in Nat : j \in 1..n =>
                       Adds(FlattenSeq(some(j)), out, Append(out, Option(c, upto(j))))}
<1>0. n \in Nat \ {0} /\ c \in Nat \ {Pad, End} /\ x = Option(c, x.data)
  BY UptoIs DEF Item, Option
<1>1. \A j \in Nat \ {0} : /\ part(j) \in Octets /\ Piece(x, j) = Coded(c, part(j))
                           /\ upto(j - 1) \in Octets /\ upto(j - 1) \o part(j) = upto(j)
  BY PieceIs
<1>2. upto(0) = <<>> /\ upto(n) = x.data
  <2>1. Upto(x, 0) = 0 /\ Upto(x, n) = Len(x.data) /\ x.data \in Seq(Nat)
    BY UptoIs DEF Octets
  <2>. QED
    BY <2>1, SubSeqEmpty, SubSeqFull
<1>. HIDE DEF part, upto, c, n
<1>3. \A j \in 1..n : Piece(x, j) \in Seq(Nat)
  <2>. TAKE j \in 1..n
  <2>1. j \in Nat \ {0}
    BY <1>0
  <2>2. Coded(c, part(j)) \in Octets
    BY <1>0, <1>1, <2>1, CodedParts, EmptySeq DEF Octets
  <2>. QED
    BY <1>1, <2>1, <2>2 DEF Octets
<1>4. f \in [1..n -> Seq(Nat)] /\ \A j \in 1..n : f[j] = Piece(x, j)
  BY <1>3
<1>. HIDE DEF f
<1>5. \A j \in 0..n : some(j) \in [1..j -> Seq(Nat)] /\ some(j) \in Seq(Seq(Nat))
  <2>. TAKE j \in 0..n
  <2>1. j \in Nat /\ \A i \in 1..j : i \in 1..n
    BY <1>0
  <2>2. some(j) \in [1..j -> Seq(Nat)]
    BY <1>4, <2>1
  <2>. QED
    BY <2>1, <2>2, SeqDef
<1>6. \A j \in 1..n : FlattenSeq(some(j)) = FlattenSeq(some(j - 1)) \o f[j]
  <2>. TAKE j \in 1..n
  <2>1. PICK k \in Nat : k = j - 1 /\ j = k + 1 /\ j \in 0..n
    BY <1>0
  <2>2. some(j) \in [1..(k + 1) -> Seq(Nat)]
    BY <1>5, <2>1
  <2>3. [i \in 1..k |-> some(j)[i]] = some(k) /\ some(j)[k + 1] = f[j]
    BY <2>1
  <2>. HIDE DEF some
  <2>4. FlattenSeq(some(j)) = FlattenSeq([i \in 1..k |-> some(j)[i]]) \o some(j)[k + 1]
    BY <2>2, FlattenLast
  <2>. QED
    BY <2>1, <2>3, <2>4
<1>7. FlattenSeq(some(0)) = <<>>
  <2>1. some(0) = <<>>
    OBVIOUS
  <2>. QED
    BY <2>1, FlattenNone
<1>. HIDE DEF some
<1>8. ASSUME NEW j \in Nat, \A i \in Nat : i < j => i \in Done
      PROVE  j \in Done
  <2>. SUFFICES ASSUME j \in 1..n
                PROVE  Adds(FlattenSeq(some(j)), out, Append(out, Option(c, upto(j))))
    OBVIOUS
  <2>0. j \in Nat \ {0} /\ part(j) \in Octets /\ f[j] = Coded(c, part(j))
    BY <1>1, <1>4
  <2>1. \A o : Adds(f[j], o, Extend(o, Option(c, part(j))))
    BY <1>0, <2>0, AddsOption
  <2>2. CASE j = 1
    <3>1. upto(j) = part(j)
      <4>1. upto(0) \o part(j) = upto(j)
        BY <1>1, <2>0, <2>2
      <4>. QED
        BY <1>2, <2>0, <4>1, ConcatEmptySeq DEF Octets
    <3>2. Extend(out, Option(c, part(j))) = Append(out, Option(c, part(j)))
      <4>1. IndexOf(out, c) = 0
        BY IndexIs DEF c
      <4>. QED
        BY <4>1 DEF Extend, Option
    <3>3. Adds(<<>>, out, out)
      BY AddsNone
    <3>4. Adds(<<>> \o f[j], out, Append(out, Option(c, upto(j))))
      BY <2>1, <3>1, <3>2, <3>3, AddsConcat
    <3>5. FlattenSeq(some(j)) = <<>> \o f[j]
      <4>1. j - 1 = 0
        BY <2>2
      <4>. QED
        BY <1>6, <1>7, <4>1
    <3>. QED
      BY <3>4, <3>5
  <2>3. CASE j # 1
    <3>. DEFINE k == j - 1
                o == Append(out, Option(c, upto(k)))
    <3>1. k \in Nat /\ k < j /\ k \in 1..n
      BY <1>0, <2>3
    <3>2. Adds(FlattenSeq(some(k)), out, o)
      BY <1>8, <3>1
    <3>3. upto(k) \in Octets /\ upto(k) \o part(j) = upto(j)
      BY <1>1, <2>0
    <3>4. Extend(o, Option(c, part(j))) = Append(out, Option(c, upto(j)))
      <4>1. ~Has(out, c) /\ c \in Nat
        BY <1>0 DEF c
      <4>2. Extend(Append(out, Option(c, upto(k))), Option(c, part(j)))
              = Append(out, Option(c, upto(k) \o part(j)))
        <5>. HIDE DEF k
        <5>. QED
          BY <2>0, <3>3, <4>1, ExtendLast
      <4>. QED
        BY <3>3, <4>2
    <3>5. Adds(FlattenSeq(some(k)) \o f[j], out, Append(out, Option(c, upto(j))))
      <4>. HIDE DEF o, k
      <4>. QED
        BY <2>1, <3>2, <3>4, AddsConcat
    <3>. QED
      BY <1>6, <3>5
  <2>. QED
    BY <2>2, <2>3
<1>9. Nat \subseteq Done
  <2>. HIDE DEF Done
  <2>. QED
    BY <1>8, Induction
<1>10. Adds(FlattenSeq(some(n)), out, Append(out, Option(c, upto(n))))
  <2>1. n \in Nat /\ n \in 1..n
    BY <1>0
  <2>. QED
    BY <1>9, <2>1
<1>11. some(n) = f
  BY <1>4 DEF some
<1>12. Fragments(x) = FlattenSeq(f)
  BY FragmentsIs DEF f, n
<1>13. Adds(Fragments(x), out, Append(out, x))
  BY <1>0, <1>2, <1>10, <1>11, <1>12
<1>. QED
  BY <1>13 DEF Adds

\* The first options of a list, and one more.
LEMMA OneMore ==
    ASSUME NEW o \in Seq(Item), Distinct(o), NEW i \in 1..Len(o)
    PROVE  LET s == SubSeq(o, 1, i - 1) IN
           /\ s \in Seq(Item) /\ Distinct(s) /\ o[i] \in Item /\ ~Has(s, o[i].code)
           /\ Append(s, o[i]) = SubSeq(o, 1, i)
<1>. DEFINE s == SubSeq(o, 1, i - 1)
<1>0. Len(o) \in Nat /\ DOMAIN o = 1..Len(o) /\ i - 1 \in Nat /\ i - 1 <= Len(o) /\ o[i] \in Item
  BY LenProperties, ElementOfSeq
<1>1. s \in Seq(Item) /\ Len(s) = i - 1 /\ \A j \in 1..(i - 1) : s[j] = o[j]
  BY <1>0, Cut
<1>. HIDE DEF s
<1>2. DOMAIN s = 1..(i - 1) /\ \A j \in 1..(i - 1) : j \in DOMAIN o /\ j # i
  BY <1>0, <1>1, LenProperties
<1>3. Distinct(s)
  BY <1>1, <1>2 DEF Distinct
<1>4. ~Has(s, o[i].code)
  BY <1>0, <1>1, <1>2 DEF Distinct, Has
<1>5. Append(s, o[i]) = SubSeq(o, 1, i)
  <2>1. 1 \in 1..Len(o) /\ i \in 1..Len(o)
    BY <1>0
  <2>2. SubSeq(o, 1, i) = SubSeq(o, 1, i - 1) \o <<o[i]>>
    BY <2>1, SubSeqRecursiveSecond
  <2>. QED
    BY <1>0, <1>1, <2>2, AppendIsConcat DEF s
<1>. QED
  BY <1>0, <1>1, <1>3, <1>4, <1>5 DEF s

\* The options of a list as octets, without the end mark and the padding.
Pieces(o) ==
    [i \in DOMAIN o |-> IF o[i].code \in {Pad, End} THEN <<>> ELSE Fragments(o[i])]

\* All options of a list, written one after the other, are read as that list.
LEMMA PiecesAdd ==
    ASSUME NEW o \in Seq(Item), Distinct(o), \A i \in DOMAIN o : o[i].code \notin {Pad, End}
    PROVE  Adds(FlattenSeq(Pieces(o)), <<>>, o)
<1>. DEFINE n == Len(o)
            f == Pieces(o)
            first(i) == SubSeq(o, 1, i)
            some(i) == [j \in 1..i |-> f[j]]
            Done == {i \in Nat : i <= n => Adds(FlattenSeq(some(i)), <<>>, first(i))}
<1>0. n \in Nat /\ DOMAIN o = 1..n
  BY LenProperties
<1>1. \A i \in 1..n : /\ first(i - 1) \in Seq(Item) /\ Distinct(first(i - 1)) /\ o[i] \in Item
                      /\ ~Has(first(i - 1), o[i].code) /\ Append(first(i - 1), o[i]) = first(i)
  BY OneMore
<1>2. first(0) = <<>> /\ first(n) = o
  BY SubSeqEmpty, SubSeqFull
<1>3. <<>> \in Seq(Item) /\ Distinct(<<>>)
  BY EmptySeq, CatNone
<1>. HIDE DEF first
<1>4. \A i \in 1..n : /\ Adds(Fragments(o[i]), first(i - 1), first(i))
                      /\ Fragments(o[i]) \in Octets
  <2>. TAKE i \in 1..n
  <2>1. o[i].code \notin {Pad, End}
    BY <1>0
  <2>. QED
    BY <1>1, <2>1, FragmentsAdd
<1>5. f \in [1..n -> Seq(Nat)] /\ \A i \in 1..n : f[i] = Fragments(o[i])
  <2>1. f = [i \in 1..n |-> Fragments(o[i])]
    BY <1>0 DEF Pieces
  <2>2. \A i \in 1..n : Fragments(o[i]) \in Seq(Nat)
    BY <1>4 DEF Octets
  <2>. HIDE DEF f
  <2>. QED
    BY <2>1, <2>2
<1>. HIDE DEF f, n
<1>6. ASSUME NEW i \in Nat, \A j \in Nat : j < i => j \in Done
      PROVE  i \in Done
  <2>. SUFFICES ASSUME i <= n PROVE Adds(FlattenSeq(some(i)), <<>>, first(i))
    OBVIOUS
  <2>1. CASE i = 0
    <3>1. some(i) = <<>>
      BY <2>1
    <3>. QED
      BY <2>1, <3>1, <1>2, FlattenNone, AddsNone
  <2>2. CASE i # 0
    <3>1. PICK k \in Nat : k = i - 1 /\ i = k + 1 /\ k < i /\ k <= n /\ i \in 1..n
      <4>1. i - 1 \in Nat /\ i = (i - 1) + 1 /\ i - 1 < i /\ i - 1 <= n /\ i \in 1..n
        BY <1>0, <2>2
      <4>. QED
        BY <4>1
    <3>2. some(i) \in [1..(k + 1) -> Seq(Nat)]
      <4>1. \A j \in 1..i : j \in 1..n
        BY <1>0
      <4>. QED
        BY <1>5, <3>1, <4>1
    <3>3. [j \in 1..k |-> some(i)[j]] = some(k) /\ some(i)[k + 1] = f[i]
      BY <3>1
    <3>4. FlattenSeq(some(i)) = FlattenSeq(some(k)) \o f[i]
      <4>. HIDE DEF some
      <4>1. FlattenSeq(some(i)) = FlattenSeq([j \in 1..k |-> some(i)[j]]) \o some(i)[k + 1]
        BY <3>2, FlattenLast
      <4>. QED
        BY <3>3, <4>1
    <3>. HIDE DEF some
    <3>5. Adds(FlattenSeq(some(k)), <<>>, first(k))
      BY <1>6, <3>1
    <3>6. Adds(f[i], first(k), first(i))
      BY <1>4, <1>5, <3>1
    <3>. QED
      BY <1>3, <3>4, <3>5, <3>6, AddsConcat
  <2>. QED
    BY <2>1, <2>2
<1>7. Nat \subseteq Done
  <2>. HIDE DEF Done
  <2>. QED
    BY <1>6, Induction
<1>8. some(n) = f
  BY <1>5
<1>9. Adds(FlattenSeq(some(n)), <<>>, first(n))
  <2>. HIDE DEF some
  <2>. QED
    BY <1>0, <1>7
<1>. QED
  <2>. HIDE DEF some
  <2>. QED
    BY <1>2, <1>8, <1>9 DEF f

\* What AppendTo writes is read as the list it was given.
LEMMA AppendToRead ==
    ASSUME NEW o \in Seq(Item), Distinct(o), \A i \in DOMAIN o : o[i].code \notin {Pad, End}
    PROVE  AppendTo(o) \in Octets /\ ParseOptions(AppendTo(o), <<>>).options = o
<1>. DEFINE a == FlattenSeq(Pieces(o))
            e == <<End>>
            b == a \o e
            k == IF Len(b) < PadTo THEN PadTo - Len(b) ELSE 0
            pads == [i \in 1..k |-> Pad]
<1>1. AppendTo(o) = b \o pads
  BY DEF AppendTo, Pieces
<1>2. Adds(a, <<>>, o)
  BY PiecesAdd
<1>. HIDE DEF a
<1>3. a \in Octets /\ e \in Octets
  BY <1>2 DEF Adds, End, Octets
<1>. HIDE DEF e
<1>4. b \in Octets /\ Len(b) \in Nat
  BY <1>3, Behind, LenProperties DEF Octets
<1>. HIDE DEF b
<1>5. pads \in Octets
  <2>1. k \in Nat
    BY <1>4, WireAssumption
  <2>. HIDE DEF k
  <2>. QED
    BY <2>1, SeqDef DEF Octets, Pad
<1>. HIDE DEF pads
<1>6. PICK l \in Seq(Item) : /\ \A r \in Octets : Items(a \o r) = l \o Items(r)
                             /\ \A p \in State : p.options = <<>> => FoldLeft(Take, p, l).options = o
  BY <1>2 DEF Adds
<1>7. Items(b \o pads) = l
  <2>1. b \o pads = a \o (e \o pads)
    BY <1>3, <1>5, OctetsAssociative DEF b
  <2>2. e \o pads \in Octets /\ Items(e \o pads) = <<>>
    BY <1>3, <1>5, Behind, ItemsEnd DEF e
  <2>3. l \o <<>> = l
    BY ConcatEmptySeq
  <2>. QED
    BY <1>6, <2>1, <2>2, <2>3
<1>8. b \o pads \in Octets
  BY <1>4, <1>5, Behind
<1>9. [options |-> <<>>, overload |-> 0] \in State
  BY EmptySeq DEF State
<1>10. FoldLeft(Take, [options |-> <<>>, overload |-> 0], l).options = o
  <2>1. [options |-> <<>>, overload |-> 0].options = <<>>
    OBVIOUS
  <2>. QED
    BY <1>6, <1>9, <2>1
<1>. QED
  BY <1>1, <1>7, <1>8, <1>10 DEF ParseOptions

\* Whatever list of options is packed, Unpack makes the same list of it: Pack loses
\* nothing, splits what is too long for a length octet so that it is joined again,
\* and writes nothing into the other two areas (message.go:203, option.go:383).
THEOREM PackRead ==
    ASSUME NEW o \in Seq(Item), Distinct(o), \A i \in DOMAIN o : o[i].code \notin {Pad, End},
           NEW g, NEW r \in Pack(o, g), NEW h
    PROVE  Unpack(r, h).options = o
<1>1. r["options"] = AppendTo(o) /\ r["file"] = <<>> /\ r["sname"] = <<>>
  BY DEF Pack, Areas
<1>2. ParseOptions(AppendTo(o), <<>>).options = o
  BY AppendToRead
<1>3. ParseOptions(<<>>, o).options = o
  BY ItemsNone, FoldNone DEF ParseOptions
<1>. QED
  BY <1>1, <1>2, <1>3 DEF Unpack

-----------------------------------------------------------------------------
(* The invariant. *)

WireType ==
    /\ area \in [Areas -> Octets] /\ meant \in [Areas -> Seq(Mark)]
    /\ writing \in Areas /\ ended \in BOOLEAN /\ hlen \in Nat
    /\ phase \in {"composing", "received", "answered"}

\* Overload options, if there are any in the options field, all have the same flags.
OneOverload ==
    \E v \in Nat : \A i \in DOMAIN meant["options"] :
        meant["options"][i].code = Overload => meant["options"][i].data = <<v>>

Ahead(a) == (writing = "options" /\ a # "options") \/ (writing = "file" /\ a = "sname")

Composing ==
    phase = "composing" =>
        /\ Written(area[writing], meant[writing], ended)
        /\ \A a \in Areas : Ahead(a) => area[a] = <<>> /\ meant[a] = <<>>

Arriving == \A a \in Areas : Reads(area[a], meant[a])

Received == phase # "composing" => request = Unpack(area, hlen)

Answered ==
    phase = "answered" =>
        /\ answer \in Seq(Item) /\ Distinct(answer) /\ ~Has(answer, Pad) /\ ~Has(answer, End)
        /\ Get(answer, RelayInfo) = Get(request.options, RelayInfo)
        /\ reply = Pack(answer, request.hlen)

WireInv == WireType /\ OneOverload /\ Composing /\ Arriving /\ Received /\ Answered

\* Of an area the fragments that arrived whole are read, in their order.
LEMMA AreaRead ==
    ASSUME WireType, Arriving, NEW a \in Areas
    PROVE  /\ meant[a] \in Seq(Mark) /\ area[a] \in Octets
           /\ \E k \in 0..Len(meant[a]) :
                 Arrived(a) = 1..k /\ Items(area[a]) = SubSeq(Composed(meant[a]), 1, k)
<1>1. meant[a] \in Seq(Mark) /\ area[a] \in Octets
  BY DEF WireType
<1>2. Len(area[a]) \in Nat /\ SubSeq(area[a], 1, Len(area[a])) = area[a]
  BY <1>1, LenProperties, SubSeqFull DEF Octets
<1>3. ReadsUpto(area[a], meant[a], Len(area[a]))
  <2>1. Len(area[a]) \in 0..Len(area[a])
    BY <1>2
  <2>. QED
    BY <2>1 DEF Arriving, Reads
<1>4. PICK k \in 0..Len(meant[a]) :
        /\ \A i \in DOMAIN meant[a] : meant[a][i].ends <= Len(area[a]) <=> i <= k
        /\ Items(SubSeq(area[a], 1, Len(area[a]))) = SubSeq(Composed(meant[a]), 1, k)
  BY <1>3 DEF ReadsUpto
<1>5. Arrived(a) = 1..k
  <2>1. DOMAIN meant[a] = 1..Len(meant[a]) /\ Len(meant[a]) \in Nat
    BY <1>1, LenProperties
  <2>2. \A i : i \in 1..k <=> i \in 1..Len(meant[a]) /\ i <= k
    BY <2>1
  <2>. QED
    BY <1>4, <2>1, <2>2 DEF Arrived
<1>. QED
  BY <1>1, <1>2, <1>4, <1>5

\* What counts of an area is what is read of it, or nothing.
LEMMA CountingRead ==
    ASSUME WireType, Arriving, NEW a \in Areas, NEW wanted \in BOOLEAN,
           Counting(a) = IF wanted THEN Arrived(a) ELSE {}, NEW c
    PROVE  /\ DataIn(a, c) = IF wanted THEN Cat(Items(area[a]), c) ELSE <<>>
           /\ (\E i \in Counting(a) : meant[a][i].code = c) <=> wanted /\ Has(Items(area[a]), c)
<1>1. PICK k \in 0..Len(meant[a]) :
        Arrived(a) = 1..k /\ Items(area[a]) = SubSeq(Composed(meant[a]), 1, k)
  BY AreaRead
<1>2. meant[a] \in Seq(Mark) /\ Len(meant[a]) \in Nat
  BY AreaRead, LenProperties
<1>3. CASE wanted
  <2>1. Counting(a) = 1..k
    BY <1>1, <1>3
  <2>2. /\ DataIn(a, c) = Cat(SubSeq(Composed(meant[a]), 1, k), c)
        /\ Has(SubSeq(Composed(meant[a]), 1, k), c) <=> \E i \in Counting(a) : meant[a][i].code = c
    BY <1>2, <2>1, CatArrived DEF DataIn
  <2>. QED
    BY <1>1, <1>3, <2>2
<1>4. CASE ~wanted
  <2>1. Counting(a) = 1..0 /\ Counting(a) = {} /\ 0 \in 0..Len(meant[a])
    BY <1>2, <1>4
  <2>2. DataIn(a, c) = Cat(SubSeq(Composed(meant[a]), 1, 0), c)
    BY <1>2, <2>1, CatArrived DEF DataIn
  <2>3. SubSeq(Composed(meant[a]), 1, 0) = <<>>
    BY SubSeqEmpty
  <2>. QED
    BY <1>4, <2>1, <2>2, <2>3, CatNone
<1>. QED
  BY <1>3, <1>4

\* The overload flags Unpack goes by are those composed, if that option arrived.
LEMMA FlagsRead ==
    ASSUME WireType, Arriving, NEW v \in Nat,
           \A i \in DOMAIN meant["options"] :
              meant["options"][i].code = Overload => meant["options"][i].data = <<v>>,
           NEW f, f = IF Has(Items(area["options"]), Overload) THEN v ELSE 0
    PROVE  /\ \A i \in DOMAIN Items(area["options"]) :
                 Items(area["options"])[i].code = Overload => Items(area["options"])[i].data = <<v>>
           /\ Counting("options") = Arrived("options")
           /\ Counting("file") = IF FileToo(f) THEN Arrived("file") ELSE {}
           /\ Counting("sname") = IF SnameToo(f) THEN Arrived("sname") ELSE {}
<1>. DEFINE m == meant["options"]
            l == Items(area["options"])
            A == Arrived("options")
            flags == {m[i].data[1] : i \in {j \in A : m[j].code = Overload}}
<1>0. "options" \in Areas
  BY DEF Areas
<1>1. PICK k \in 0..Len(m) : A = 1..k /\ l = SubSeq(Composed(m), 1, k)
  BY <1>0, AreaRead
<1>2. /\ DOMAIN l = 1..k
      /\ \A i \in 1..k : i \in DOMAIN m /\ l[i].code = m[i].code /\ l[i].data = m[i].data
  <2>1. m \in Seq(Mark)
    BY <1>0, AreaRead
  <2>. HIDE DEF m, l, A
  <2>. QED
    BY <1>1, <2>1, FirstComposed
<1>3. \A i \in DOMAIN m : m[i].code = Overload => m[i].data = <<v>>
  OBVIOUS
<1>4. f = IF Has(l, Overload) THEN v ELSE 0
  OBVIOUS
<1>5. /\ Counting("options") = A
      /\ Counting("file") = {i \in Arrived("file") : \E u \in flags : FileToo(u)}
      /\ Counting("sname") = {i \in Arrived("sname") : \E u \in flags : SnameToo(u)}
  BY DEF Counting
<1>. HIDE DEF m, l, A
<1>6. Has(l, Overload) <=> \E j \in A : m[j].code = Overload
  BY <1>1, <1>2 DEF Has
<1>7. flags = IF Has(l, Overload) THEN {v} ELSE {}
  <2>1. \A i \in A : m[i].code = Overload => m[i].data[1] = v
    <3>1. <<v>>[1] = v
      OBVIOUS
    <3>. QED
      BY <1>1, <1>2, <1>3, <3>1
  <2>. QED
    BY <1>6, <2>1
<1>. HIDE DEF flags
<1>8. ~FileToo(0) /\ ~SnameToo(0)
  BY DEF FileToo, SnameToo
<1>9. /\ (\E u \in flags : FileToo(u)) <=> FileToo(f)
      /\ (\E u \in flags : SnameToo(u)) <=> SnameToo(f)
  BY <1>4, <1>7, <1>8
<1>10. \A i \in DOMAIN l : l[i].code = Overload => l[i].data = <<v>>
  BY <1>2, <1>3
<1>. QED
  BY <1>5, <1>9, <1>10 DEF l, A

\* What was received is read as it was meant.
LEMMA InvRead ==
    ASSUME WireInv, phase # "composing"
    PROVE  /\ request.options \in Seq(Item) /\ Distinct(request.options) /\ request.hlen = hlen
           /\ \A c : Get(request.options, c) = Meaning(c)
<1>0. WireType /\ Arriving /\ request = Unpack(area, hlen)
  BY DEF WireInv, Received
<1>1. PICK v \in Nat : \A i \in DOMAIN meant["options"] :
        meant["options"][i].code = Overload => meant["options"][i].data = <<v>>
  BY DEF WireInv, OneOverload
<1>. DEFINE o == Unpack(area, hlen).options
            lo == Items(area["options"])
            lf == Items(area["file"])
            ls == Items(area["sname"])
<1>2. PICK f : f = IF Has(lo, Overload) THEN v ELSE 0
  OBVIOUS
<1>3. /\ \A i \in DOMAIN lo : lo[i].code = Overload => lo[i].data = <<v>>
      /\ Counting("options") = Arrived("options")
      /\ Counting("file") = IF FileToo(f) THEN Arrived("file") ELSE {}
      /\ Counting("sname") = IF SnameToo(f) THEN Arrived("sname") ELSE {}
  BY <1>0, <1>1, <1>2, FlagsRead
<1>4. area \in [Areas -> Octets]
  BY <1>0 DEF WireType
<1>5. /\ o \in Seq(Item) /\ Distinct(o)
      /\ \A c :
           /\ Has(o, c) <=> Has(lo, c) \/ (FileToo(f) /\ Has(lf, c)) \/ (SnameToo(f) /\ Has(ls, c))
           /\ Value(o, c) = Cat(lo, c) \o (IF FileToo(f) THEN Cat(lf, c) ELSE <<>>)
                                       \o (IF SnameToo(f) THEN Cat(ls, c) ELSE <<>>)
  BY <1>2, <1>3, <1>4, UnpackIs, ZenonT(60)
<1>6. request.options = o /\ request.hlen = hlen
  BY <1>0 DEF Unpack
<1>. HIDE DEF o, lo, lf, ls
<1>7. ASSUME NEW c PROVE Get(o, c) = Meaning(c)
  <2>1. /\ DataIn("options", c) = Cat(lo, c)
        /\ (\E i \in Counting("options") : meant["options"][i].code = c) <=> Has(lo, c)
    <3>1. "options" \in Areas /\ Counting("options") = IF TRUE THEN Arrived("options") ELSE {}
      BY <1>3 DEF Areas
    <3>2. PICK w \in BOOLEAN : w = TRUE
      OBVIOUS
    <3>. QED
      BY <1>0, <3>1, <3>2, CountingRead DEF lo
  <2>2. /\ DataIn("file", c) = IF FileToo(f) THEN Cat(lf, c) ELSE <<>>
        /\ (\E i \in Counting("file") : meant["file"][i].code = c) <=> FileToo(f) /\ Has(lf, c)
    <3>1. "file" \in Areas /\ FileToo(f) \in BOOLEAN
      BY DEF Areas, FileToo
    <3>. QED
      BY <1>0, <1>3, <3>1, CountingRead DEF lf
  <2>3. /\ DataIn("sname", c) = IF SnameToo(f) THEN Cat(ls, c) ELSE <<>>
        /\ (\E i \in Counting("sname") : meant["sname"][i].code = c) <=> SnameToo(f) /\ Has(ls, c)
    <3>1. "sname" \in Areas /\ SnameToo(f) \in BOOLEAN
      BY DEF Areas, SnameToo
    <3>. QED
      BY <1>0, <1>3, <3>1, CountingRead DEF ls
  <2>4. (\E a \in Areas : \E i \in Counting(a) : meant[a][i].code = c) <=> Has(o, c)
    BY <1>5, <2>1, <2>2, <2>3 DEF Areas
  <2>5. Value(o, c) = DataIn("options", c) \o DataIn("file", c) \o DataIn("sname", c)
    BY <1>5, <2>1, <2>2, <2>3
  <2>6. Meaning(c) = IF Has(o, c) THEN {Value(o, c)} ELSE {}
    BY <2>4, <2>5 DEF Meaning
  <2>. QED
    BY <1>5, <2>6, GetIs
<1>. QED
  BY <1>5, <1>6, <1>7

-----------------------------------------------------------------------------
(* Every step keeps it. *)

\* The data of a run are octets.
LEMMA DataOctets ==
    ASSUME NEW d \in Data
    PROVE  d \in Octets
<1>1. d \in Seq(0..255)
  BY WireAssumption
<1>2. Len(d) \in Nat /\ d = [i \in 1..Len(d) |-> d[i]] /\ \A i \in 1..Len(d) : d[i] \in 0..255
  BY <1>1, LenProperties, ElementOfSeq
<1>3. \A i \in 1..Len(d) : d[i] \in Nat
  <2>1. \A n \in 0..255 : n \in Nat
    OBVIOUS
  <2>. QED
    BY <1>2, <2>1
<1>. QED
  BY <1>2, <1>3, SeqDef DEF Octets

\* No octets, and nothing meant, anywhere.
LEMMA NothingYet ==
    ASSUME NEW x, NEW m, x = [a \in Areas |-> <<>>], m = [a \in Areas |-> <<>>]
    PROVE  /\ x \in [Areas -> Octets] /\ m \in [Areas -> Seq(Mark)]
           /\ \A a \in Areas : Written(x[a], m[a], FALSE) /\ Reads(x[a], m[a])
           /\ \A a \in Areas : x[a] = <<>> /\ m[a] = <<>> /\ DOMAIN m[a] = {}
<1>1. \A a \in Areas : x[a] = <<>> /\ m[a] = <<>> /\ DOMAIN m[a] = {}
  BY EmptySeq
<1>2. \A a \in Areas : Written(x[a], m[a], FALSE)
  BY <1>1, WrittenNone
<1>3. <<>> \in Octets /\ <<>> \in Seq(Mark)
  BY EmptySeq DEF Octets
<1>. QED
  BY <1>1, <1>2, <1>3 DEF Written

\* Nothing is written at first.
LEMMA InitInv == Init => WireInv
<1>. SUFFICES ASSUME Init PROVE WireInv
  OBVIOUS
<1>1. /\ area \in [Areas -> Octets] /\ meant \in [Areas -> Seq(Mark)]
      /\ \A a \in Areas : Written(area[a], meant[a], FALSE) /\ Reads(area[a], meant[a])
      /\ \A a \in Areas : area[a] = <<>> /\ meant[a] = <<>> /\ DOMAIN meant[a] = {}
  BY NothingYet DEF Init
<1>2. "options" \in Areas
  BY DEF Areas
<1>3. OneOverload
  BY <1>1, <1>2 DEF OneOverload
<1>4. WireType /\ Composing /\ Arriving
  BY <1>1, <1>2 DEF Init, WireType, Composing, Arriving
<1>. QED
  BY <1>3, <1>4 DEF Init, WireInv, Received, Answered

\* What Put leaves to show.
LEMMA PutKeeps ==
    ASSUME WireInv, NEW q, Put(q), ended' \in BOOLEAN, meant' \in [Areas -> Seq(Mark)],
           \A a \in Areas : a # writing => meant'[a] = meant[a],
           Written(area[writing] \o q, meant'[writing], ended'), OneOverload'
    PROVE  WireInv'
<1>0. WireType /\ Composing /\ Arriving
  BY DEF WireInv
<1>1. /\ phase = "composing" /\ phase' = phase /\ writing' = writing /\ hlen' = hlen
      /\ area' = [area EXCEPT ![writing] = @ \o q]
      /\ writing \in Areas
  BY <1>0 DEF Put, WireType
<1>2. /\ area'[writing] = area[writing] \o q
      /\ \A a \in Areas : a # writing => area'[a] = area[a]
  BY <1>0, <1>1 DEF WireType
<1>3. area' \in [Areas -> Octets]
  <2>1. area[writing] \o q \in Octets
    BY DEF Written
  <2>. QED
    BY <1>0, <1>1, <2>1 DEF WireType
<1>4. WireType'
  BY <1>0, <1>1, <1>3 DEF WireType
<1>5. Composing'
  <2>1. \A a \in Areas : Ahead(a)' <=> Ahead(a)
    BY <1>1 DEF Ahead
  <2>2. ~Ahead(writing)
    BY DEF Ahead
  <2>3. \A a \in Areas : Ahead(a) => area'[a] = <<>> /\ meant'[a] = <<>>
    BY <1>0, <1>1, <1>2, <2>2 DEF Composing
  <2>4. Written(area'[writing], meant'[writing], ended')
    BY <1>2
  <2>. QED
    BY <1>1, <2>1, <2>3, <2>4 DEF Composing
<1>6. Arriving'
  <2>1. Reads(area'[writing], meant'[writing])
    BY <1>2 DEF Written
  <2>2. \A a \in Areas : a # writing => Reads(area'[a], meant'[a])
    BY <1>0, <1>2 DEF Arriving
  <2>. QED
    BY <2>1, <2>2 DEF Arriving
<1>7. Received' /\ Answered'
  BY <1>1 DEF Received, Answered
<1>. QED
  BY <1>4, <1>5, <1>6, <1>7 DEF WireInv

\* PutPad keeps the invariant.
LEMMA PutPadKeeps ==
    ASSUME WireInv, PutPad
    PROVE  WireInv'
<1>1. WireType /\ OneOverload /\ Written(area[writing], meant[writing], FALSE)
  BY DEF WireInv, WireType, Composing, PutPad, Put
<1>2. Written(area[writing] \o <<Pad>>, meant[writing], FALSE)
  BY <1>1, WrittenPad
<1>3. Put(<<Pad>>) /\ meant' = meant /\ ended' = FALSE
  BY <1>1 DEF PutPad, WireType
<1>4. OneOverload'
  BY <1>1, <1>3 DEF OneOverload
<1>5. meant' \in [Areas -> Seq(Mark)]
  BY <1>1, <1>3 DEF WireType
<1>. QED
  BY <1>2, <1>3, <1>4, <1>5, PutKeeps

\* PutEnd keeps the invariant.
LEMMA PutEndKeeps ==
    ASSUME WireInv, PutEnd
    PROVE  WireInv'
<1>1. WireType /\ OneOverload /\ Written(area[writing], meant[writing], FALSE)
  BY DEF WireInv, WireType, Composing, PutEnd, Put
<1>2. Written(area[writing] \o <<End>>, meant[writing], TRUE)
  BY <1>1, WrittenEnd
<1>3. Put(<<End>>) /\ meant' = meant /\ ended' = TRUE
  BY <1>1 DEF PutEnd, WireType
<1>4. OneOverload'
  BY <1>1, <1>3 DEF OneOverload
<1>5. meant' \in [Areas -> Seq(Mark)]
  BY <1>1, <1>3 DEF WireType
<1>. QED
  BY <1>2, <1>3, <1>4, <1>5, PutKeeps

\* Overload options with the same flags, after one more fragment.
LEMMA OverloadMore ==
    ASSUME NEW m \in Seq(Mark), NEW x \in Mark, NEW v,
           \A i \in DOMAIN m : m[i].code = Overload => m[i].data = <<v>>,
           x.code = Overload => x.data = <<v>>
    PROVE  \A i \in DOMAIN Append(m, x) :
              Append(m, x)[i].code = Overload => Append(m, x)[i].data = <<v>>
<1>. DEFINE t == Append(m, x)
            n == Len(m)
<1>1. /\ n \in Nat /\ t[n + 1] = x /\ \A i \in 1..n : t[i] = m[i]
      /\ DOMAIN m = 1..n /\ DOMAIN t = 1..(n + 1)
  BY LenProperties, AppendProperties
<1>. HIDE DEF t, n
<1>2. \A i \in 1..(n + 1) : i \in 1..n \/ i = n + 1
  BY <1>1
<1>3. \A i \in DOMAIN t : t[i].code = Overload => t[i].data = <<v>>
  BY <1>1, <1>2
<1>. QED
  BY <1>3 DEF t

\* PutOption keeps it: a second overload option has the flags of the first.
LEMMA PutOptionKeeps ==
    ASSUME WireInv, NEW c \in Nat \ {Pad, End}, NEW d \in Octets, PutOption(c, d),
           \/ c # Overload
           \/ \E v \in Nat :
                 /\ d = <<v>>
                 /\ \A i \in DOMAIN meant["options"] : meant["options"][i].code # Overload
    PROVE  WireInv'
<1>0. WireType /\ OneOverload /\ Written(area[writing], meant[writing], ended)
  BY DEF WireInv, Composing, PutOption, Put
<1>1. /\ Put(Coded(c, d)) /\ ended' = ended /\ ended \in BOOLEAN /\ writing \in Areas
      /\ meant \in [Areas -> Seq(Mark)] /\ area \in [Areas -> Octets]
  BY <1>0 DEF PutOption, Coded, WireType
<1>2. Coded(c, d) \in Octets
  BY CodedParts, EmptySeq DEF Octets
<1>3. CASE ended
  <2>1. meant' = meant /\ ended' = TRUE /\ ended = TRUE
    BY <1>1, <1>3 DEF PutOption
  <2>2. Written(area[writing] \o Coded(c, d), meant[writing], TRUE)
    BY <1>0, <1>2, <2>1, WrittenAfterEnd
  <2>3. OneOverload'
    BY <1>0, <2>1 DEF OneOverload
  <2>. QED
    BY <1>1, <2>1, <2>2, <2>3, PutKeeps
<1>4. CASE ~ended
  <2>. DEFINE b == area[writing] \o Coded(c, d)
              x == [code |-> c, data |-> d, ends |-> Len(b)]
  <2>1. area'[writing] = b
    BY <1>1 DEF Put
  <2>2. meant' = [meant EXCEPT ![writing] = Append(@, x)]
    BY <1>4, <2>1 DEF PutOption
  <2>3. ended = FALSE /\ ended' = FALSE
    BY <1>1, <1>4
  <2>4. Written(b, Append(meant[writing], x), FALSE)
    BY <1>0, <2>3, WrittenOption
  <2>5. x \in Mark
    <3>1. Len(b) \in Nat
      BY <2>4, LenProperties DEF Written, Octets
    <3>. QED
      BY <3>1 DEF Mark
  <2>6. x.code = c /\ x.data = d
    OBVIOUS
  <2>. HIDE DEF b, x
  <2>7. /\ meant'[writing] = Append(meant[writing], x)
        /\ \A a \in Areas : a # writing => meant'[a] = meant[a]
    BY <1>1, <2>2
  <2>8. meant' \in [Areas -> Seq(Mark)]
    <3>1. Append(meant[writing], x) \in Seq(Mark)
      BY <2>4 DEF Written
    <3>. QED
      BY <1>1, <2>2, <3>1
  <2>9. OneOverload'
    <3>1. CASE writing # "options"
      <4>1. meant'["options"] = meant["options"]
        BY <2>7, <3>1 DEF Areas
      <4>. QED
        BY <1>0, <4>1 DEF OneOverload
    <3>2. CASE writing = "options"
      <4>. DEFINE m == meant["options"]
      <4>1. meant'["options"] = Append(m, x) /\ m \in Seq(Mark)
        BY <1>1, <2>7, <3>2
      <4>2. PICK v \in Nat : /\ \A i \in DOMAIN m : m[i].code = Overload => m[i].data = <<v>>
                             /\ x.code = Overload => x.data = <<v>>
        <5>1. CASE c # Overload
          BY <1>0, <2>6, <5>1 DEF OneOverload
        <5>2. CASE c = Overload
          BY <2>6, <5>2
        <5>. QED
          BY <5>1, <5>2
      <4>. HIDE DEF m
      <4>3. \A i \in DOMAIN Append(m, x) :
              Append(m, x)[i].code = Overload => Append(m, x)[i].data = <<v>>
        BY <2>5, <4>1, <4>2, OverloadMore
      <4>. QED
        BY <4>1, <4>3 DEF OneOverload
    <3>. QED
      BY <3>1, <3>2
  <2>10. Written(area[writing] \o Coded(c, d), meant'[writing], ended')
    BY <2>3, <2>4, <2>7 DEF b
  <2>. QED
    BY <1>1, <2>3, <2>7, <2>8, <2>9, <2>10, PutKeeps
<1>. QED
  BY <1>3, <1>4

\* Going on to the next area keeps it: nothing is in that area yet.
LEMMA NextAreaKeeps ==
    ASSUME WireInv, NextArea
    PROVE  WireInv'
<1>1. WireType /\ OneOverload /\ Composing /\ Arriving
  BY DEF WireInv
<1>2. /\ phase = "composing" /\ phase' = phase /\ writing # "sname"
      /\ writing' = IF writing = "options" THEN "file" ELSE "sname"
      /\ ended' = FALSE /\ area' = area /\ meant' = meant /\ hlen' = hlen
  BY DEF NextArea
<1>3. writing \in {"options", "file"} /\ writing' \in Areas
  BY <1>1, <1>2 DEF WireType, Areas
<1>4. WireType' /\ OneOverload' /\ Arriving'
  BY <1>1, <1>2, <1>3 DEF WireType, OneOverload, Arriving
<1>5. Ahead(writing') /\ \A a \in Areas : Ahead(a)' => Ahead(a)
  BY <1>2, <1>3 DEF Ahead
<1>6. area[writing'] = <<>> /\ meant[writing'] = <<>>
  BY <1>1, <1>2, <1>3, <1>5 DEF Composing
<1>7. Composing'
  BY <1>1, <1>2, <1>5, <1>6, WrittenNone DEF Composing
<1>8. Received' /\ Answered'
  BY <1>2 DEF Received, Answered
<1>. QED
  BY <1>4, <1>7, <1>8 DEF WireInv

\* Unpack of areas cut off anywhere keeps it: each is read up to its cut (Reads).
LEMMA ReceiveKeeps ==
    ASSUME WireInv, NEW a \in Areas, NEW n \in 0..Len(area[a]), Receive(a, n)
    PROVE  WireInv'
<1>1. WireType /\ OneOverload /\ Arriving
  BY DEF WireInv
<1>2. /\ area' = [area EXCEPT ![a] = SubSeq(@, 1, n)] /\ hlen' \in HLens
      /\ request' = Unpack(area', hlen') /\ phase' = "received"
      /\ meant' = meant /\ writing' = writing /\ ended' = ended
  BY DEF Receive
<1>3. area[a] \in Octets /\ Reads(area[a], meant[a])
  BY <1>1 DEF WireType, Arriving
<1>4. SubSeq(area[a], 1, n) \in Octets /\ Reads(SubSeq(area[a], 1, n), meant[a])
  BY <1>3, ReadsCut
<1>5. /\ area'[a] = SubSeq(area[a], 1, n) /\ \A x \in Areas : x # a => area'[x] = area[x]
      /\ area' \in [Areas -> Octets]
  BY <1>1, <1>2, <1>4 DEF WireType
<1>6. hlen' \in Nat
  BY <1>2, WireAssumption
<1>7. WireType' /\ OneOverload'
  BY <1>1, <1>2, <1>5, <1>6 DEF WireType, OneOverload
<1>8. Arriving'
  BY <1>1, <1>2, <1>4, <1>5 DEF Arriving
<1>9. Composing' /\ Received' /\ Answered'
  BY <1>2 DEF Composing, Received, Answered
<1>. QED
  BY <1>7, <1>8, <1>9 DEF WireInv

\* An option that is not there yet is set behind the others.
LEMMA SetIs ==
    ASSUME NEW o \in Seq(Item), Distinct(o), NEW c \in Nat, ~Has(o, c), NEW d \in Octets
    PROVE  /\ Set(o, c, d) \in Seq(Item) /\ Distinct(Set(o, c, d))
           /\ \A e : /\ Has(Set(o, c, d), e) <=> Has(o, e) \/ c = e
                     /\ Value(Set(o, c, d), e) = IF c = e THEN d ELSE Value(o, e)
<1>. DEFINE x == Option(c, d)
<1>1. x \in Item /\ x.code = c /\ x.data = d
  BY DEF Option, Item
<1>2. Set(o, c, d) = Append(o, x)
  BY IndexIs DEF Set
<1>. HIDE DEF x
<1>. QED
  BY <1>1, <1>2, AppendOption

\* Reply and Pack keep it: the answer repeats the relay information, and is packed whole.
LEMMA AnswerKeeps ==
    ASSUME WireInv, NEW d \in Data, Answer(d)
    PROVE  WireInv'
<1>. DEFINE kind == Set(<<>>, MessageType, <<2>>)
            skeleton == {Set(kind, RelayInfo, r) : r \in Get(request.options, RelayInfo)}
<1>0. WireType /\ OneOverload /\ Arriving /\ Received
  BY DEF WireInv
<1>1. /\ phase = "received" /\ phase' = "answered"
      /\ area' = area /\ meant' = meant /\ writing' = writing /\ ended' = ended /\ hlen' = hlen
      /\ request' = request
  BY DEF Answer
<1>2. PICK o \in IF skeleton = {} THEN {kind} ELSE skeleton :
        answer' = Set(o, ServerID, d) /\ reply' = Pack(answer', request.hlen)
  BY DEF Answer
<1>3. /\ <<>> \in Seq(Item) /\ Distinct(<<>>) /\ \A c : ~Has(<<>>, c)
      /\ <<2>> \in Octets /\ d \in Octets
  BY EmptySeq, CatNone, OneOctet, DataOctets
<1>4. /\ MessageType \in Nat /\ RelayInfo \in Nat /\ ServerID \in Nat
      /\ MessageType # RelayInfo /\ MessageType # ServerID /\ RelayInfo # ServerID
      /\ \A c \in {MessageType, RelayInfo, ServerID} : c # Pad /\ c # End
  BY DEF MessageType, RelayInfo, ServerID, Pad, End
<1>5. kind \in Seq(Item) /\ Distinct(kind) /\ \A c : Has(kind, c) <=> c = MessageType
  <2>1. PICK z \in Seq(Item) : z = <<>> /\ Distinct(z) /\ \A c : ~Has(z, c)
    BY <1>3
  <2>2. PICK t \in Octets : t = <<2>>
    BY <1>3
  <2>3. /\ Set(z, MessageType, t) \in Seq(Item) /\ Distinct(Set(z, MessageType, t))
        /\ \A c : Has(Set(z, MessageType, t), c) <=> Has(z, c) \/ MessageType = c
    <3>. HIDE DEF kind, skeleton
    <3>1. PICK c : c = MessageType
      OBVIOUS
    <3>2. c \in Nat /\ ~Has(z, c)
      BY <1>4, <2>1, <3>1
    <3>3. /\ Set(z, c, t) \in Seq(Item) /\ Distinct(Set(z, c, t))
          /\ \A e : Has(Set(z, c, t), e) <=> Has(z, e) \/ c = e
      BY <2>1, <3>2, SetIs, ZenonT(60)
    <3>. QED
      BY <3>1, <3>3
  <2>. QED
    BY <2>1, <2>2, <2>3
<1>6. request.options \in Seq(Item)
  BY <1>1, InvRead
<1>. DEFINE had == Get(request.options, RelayInfo)
<1>7. had = IF Has(request.options, RelayInfo) THEN {Value(request.options, RelayInfo)} ELSE {}
  BY <1>6, GetIs
<1>8. Value(request.options, RelayInfo) \in Octets
  BY <1>6, ValueType
<1>. HIDE DEF kind
<1>9. /\ o \in Seq(Item) /\ Distinct(o) /\ \A c : Has(o, c) => c = MessageType \/ c = RelayInfo
      /\ Get(o, RelayInfo) = had
  <2>1. CASE had = {}
    <3>1. o = kind
      BY <1>2, <2>1
    <3>2. Get(o, RelayInfo) = {}
      BY <1>4, <1>5, <3>1, GetIs
    <3>. QED
      BY <1>5, <2>1, <3>1, <3>2
  <2>2. CASE had # {}
    <3>1. PICK r \in Octets : had = {r}
      BY <1>7, <1>8, <2>2
    <3>2. o = Set(kind, RelayInfo, r)
      BY <1>2, <3>1
    <3>3. /\ o \in Seq(Item) /\ Distinct(o)
          /\ \A c : /\ Has(o, c) <=> Has(kind, c) \/ RelayInfo = c
                    /\ Value(o, c) = IF RelayInfo = c THEN r ELSE Value(kind, c)
      BY <1>4, <1>5, <3>2, SetIs
    <3>4. Get(o, RelayInfo) = {r}
      BY <3>3, GetIs
    <3>. QED
      BY <1>5, <3>1, <3>3, <3>4
  <2>. QED
    BY <2>1, <2>2
<1>. HIDE DEF had, skeleton
<1>10. ~Has(o, ServerID) /\ ~Has(o, Pad) /\ ~Has(o, End)
  BY <1>4, <1>9
<1>11. /\ answer' \in Seq(Item) /\ Distinct(answer')
       /\ \A c : /\ Has(answer', c) <=> Has(o, c) \/ ServerID = c
                 /\ Value(answer', c) = IF ServerID = c THEN d ELSE Value(o, c)
  BY <1>2, <1>3, <1>4, <1>9, <1>10, SetIs
<1>12. Get(answer', RelayInfo) = Get(o, RelayInfo)
  BY <1>4, <1>9, <1>11, GetIs
<1>13. ~Has(answer', Pad) /\ ~Has(answer', End)
  BY <1>4, <1>10, <1>11
<1>14. Answered'
  BY <1>1, <1>2, <1>9, <1>11, <1>12, <1>13 DEF Answered, had
<1>15. Received'
  BY <1>0, <1>1 DEF Received
<1>16. WireType' /\ OneOverload' /\ Arriving' /\ Composing'
  BY <1>0, <1>1 DEF WireType, OneOverload, Arriving, Composing
<1>. QED
  BY <1>14, <1>15, <1>16 DEF WireInv

\* The next message starts with nothing.
LEMMA NextMessageKeeps ==
    ASSUME NextMessage
    PROVE  WireInv'
<1>1. /\ area' \in [Areas -> Octets] /\ meant' \in [Areas -> Seq(Mark)]
      /\ \A a \in Areas : Written(area'[a], meant'[a], FALSE) /\ Reads(area'[a], meant'[a])
      /\ \A a \in Areas : area'[a] = <<>> /\ meant'[a] = <<>> /\ DOMAIN meant'[a] = {}
  BY NothingYet DEF NextMessage
<1>2. "options" \in Areas
  BY DEF Areas
<1>3. writing' = "options" /\ ended' = FALSE /\ hlen' = 0 /\ phase' = "composing"
  BY DEF NextMessage
<1>4. OneOverload'
  BY <1>1, <1>2 DEF OneOverload
<1>5. WireType' /\ Composing' /\ Arriving' /\ Received' /\ Answered'
  BY <1>1, <1>2, <1>3 DEF WireType, Composing, Arriving, Received, Answered
<1>. QED
  BY <1>4, <1>5 DEF WireInv

\* No step leads out of the invariant.
LEMMA StepInv == WireInv /\ [Next]_vars => WireInv'
<1>. SUFFICES ASSUME WireInv, [Next]_vars PROVE WireInv'
  OBVIOUS
<1>0. /\ {RelayInfo, MessageType, Overload} \subseteq Nat \ {Pad, End}
      /\ RelayInfo # Overload /\ MessageType # Overload
  BY DEF RelayInfo, MessageType, Overload, Pad, End
<1>1. CASE PutPad
  BY <1>1, PutPadKeeps
<1>2. CASE PutEnd
  BY <1>2, PutEndKeeps
<1>3. ASSUME NEW d \in Data, PutOption(RelayInfo, d) PROVE WireInv'
  BY <1>0, <1>3, DataOctets, PutOptionKeeps
<1>4. CASE PutOption(MessageType, <<3>>)
  <2>1. <<3>> \in Octets
    BY OneOctet
  <2>. QED
    BY <1>0, <1>4, <2>1, PutOptionKeeps
<1>5. ASSUME NEW v \in 0..3, PutOverload(v) PROVE WireInv'
  <2>1. <<v>> \in Octets /\ v \in Nat
    BY OneOctet
  <2>2. PutOption(Overload, <<v>>)
        /\ \A i \in DOMAIN meant["options"] : meant["options"][i].code # Overload
    BY <1>5 DEF PutOverload
  <2>. QED
    BY <1>0, <2>1, <2>2, PutOptionKeeps
<1>6. CASE NextArea
  BY <1>6, NextAreaKeeps
<1>7. ASSUME NEW a \in Areas, NEW n \in 0..Len(area[a]), Receive(a, n) PROVE WireInv'
  BY <1>7, ReceiveKeeps
<1>8. ASSUME NEW d \in Data, Answer(d) PROVE WireInv'
  BY <1>8, AnswerKeeps
<1>9. CASE NextMessage
  BY <1>9, NextMessageKeeps
<1>10. CASE UNCHANGED vars
  BY <1>10 DEF vars, WireInv, WireType, OneOverload, Composing, Ahead, Arriving, Received, Answered
<1>. QED
  BY <1>1, <1>2, <1>3, <1>4, <1>5, <1>6, <1>7, <1>8, <1>9, <1>10 DEF Next

-----------------------------------------------------------------------------
(* The theorems. *)

\* The invariant of the wire, for every length of a fragment, all data, every header,
\* every size of an answer and however many options (option.go parseOptions and
\* AppendTo, message.go Unpack, Reply and Pack).
THEOREM WireInvariant == Spec => []WireInv
  BY InitInv, StepInv, PTL DEF Spec

\* ReadAsMeant, for every length of a fragment, all data, and however many of them.
THEOREM RequestsAreRead == Spec => []ReadAsMeant
<1>1. WireInv => ReadAsMeant
  BY InvRead DEF ReadAsMeant, Distinct
<1>. QED
  BY <1>1, WireInvariant, PTL

\* AnswerRead, for every length of a fragment, all data, and every size of an answer.
THEOREM AnswersAreRead == Spec => []AnswerRead
<1>1. ASSUME WireInv, phase = "answered"
      PROVE  /\ reply = {} => hlen > 16
             /\ \A r \in reply :
                   /\ Unpack(r, request.hlen).options = answer
                   /\ Get(Unpack(r, request.hlen).options, RelayInfo) = Meaning(RelayInfo)
  <2>1. /\ answer \in Seq(Item) /\ Distinct(answer) /\ ~Has(answer, Pad) /\ ~Has(answer, End)
        /\ Get(answer, RelayInfo) = Get(request.options, RelayInfo)
        /\ reply = Pack(answer, request.hlen)
    BY <1>1 DEF WireInv, Answered
  <2>2. request.hlen = hlen /\ Get(request.options, RelayInfo) = Meaning(RelayInfo)
    BY <1>1, InvRead
  <2>3. hlen \in Nat
    BY <1>1 DEF WireInv, WireType
  <2>4. reply = {} => hlen > 16
    <3>. DEFINE x == [a \in Areas |-> IF a = "options" THEN AppendTo(answer) ELSE <<>>]
    <3>1. Pack(answer, hlen) = {a \in {x} : hlen <= 16}
      BY DEF Pack
    <3>. HIDE DEF x
    <3>2. hlen <= 16 => x \in Pack(answer, hlen)
      BY <3>1
    <3>. QED
      BY <2>1, <2>2, <2>3, <3>2
  <2>5. \A i \in DOMAIN answer : answer[i].code \notin {Pad, End}
    BY <2>1 DEF Has
  <2>6. \A r \in reply : Unpack(r, request.hlen).options = answer
    BY <2>1, <2>5, PackRead
  <2>. QED
    BY <2>1, <2>2, <2>4, <2>6
<1>2. WireInv => AnswerRead
  BY <1>1 DEF AnswerRead
<1>. QED
  BY <1>2, WireInvariant, PTL
=============================================================================
