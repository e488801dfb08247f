------------------------- MODULE DeviceTableProofs -------------------------
(***************************************************************************)
(* Theorems about the device table, for every set of addresses, clients,   *)
(* identifiers and decisions, and all limits.                              *)
(*                                                                         *)
(* Lists and map agree because every method changes them through           *)
(* attachAddrLocked and removeLocked, so the lemmas are about one value of *)
(* the table (Good) and what these two make of it; the actions follow.     *)
(* Three things have to be known beside it: that the loops of Merge and    *)
(* Restore have not yet reached what they still refer to (JobOK), that a   *)
(* record of observation alone belongs to nobody (Owned), and that a       *)
(* victim has no decision (Keeps).                                         *)
(***************************************************************************)
EXTENDS DeviceTable, TLAPS

\* A list of addresses in which none is twice.
Listing(s) == s \in Seq(Slots) /\ NoneTwice(s)

\* slices.DeleteFunc takes out the one address it is for, and leaves the rest in order.
LEMMA WithoutOne ==
    ASSUME NEW s, Listing(s), NEW a \in Slots
    PROVE  /\ Listing(Without(s, a)) /\ Len(Without(s, a)) <= Len(s)
           /\ \A b \in Slots : Listed(Without(s, a), b) <=> Listed(s, b) /\ b # a
<1>1. CASE ~Listed(s, a)
  <2>1. Len(s) \in Nat
    BY DEF Listing
  <2> QED
    BY <1>1, <2>1 DEF Without, Listing
<1>2. CASE Listed(s, a)
  <2> DEFINE i == CHOOSE i \in 1..Len(s) : s[i] = a
             w == [j \in 1..(Len(s) - 1) |-> IF j < i THEN s[j] ELSE s[j + 1]]
  <2>1. Without(s, a) = w
    BY <1>2 DEF Without
  <2>2. /\ s \in Seq(Slots) /\ Len(s) \in Nat
        /\ \A j \in 1..Len(s) : s[j] \in Slots
    BY DEF Listing
  <2>3. i \in 1..Len(s) /\ s[i] = a
    BY <1>2 DEF Listed
  <2> HIDE DEF i
  <2>4. w \in Seq(Slots) /\ Len(w) = Len(s) - 1
    <3>1. \A j \in 1..(Len(s) - 1) : w[j] \in Slots
      BY <2>2, <2>3
    <3>2. Len(s) - 1 \in Nat /\ w \in [1..(Len(s) - 1) -> Slots]
      BY <2>2, <2>3, <3>1
    <3> QED
      BY <3>2
  <2>5. \A p, q \in 1..Len(s) : s[p] = s[q] => p = q
    BY DEF Listing, NoneTwice
  <2>6. \A j \in 1..(Len(s) - 1) : w[j] = IF j < i THEN s[j] ELSE s[j + 1]
    OBVIOUS
  <2>7. NoneTwice(w)
    BY <2>2, <2>3, <2>4, <2>5, <2>6 DEF NoneTwice
  <2>8. ASSUME NEW b \in Slots PROVE Listed(w, b) <=> Listed(s, b) /\ b # a
    <3>1. ASSUME NEW j \in 1..Len(w), w[j] = b PROVE Listed(s, b) /\ b # a
      <4>1. CASE j < i
        BY <4>1, <3>1, <2>2, <2>3, <2>4, <2>5, <2>6 DEF Listed
      <4>2. CASE ~(j < i)
        <5>1. j + 1 \in 1..Len(s) /\ j + 1 # i /\ s[j + 1] = b
          BY <4>2, <3>1, <2>2, <2>3, <2>4, <2>6
        <5> QED
          BY <5>1, <2>3, <2>5 DEF Listed
      <4> QED
        BY <4>1, <4>2
    <3>2. ASSUME NEW j \in 1..Len(s), s[j] = b, b # a PROVE Listed(w, b)
      <4>1. j # i
        BY <3>2, <2>3
      <4>2. CASE j < i
        <5>1. j \in 1..Len(w) /\ w[j] = b
          BY <4>2, <3>2, <2>2, <2>3, <2>4, <2>6
        <5> QED
          BY <5>1 DEF Listed
      <4>3. CASE ~(j < i)
        <5>1. j - 1 \in 1..Len(w) /\ ~(j - 1 < i) /\ w[j - 1] = s[(j - 1) + 1]
          BY <4>1, <4>3, <2>2, <2>3, <2>4, <2>6
        <5>2. (j - 1) + 1 = j
          OBVIOUS
        <5> QED
          BY <5>1, <5>2, <3>2 DEF Listed
      <4> QED
        BY <4>2, <4>3
    <3> QED
      BY <3>1, <3>2 DEF Listed
  <2> HIDE DEF w
  <2> QED
    BY <2>1, <2>2, <2>4, <2>7, <2>8 DEF Listing
<1> QED
  BY <1>1, <1>2

\* The list with the address put first, and what of it is too much (attachAddrLocked).
Front(s, a) == <<a>> \o Without(s, a)
Gone(s, a) == {Front(s, a)[i] : i \in (MaxAddrs + 1)..Len(Front(s, a))}

\* Put first, an address is in the list once, whether it was in it or not.
LEMMA FrontList ==
    ASSUME NEW s, Listing(s), NEW a \in Slots
    PROVE  /\ Listing(Front(s, a)) /\ Len(Front(s, a)) \in 1..(Len(s) + 1)
           /\ Front(s, a)[1] = a
           /\ \A b \in Slots : Listed(Front(s, a), b) <=> Listed(s, b) \/ b = a
<1> DEFINE w == Without(s, a)
           f == <<a>> \o w
<1>1. Front(s, a) = f
  BY DEF Front
<1>2. /\ w \in Seq(Slots) /\ NoneTwice(w)
      /\ \A b \in Slots : Listed(w, b) <=> Listed(s, b) /\ b # a
  BY WithoutOne DEF Listing
<1> HIDE DEF w
<1>3. f \in Seq(Slots) /\ Len(f) = Len(w) + 1 /\ Len(w) \in Nat /\ f[1] = a
  BY <1>2
<1>4. \A i \in 1..Len(w) : f[i + 1] = w[i]
  BY <1>2
<1>5. \A i \in 1..Len(f) : i # 1 => i - 1 \in 1..Len(w) /\ f[i] = w[i - 1]
  <2> SUFFICES ASSUME NEW i \in 1..Len(f), i # 1 PROVE i - 1 \in 1..Len(w) /\ f[i] = w[i - 1]
    OBVIOUS
  <2>1. i - 1 \in 1..Len(w) /\ (i - 1) + 1 = i
    BY <1>3
  <2> HIDE DEF f
  <2> QED
    BY <2>1, <1>4
<1> HIDE DEF f
<1>6. \A i \in 1..Len(w) : w[i] # a
  <2> SUFFICES ASSUME NEW i \in 1..Len(w), w[i] = a PROVE FALSE
    OBVIOUS
  <2>1. Listed(w, a)
    BY DEF Listed
  <2> QED
    BY <2>1, <1>2
<1>7. NoneTwice(f)
  <2> SUFFICES ASSUME NEW i \in 1..Len(f), NEW j \in 1..Len(f), f[i] = f[j] PROVE i = j
    BY DEF NoneTwice
  <2>1. CASE i = 1 \/ j = 1
    BY <2>1, <1>3, <1>5, <1>6
  <2>2. CASE i # 1 /\ j # 1
    <3>1. i - 1 \in 1..Len(w) /\ j - 1 \in 1..Len(w) /\ w[i - 1] = w[j - 1]
      BY <2>2, <1>5
    <3>2. i - 1 = j - 1
      BY <3>1, <1>2 DEF NoneTwice
    <3> QED
      BY <3>2
  <2> QED
    BY <2>1, <2>2
<1>8. \A b \in Slots : Listed(f, b) <=> Listed(w, b) \/ b = a
  <2> SUFFICES ASSUME NEW b \in Slots PROVE Listed(f, b) <=> Listed(w, b) \/ b = a
    OBVIOUS
  <2>1. Listed(f, b) => Listed(w, b) \/ b = a
    BY <1>3, <1>5 DEF Listed
  <2>2. Listed(w, b) => Listed(f, b)
    <3> SUFFICES ASSUME NEW i \in 1..Len(w), w[i] = b PROVE Listed(f, b)
      BY DEF Listed
    <3>1. i + 1 \in 1..Len(f) /\ f[i + 1] = b
      BY <1>3, <1>4
    <3> QED
      BY <3>1 DEF Listed
  <2>3. Listed(f, a)
    BY <1>3 DEF Listed
  <2> QED
    BY <2>1, <2>2, <2>3
<1>9. Len(f) \in 1..(Len(s) + 1)
  <2>1. Len(w) <= Len(s) /\ Len(s) \in Nat
    BY WithoutOne DEF Listing, w
  <2> QED
    BY <2>1, <1>3
<1> QED
  BY <1>1, <1>2, <1>3, <1>7, <1>8, <1>9 DEF Listing

\* The list that is kept and the addresses that go make up the whole, and the address that
\* was attached is not among those that go.
LEMMA Kept ==
    ASSUME NEW s, Listing(s), NEW a \in Slots
    PROVE  LET p == First(Front(s, a), MaxAddrs)
           IN  /\ Listing(p) /\ Len(p) <= MaxAddrs /\ Len(p) <= Len(s) + 1
               /\ a \notin Gone(s, a) /\ (Len(s) < MaxAddrs => Gone(s, a) = {})
               /\ \A b \in Slots :
                     Listed(p, b) <=> (Listed(s, b) \/ b = a) /\ b \notin Gone(s, a)
<1> DEFINE f == Front(s, a)
           m == IF Len(f) < MaxAddrs THEN Len(f) ELSE MaxAddrs
           p == SubSeq(f, 1, m)
<1>1. /\ f \in Seq(Slots) /\ NoneTwice(f) /\ f[1] = a
      /\ Len(f) \in Nat \ {0} /\ Len(s) \in Nat /\ Len(f) <= Len(s) + 1
      /\ \A b \in Slots : Listed(f, b) <=> Listed(s, b) \/ b = a
  <2>1. Listing(f) /\ Len(f) \in 1..(Len(s) + 1) /\ f[1] = a
        /\ \A b \in Slots : Listed(f, b) <=> Listed(s, b) \/ b = a
    BY FrontList
  <2>2. Len(s) \in Nat
    BY DEF Listing
  <2> HIDE DEF f
  <2> QED
    BY <2>1, <2>2 DEF Listing
<1>2. MaxAddrs \in Nat \ {0}
  BY TableAssumption
<1>3. Gone(s, a) = {f[i] : i \in (MaxAddrs + 1)..Len(f)}
  BY DEF Gone
<1>4. First(Front(s, a), MaxAddrs) = p
  BY DEF First
<1> HIDE DEF f
<1>5. m \in 1..Len(f) /\ m <= MaxAddrs /\ (m # Len(f) => m = MaxAddrs)
  BY <1>1, <1>2
<1>6. \A i \in (MaxAddrs + 1)..Len(f) : i > m /\ i \in 1..Len(f)
  BY <1>1, <1>2
<1>7. \A i \in 1..Len(f) : i > m => i \in (MaxAddrs + 1)..Len(f)
  BY <1>1, <1>2
<1> HIDE DEF m
<1>8. p \in Seq(Slots) /\ Len(p) = m /\ \A i \in 1..m : p[i] = f[i]
  BY <1>1, <1>5
<1> HIDE DEF p
<1>9. NoneTwice(p)
  BY <1>1, <1>5, <1>8 DEF NoneTwice
<1>10. a \notin Gone(s, a)
  BY <1>1, <1>2, <1>3, <1>6, <1>5 DEF NoneTwice
<1>11. Len(p) <= Len(s) + 1 /\ (Len(s) < MaxAddrs => Gone(s, a) = {})
  <2>1. Len(s) < MaxAddrs => (MaxAddrs + 1)..Len(f) = {}
    BY <1>1, <1>2
  <2> QED
    BY <2>1, <1>1, <1>3, <1>5, <1>8
<1>12. ASSUME NEW b \in Slots
       PROVE  Listed(p, b) <=> (Listed(s, b) \/ b = a) /\ b \notin Gone(s, a)
  <2>1. ASSUME NEW i \in 1..m, p[i] = b PROVE Listed(f, b) /\ b \notin Gone(s, a)
    <3>1. i \in 1..Len(f) /\ f[i] = b
      BY <2>1, <1>5, <1>8, <1>1
    <3>2. b \notin Gone(s, a)
      BY <3>1, <1>1, <1>3, <1>6, <1>5 DEF NoneTwice
    <3> QED
      BY <3>1, <3>2 DEF Listed
  <2>2. ASSUME NEW i \in 1..Len(f), f[i] = b, b \notin Gone(s, a) PROVE Listed(p, b)
    <3>1. i \in 1..m
      BY <2>2, <1>3, <1>7, <1>5, <1>1
    <3> QED
      BY <3>1, <2>2, <1>8 DEF Listed
  <2> QED
    BY <2>1, <2>2, <1>1, <1>8 DEF Listed
<1> QED
  BY <1>4, <1>5, <1>8, <1>9, <1>10, <1>11, <1>12 DEF Listing

-----------------------------------------------------------------------------
\* The invariant of one value of the table.
Good(t) == IsTable(t) /\ Mirrors(t)

\* Replacing its list changes nothing else in a record.
LEMMA DeviceParts ==
    ASSUME NEW r \in Device, NEW s \in Seq(Slots)
    PROVE  /\ [r EXCEPT !.addrs = s] \in Device
           /\ [r EXCEPT !.addrs = s].addrs = s
           /\ [r EXCEPT !.addrs = s].decided = r.decided
           /\ [r EXCEPT !.addrs = s].source = r.source
BY DEF Device

\* What Good says of one record.
LEMMA GoodLists ==
    ASSUME NEW t, Good(t), NEW d \in DOMAIN t.devices
    PROVE  t.devices[d] \in Device /\ Listing(t.devices[d].addrs)
BY DEF Good, IsTable, IsPartial, Mirrors, Listing, Device

\* attachAddrLocked, field by field.
LEMMA AttachedParts ==
    ASSUME NEW t, Good(t), NEW d \in DOMAIN t.devices, NEW a \in Slots
    PROVE  LET u == Attached(t, d, a)
               s == t.devices[d].addrs
           IN  /\ u = [devices |-> u.devices, byAddr |-> u.byAddr, byKey |-> t.byKey]
               /\ DOMAIN u.devices = DOMAIN t.devices
               /\ u.devices \in [DOMAIN u.devices -> Device]
               /\ u.byAddr \in [DOMAIN u.byAddr -> Ids]
               /\ u.devices[d].addrs = First(Front(s, a), MaxAddrs)
               /\ \A e \in DOMAIN t.devices \ {d} :
                     u.devices[e].addrs = IF a \in DOMAIN t.byAddr /\ t.byAddr[a] = e
                                          THEN Without(t.devices[e].addrs, a)
                                          ELSE t.devices[e].addrs
               /\ \A e \in DOMAIN t.devices :
                     /\ u.devices[e].decided = t.devices[e].decided
                     /\ u.devices[e].source = t.devices[e].source
               /\ DOMAIN u.byAddr = {b \in DOMAIN t.byAddr \cup {a} :
                     ~(b \in Gone(s, a) /\ (b = a \/ t.byAddr[b] = d))}
               /\ \A b \in DOMAIN u.byAddr : u.byAddr[b] = IF b = a THEN d ELSE t.byAddr[b]
<1> DEFINE u == Attached(t, d, a)
           s == t.devices[d].addrs
           p == First(Front(s, a), MaxAddrs)
           holder(e) == a \in DOMAIN t.byAddr /\ t.byAddr[a] = e
           taken == [e \in DOMAIN t.devices |->
                       IF e # d /\ holder(e)
                       THEN [t.devices[e] EXCEPT !.addrs = Without(@, a)]
                       ELSE t.devices[e]]
           pointed == Set(t.byAddr, a, d)
           D == [taken EXCEPT ![d].addrs = p]
           B == Only(pointed, {x \in DOMAIN pointed : ~(x \in Gone(s, a) /\ pointed[x] = d)})
<1>1. u = [devices |-> D, byAddr |-> B, byKey |-> t.byKey]
  BY DEF Attached, Gone, Front
<1>2. \A e \in DOMAIN t.devices :
         t.devices[e] \in Device /\ Without(t.devices[e].addrs, a) \in Seq(Slots)
  BY GoodLists, WithoutOne DEF Listing
<1>3. p \in Seq(Slots)
  BY GoodLists, Kept DEF Listing
<1> HIDE DEF p
<1>4. D = [e \in DOMAIN t.devices |->
             IF e = d THEN [t.devices[d] EXCEPT !.addrs = p]
             ELSE IF holder(e) THEN [t.devices[e] EXCEPT !.addrs = Without(@, a)]
             ELSE t.devices[e]]
  OBVIOUS
<1>5. \A e \in DOMAIN t.devices :
         /\ D[e] \in Device
         /\ D[e].decided = t.devices[e].decided /\ D[e].source = t.devices[e].source
         /\ D[e].addrs = IF e = d THEN p
                         ELSE IF holder(e) THEN Without(t.devices[e].addrs, a)
                         ELSE t.devices[e].addrs
  <2> SUFFICES ASSUME NEW e \in DOMAIN t.devices
               PROVE  /\ D[e] \in Device
                      /\ D[e].decided = t.devices[e].decided /\ D[e].source = t.devices[e].source
                      /\ D[e].addrs = IF e = d THEN p
                                      ELSE IF holder(e) THEN Without(t.devices[e].addrs, a)
                                      ELSE t.devices[e].addrs
    OBVIOUS
  <2>1. CASE e = d
    <3>1. D[e] = [t.devices[e] EXCEPT !.addrs = p]
      BY <2>1, <1>4
    <3> QED
      BY <2>1, <3>1, <1>2, <1>3, DeviceParts
  <2>2. CASE e # d /\ holder(e)
    <3>1. D[e] = [t.devices[e] EXCEPT !.addrs = Without(t.devices[e].addrs, a)]
      BY <2>2, <1>4
    <3> HIDE DEF holder, D
    <3> QED
      BY <2>2, <3>1, <1>2, DeviceParts
  <2>3. CASE e # d /\ ~holder(e)
    <3>1. D[e] = t.devices[e]
      BY <2>3, <1>4
    <3> HIDE DEF holder, D
    <3> QED
      BY <2>3, <3>1, <1>2
  <2> QED
    BY <2>1, <2>2, <2>3
<1>6. DOMAIN D = DOMAIN t.devices /\ D \in [DOMAIN t.devices -> Device]
  BY <1>4, <1>5
<1>7. /\ DOMAIN B = {b \in DOMAIN t.byAddr \cup {a} :
                        ~(b \in Gone(s, a) /\ (b = a \/ t.byAddr[b] = d))}
      /\ \A b \in DOMAIN B : B[b] = IF b = a THEN d ELSE t.byAddr[b]
      /\ B = [b \in DOMAIN B |-> B[b]]
  BY DEF Only, Set
<1>8. t.byAddr \in [DOMAIN t.byAddr -> Ids] /\ DOMAIN t.devices \subseteq Ids
  BY DEF Good, IsTable, IsPartial
<1>9. B \in [DOMAIN B -> Ids]
  <2> HIDE DEF B
  <2> QED
    BY <1>7, <1>8
<1> HIDE DEF D, B
<1> QED
  BY <1>1, <1>5, <1>6, <1>7, <1>9 DEF p

\* attachAddrLocked keeps lists and map in step, whoever had the address, and changes no
\* decision.
LEMMA AttachedGood ==
    ASSUME NEW t, Good(t), NEW d \in DOMAIN t.devices, NEW a \in Slots
    PROVE  LET u == Attached(t, d, a)
           IN  /\ Good(u)
               /\ DOMAIN u.devices = DOMAIN t.devices
               /\ u.byKey = t.byKey
               /\ \A e \in DOMAIN t.devices :
                     /\ u.devices[e].decided = t.devices[e].decided
                     /\ u.devices[e].source = t.devices[e].source
               /\ \A b \in DOMAIN u.byAddr :
                     u.byAddr[b] = d \/ (b \in DOMAIN t.byAddr /\ u.byAddr[b] = t.byAddr[b])
<1> DEFINE u == Attached(t, d, a)
           s == t.devices[d].addrs
           p == First(Front(s, a), MaxAddrs)
<1>1. /\ u = [devices |-> u.devices, byAddr |-> u.byAddr, byKey |-> t.byKey]
      /\ DOMAIN u.devices = DOMAIN t.devices
      /\ u.devices \in [DOMAIN u.devices -> Device]
      /\ u.byAddr \in [DOMAIN u.byAddr -> Ids]
      /\ u.devices[d].addrs = p
      /\ \A e \in DOMAIN t.devices \ {d} :
            u.devices[e].addrs = IF a \in DOMAIN t.byAddr /\ t.byAddr[a] = e
                                 THEN Without(t.devices[e].addrs, a)
                                 ELSE t.devices[e].addrs
      /\ \A e \in DOMAIN t.devices :
            /\ u.devices[e].decided = t.devices[e].decided
            /\ u.devices[e].source = t.devices[e].source
      /\ DOMAIN u.byAddr = {b \in DOMAIN t.byAddr \cup {a} :
            ~(b \in Gone(s, a) /\ (b = a \/ t.byAddr[b] = d))}
      /\ \A b \in DOMAIN u.byAddr : u.byAddr[b] = IF b = a THEN d ELSE t.byAddr[b]
  BY AttachedParts
<1>2. /\ Listing(p) /\ Len(p) <= MaxAddrs /\ a \notin Gone(s, a)
      /\ \A b \in Slots : Listed(p, b) <=> (Listed(s, b) \/ b = a) /\ b \notin Gone(s, a)
  BY GoodLists, Kept
<1> HIDE DEF u, p
<1>3. /\ DOMAIN t.devices \subseteq Ids /\ DOMAIN t.byAddr \subseteq Slots
      /\ IsPartial(t.byKey, Keys, Ids)
      /\ \A k \in DOMAIN t.byKey : t.byKey[k] \in DOMAIN t.devices
      /\ \A e \in DOMAIN t.devices, b \in Slots :
            Listed(t.devices[e].addrs, b) <=> b \in DOMAIN t.byAddr /\ t.byAddr[b] = e
      /\ \A e \in DOMAIN t.devices :
            Listing(t.devices[e].addrs) /\ Len(t.devices[e].addrs) <= MaxAddrs
  BY GoodLists DEF Good, IsTable, IsPartial, Mirrors
<1>4. IsTable(u)
  BY <1>1, <1>3 DEF IsTable, IsPartial
<1>5. ASSUME NEW e \in DOMAIN t.devices
      PROVE  Len(u.devices[e].addrs) <= MaxAddrs /\ NoneTwice(u.devices[e].addrs)
  <2>1. CASE e = d
    BY <2>1, <1>1, <1>2 DEF Listing
  <2>2. CASE e # d /\ Listed(t.devices[e].addrs, a)
    <3>1. u.devices[e].addrs = Without(t.devices[e].addrs, a)
      BY <2>2, <1>1, <1>3
    <3>2. Listing(Without(t.devices[e].addrs, a)) /\ Len(t.devices[e].addrs) \in Nat
          /\ Len(Without(t.devices[e].addrs, a)) \in Nat
          /\ Len(Without(t.devices[e].addrs, a)) <= Len(t.devices[e].addrs)
      BY <1>3, WithoutOne DEF Listing
    <3>3. MaxAddrs \in Nat
      BY TableAssumption
    <3> QED
      BY <3>1, <3>2, <3>3, <1>3 DEF Listing
  <2>3. CASE e # d /\ ~Listed(t.devices[e].addrs, a)
    <3>1. u.devices[e].addrs = t.devices[e].addrs
      BY <2>3, <1>1, <1>3
    <3> QED
      BY <3>1, <1>3 DEF Listing
  <2> QED
    BY <2>1, <2>2, <2>3
<1>6. ASSUME NEW e \in DOMAIN t.devices, NEW b \in Slots
      PROVE  Listed(u.devices[e].addrs, b) <=> b \in DOMAIN u.byAddr /\ u.byAddr[b] = e
  <2>1. CASE e = d
    BY <2>1, <1>1, <1>2, <1>3
  <2>2. CASE e # d
    <3>1. Listed(u.devices[e].addrs, b) <=> Listed(t.devices[e].addrs, b) /\ b # a
      <4>1. CASE Listed(t.devices[e].addrs, a)
        <5>1. u.devices[e].addrs = Without(t.devices[e].addrs, a)
          BY <2>2, <4>1, <1>1, <1>3
        <5>2. \A c \in Slots : Listed(Without(t.devices[e].addrs, a), c)
                                 <=> Listed(t.devices[e].addrs, c) /\ c # a
          BY <1>3, WithoutOne
        <5> QED
          BY <5>1, <5>2
      <4>2. CASE ~Listed(t.devices[e].addrs, a)
        <5>1. u.devices[e].addrs = t.devices[e].addrs
          BY <2>2, <4>2, <1>1, <1>3
        <5> QED
          BY <5>1, <4>2
      <4> QED
        BY <4>1, <4>2
    <3> QED
      BY <2>2, <3>1, <1>1, <1>3
  <2> QED
    BY <2>1, <2>2
<1>7. Mirrors(u)
  BY <1>1, <1>3, <1>5, <1>6 DEF Mirrors
<1> QED
  BY <1>1, <1>4, <1>7 DEF Good, u

\* What leaves lists and map alone and adds no key of a record that is gone, is harmless.
LEMMA SameLists ==
    ASSUME NEW t, Good(t), NEW devices, NEW byKey,
           IsPartial(devices, Ids, Device), DOMAIN devices = DOMAIN t.devices,
           \A e \in DOMAIN t.devices : devices[e].addrs = t.devices[e].addrs,
           IsPartial(byKey, Keys, Ids),
           \A k \in DOMAIN byKey : byKey[k] \in DOMAIN t.devices
    PROVE  Good([devices |-> devices, byAddr |-> t.byAddr, byKey |-> byKey])
<1> DEFINE u == [devices |-> devices, byAddr |-> t.byAddr, byKey |-> byKey]
<1>1. u.devices = devices /\ u.byAddr = t.byAddr /\ u.byKey = byKey
  OBVIOUS
<1>2. IsTable(u)
  BY DEF Good, IsTable
<1> HIDE DEF u
<1>3. Mirrors(u)
  BY <1>1 DEF Good, Mirrors
<1> QED
  BY <1>2, <1>3 DEF Good, u

\* removeLocked leaves nothing behind that refers to the record.
LEMMA RemovedGood ==
    ASSUME NEW t, Good(t), NEW d \in Ids
    PROVE  LET u == Removed(t, d)
           IN  /\ Good(u)
               /\ DOMAIN u.devices = DOMAIN t.devices \ {d}
               /\ \A e \in DOMAIN u.devices : u.devices[e] = t.devices[e]
               /\ \A b \in DOMAIN u.byAddr : b \in DOMAIN t.byAddr /\ u.byAddr[b] = t.byAddr[b]
               /\ \A k \in DOMAIN u.byKey : k \in DOMAIN t.byKey /\ u.byKey[k] = t.byKey[k]
<1> DEFINE u == Removed(t, d)
<1>1. /\ u = [devices |-> u.devices, byAddr |-> u.byAddr, byKey |-> u.byKey]
      /\ DOMAIN u.devices = DOMAIN t.devices \ {d}
      /\ \A e \in DOMAIN u.devices : u.devices[e] = t.devices[e]
      /\ u.devices = [e \in DOMAIN u.devices |-> u.devices[e]]
      /\ DOMAIN u.byAddr = {b \in DOMAIN t.byAddr : t.byAddr[b] # d}
      /\ \A b \in DOMAIN u.byAddr : u.byAddr[b] = t.byAddr[b]
      /\ u.byAddr = [b \in DOMAIN u.byAddr |-> u.byAddr[b]]
      /\ DOMAIN u.byKey = {k \in DOMAIN t.byKey : t.byKey[k] # d}
      /\ \A k \in DOMAIN u.byKey : u.byKey[k] = t.byKey[k]
      /\ u.byKey = [k \in DOMAIN u.byKey |-> u.byKey[k]]
  BY DEF Removed, Only, Good, IsTable, IsPartial
<1> HIDE DEF u
<1>2. IsTable(u)
  BY <1>1 DEF Good, IsTable, IsPartial
<1>3. Mirrors(u)
  BY <1>1 DEF Good, Mirrors
<1> QED
  BY <1>1, <1>2, <1>3 DEF Good, u

\* A new record has no address, so nothing may point to its identifier yet.
LEMMA CreatedGood ==
    ASSUME NEW t, Good(t), NEW d \in Ids \ DOMAIN t.devices,
           \A b \in DOMAIN t.byAddr : t.byAddr[b] # d,
           NEW r \in Device, r.addrs = <<>>,
           NEW u, u = [devices |-> u.devices, byAddr |-> t.byAddr, byKey |-> t.byKey],
           u.devices = Set(t.devices, d, r)
    PROVE  Good(u)
<1>1. u = [devices |-> u.devices, byAddr |-> u.byAddr, byKey |-> u.byKey]
  OBVIOUS
<1>2. u.byAddr = t.byAddr /\ u.byKey = t.byKey /\ u.devices = Set(t.devices, d, r)
  OBVIOUS
<1>3. /\ DOMAIN u.devices = DOMAIN t.devices \cup {d}
      /\ \A e \in DOMAIN u.devices : u.devices[e] = IF e = d THEN r ELSE t.devices[e]
      /\ u.devices = [e \in DOMAIN u.devices |-> u.devices[e]]
  BY <1>2 DEF Set
<1>4. IsTable(u)
  BY <1>1, <1>2, <1>3 DEF Good, IsTable, IsPartial
<1>5. MaxAddrs \in Nat
  BY TableAssumption
<1>6. Len(u.devices[d].addrs) = 0 /\ NoneTwice(u.devices[d].addrs)
      /\ \A b \in Slots : ~Listed(u.devices[d].addrs, b)
  BY <1>3 DEF NoneTwice, Listed
<1>7. Mirrors(u)
  BY <1>2, <1>3, <1>5, <1>6 DEF Good, Mirrors
<1> QED
  BY <1>2, <1>3, <1>4, <1>7 DEF Good

-----------------------------------------------------------------------------
\* Only records in shared have two clients; a record known from observation alone has none
\* outside it, so adopting it takes nothing from anybody.
Owned(t, shared) ==
    /\ \A j, k \in DOMAIN t.byKey :
          j # k /\ t.byKey[j] = t.byKey[k] => t.byKey[k] \in shared
    /\ \A k \in DOMAIN t.byKey :
          t.devices[t.byKey[k]].source = "observed" => t.byKey[k] \in shared

\* What a person decided in t is in u.
Keeps(t, u) ==
    \A d \in DOMAIN t.devices :
        t.devices[d].decided # {} =>
            d \in DOMAIN u.devices /\ u.devices[d].decided = t.devices[d].decided

\* A value the table may be given.
Sound(u, shared) == Good(u) /\ Owned(u, shared) /\ Keeps(table, u)

\* attachAddrLocked keeps all of it.
LEMMA AttachedSound ==
    ASSUME NEW t, NEW shared, Sound(t, shared), NEW d \in DOMAIN t.devices, NEW a \in Slots
    PROVE  Sound(Attached(t, d, a), shared)
<1>1. Good(t)
  BY DEF Sound
<1> DEFINE u == Attached(t, d, a)
<1>2. /\ Good(u) /\ DOMAIN u.devices = DOMAIN t.devices /\ u.byKey = t.byKey
      /\ \A e \in DOMAIN t.devices :
            u.devices[e].decided = t.devices[e].decided /\ u.devices[e].source = t.devices[e].source
  BY <1>1, AttachedGood
<1> HIDE DEF u
<1>3. \A k \in DOMAIN t.byKey : t.byKey[k] \in DOMAIN t.devices
  BY <1>1 DEF Good, Mirrors
<1>4. Owned(u, shared)
  BY <1>2, <1>3 DEF Sound, Owned
<1>5. Keeps(table, u)
  BY <1>2 DEF Sound, Keeps
<1> QED
  BY <1>2, <1>4, <1>5 DEF Sound, u

\* Eviction keeps all of it: its victim has no decision.
LEMMA RoomySound ==
    ASSUME Sound(table, joint), NEW t \in Roomy
    PROVE  /\ Sound(t, joint)
           /\ DOMAIN t.devices \subseteq DOMAIN table.devices
           /\ \A b \in DOMAIN t.byAddr : b \in DOMAIN table.byAddr /\ t.byAddr[b] = table.byAddr[b]
<1>1. CASE t = table
  BY <1>1
<1>2. CASE \E d \in Victims : t = Removed(table, d)
  <2>1. PICK d \in Victims : t = Removed(table, d)
    BY <1>2
  <2>2. Good(table) /\ d \in DOMAIN table.devices /\ table.devices[d].decided = {} /\ d \in Ids
    BY DEF Sound, Victims, Good, IsTable, IsPartial
  <2>3. /\ Good(t)
        /\ DOMAIN t.devices = DOMAIN table.devices \ {d}
        /\ \A e \in DOMAIN t.devices : t.devices[e] = table.devices[e]
        /\ \A b \in DOMAIN t.byAddr : b \in DOMAIN table.byAddr /\ t.byAddr[b] = table.byAddr[b]
        /\ \A k \in DOMAIN t.byKey : k \in DOMAIN table.byKey /\ t.byKey[k] = table.byKey[k]
    BY <2>1, <2>2, RemovedGood
  <2>4. Owned(t, joint)
    <3>1. \A k \in DOMAIN t.byKey : t.byKey[k] \in DOMAIN t.devices
      BY <2>3 DEF Good, Mirrors
    <3> QED
      BY <2>3, <3>1 DEF Sound, Owned
  <2>5. Keeps(table, t)
    BY <2>2, <2>3 DEF Keeps
  <2> QED
    BY <2>3, <2>4, <2>5 DEF Sound
<1> QED
  BY <1>1, <1>2 DEF Roomy

\* d is a new record of u that no key leads to.
Fresh(u, d, src) ==
    /\ d \in DOMAIN u.devices
    /\ u.devices[d] = [decided |-> {}, source |-> src, addrs |-> <<>>]
    /\ d \notin DOMAIN table.devices
    /\ \A k \in DOMAIN u.byKey : u.byKey[k] # d

\* newDeviceLocked keeps all of it, and may forget that the identifier once was shared.
LEMMA CreatedSound ==
    ASSUME Sound(table, joint), NEW t \in Roomy, NEW d, d \in Unused, NEW src \in Sources,
           NEW u, u = Created(t, d, src)
    PROVE  Sound(u, joint \ {d}) /\ Fresh(u, d, src)
<1>1. /\ Good(t) /\ Owned(t, joint) /\ Keeps(table, t)
      /\ DOMAIN t.devices \subseteq DOMAIN table.devices
      /\ \A b \in DOMAIN t.byAddr : b \in DOMAIN table.byAddr /\ t.byAddr[b] = table.byAddr[b]
  BY RoomySound DEF Sound
<1>2. /\ d \in Ids \ DOMAIN t.devices /\ d \notin DOMAIN table.devices
      /\ \A b \in DOMAIN t.byAddr : t.byAddr[b] # d
  BY <1>1 DEF Unused
<1> SUFFICES ASSUME NEW r, r = [decided |-> {}, source |-> src, addrs |-> <<>>]
             PROVE  /\ Sound(u, joint \ {d})
                    /\ d \in DOMAIN u.devices /\ u.devices[d] = r
                    /\ \A k \in DOMAIN u.byKey : u.byKey[k] # d
  BY <1>2 DEF Fresh
<1>3. r \in Device /\ r.addrs = <<>>
  BY DEF Device
<1>4. /\ u = [devices |-> u.devices, byAddr |-> t.byAddr, byKey |-> t.byKey]
      /\ u.devices = Set(t.devices, d, r)
  <2>1. t = [devices |-> t.devices, byAddr |-> t.byAddr, byKey |-> t.byKey]
    BY <1>1 DEF Good, IsTable
  <2>2. u = [t EXCEPT !.devices = Set(t.devices, d, r)]
    BY DEF Created
  <2> QED
    BY <2>1, <2>2
<1>5. /\ Good(u) /\ DOMAIN u.devices = DOMAIN t.devices \cup {d}
      /\ \A e \in DOMAIN u.devices : u.devices[e] = IF e = d THEN r ELSE t.devices[e]
      /\ u.byKey = t.byKey
  <2>1. Good(u)
    BY <1>1, <1>2, <1>3, <1>4, CreatedGood
  <2>2. u.byKey = t.byKey
    BY <1>4
  <2> QED
    BY <2>1, <2>2, <1>4 DEF Set
<1>6. \A k \in DOMAIN t.byKey : t.byKey[k] \in DOMAIN t.devices /\ t.byKey[k] # d
  BY <1>1, <1>2 DEF Good, Mirrors
<1>7. Owned(u, joint \ {d})
  BY <1>1, <1>5, <1>6 DEF Owned
<1>8. Keeps(table, u)
  BY <1>1, <1>2, <1>5 DEF Keeps
<1> QED
  BY <1>5, <1>6, <1>7, <1>8 DEF Sound

\* An update of a record and of the keys at once, part by part.
LEMMA Rekeyed ==
    ASSUME NEW t, t = [devices |-> t.devices, byAddr |-> t.byAddr, byKey |-> t.byKey],
           NEW d, NEW byKey
    PROVE  [t EXCEPT !.devices[d].source = "identified", !.byKey = byKey]
              = [devices |-> [t.devices EXCEPT ![d] = [t.devices[d] EXCEPT !.source = "identified"]],
                 byAddr |-> t.byAddr, byKey |-> byKey]
<1> SUFFICES ASSUME NEW v, v = [t EXCEPT !.devices[d].source = "identified", !.byKey = byKey]
             PROVE  v = [devices |-> [t.devices EXCEPT
                                         ![d] = [t.devices[d] EXCEPT !.source = "identified"]],
                         byAddr |-> t.byAddr, byKey |-> byKey]
  OBVIOUS
<1>1. v = [devices |-> v.devices, byAddr |-> v.byAddr, byKey |-> v.byKey]
  OBVIOUS
<1>2. /\ v.byKey = byKey /\ v.byAddr = t.byAddr
      /\ v.devices = [t.devices EXCEPT ![d] = [t.devices[d] EXCEPT !.source = "identified"]]
  OBVIOUS
<1> QED
  BY <1>1, <1>2

\* The same for the decisions of a record.
LEMMA Redecided ==
    ASSUME NEW t, t = [devices |-> t.devices, byAddr |-> t.byAddr, byKey |-> t.byKey],
           NEW d, NEW byKey, NEW x
    PROVE  [t EXCEPT !.devices[d].decided = x, !.byKey = byKey]
              = [devices |-> [t.devices EXCEPT ![d] = [t.devices[d] EXCEPT !.decided = x]],
                 byAddr |-> t.byAddr, byKey |-> byKey]
<1> SUFFICES ASSUME NEW v, v = [t EXCEPT !.devices[d].decided = x, !.byKey = byKey]
             PROVE  v = [devices |-> [t.devices EXCEPT
                                         ![d] = [t.devices[d] EXCEPT !.decided = x]],
                         byAddr |-> t.byAddr, byKey |-> byKey]
  OBVIOUS
<1>1. v = [devices |-> v.devices, byAddr |-> v.byAddr, byKey |-> v.byKey]
  OBVIOUS
<1>2. /\ v.byKey = byKey /\ v.byAddr = t.byAddr
      /\ v.devices = [t.devices EXCEPT ![d] = [t.devices[d] EXCEPT !.decided = x]]
  OBVIOUS
<1> QED
  BY <1>1, <1>2

\* The record is a client's: the part of Bound before the address is attached.
Identified(t, k, d) ==
    [t EXCEPT !.devices[d].source = "identified", !.byKey = Set(@, k, d)]

\* A record may be made a client's if every other client of it shares it already.
LEMMA IdentifiedSound ==
    ASSUME NEW t, NEW shared, Sound(t, shared), NEW d \in DOMAIN t.devices, NEW k \in Keys,
           \A j \in DOMAIN t.byKey : j # k /\ t.byKey[j] = d => d \in shared
    PROVE  LET v == Identified(t, k, d)
           IN  /\ Sound(v, shared) /\ DOMAIN v.devices = DOMAIN t.devices
               /\ v.byAddr = t.byAddr /\ v.byKey = Set(t.byKey, k, d)
<1> DEFINE r == [t.devices[d] EXCEPT !.source = "identified"]
           devices == [t.devices EXCEPT ![d] = r]
           byKey == Set(t.byKey, k, d)
           u == [devices |-> devices, byAddr |-> t.byAddr, byKey |-> byKey]
<1>1. Good(t) /\ IsTable(t)
  BY DEF Sound, Good
<1>2. Identified(t, k, d) = u
  <2>1. t = [devices |-> t.devices, byAddr |-> t.byAddr, byKey |-> t.byKey]
    BY <1>1 DEF IsTable
  <2> QED
    BY <2>1, Rekeyed, ZenonT(60) DEF Identified
<1>3. t.devices[d] \in Device
  BY <1>1, GoodLists
<1>4. /\ r \in Device /\ r.addrs = t.devices[d].addrs
      /\ r.decided = t.devices[d].decided /\ r.source = "identified"
  BY <1>3 DEF Device, Sources
<1> HIDE DEF r
<1>5. /\ IsPartial(t.devices, Ids, Device) /\ IsPartial(t.byKey, Keys, Ids) /\ d \in Ids
      /\ \A j \in DOMAIN t.byKey : t.byKey[j] \in DOMAIN t.devices
  BY <1>1 DEF Good, IsTable, Mirrors, IsPartial
<1>6. /\ DOMAIN devices = DOMAIN t.devices
      /\ \A e \in DOMAIN t.devices : devices[e] = IF e = d THEN r ELSE t.devices[e]
      /\ IsPartial(devices, Ids, Device)
  BY <1>4, <1>5 DEF IsPartial
<1>7. /\ DOMAIN byKey = DOMAIN t.byKey \cup {k}
      /\ \A j \in DOMAIN byKey : byKey[j] = IF j = k THEN d ELSE t.byKey[j]
      /\ byKey = [j \in DOMAIN byKey |-> byKey[j]]
  BY DEF Set
<1> HIDE DEF devices, byKey
<1>8. IsPartial(byKey, Keys, Ids) /\ \A j \in DOMAIN byKey : byKey[j] \in DOMAIN t.devices
  BY <1>5, <1>7 DEF IsPartial
<1>9. \A e \in DOMAIN t.devices : devices[e].addrs = t.devices[e].addrs
  BY <1>4, <1>6
<1>10. Good(u)
  BY <1>1, <1>6, <1>8, <1>9, SameLists
<1>11. Owned(u, shared)
  <2>1. u.byKey = byKey /\ u.devices = devices
    OBVIOUS
  <2> HIDE DEF u
  <2>2. Owned(t, shared)
    BY DEF Sound
  <2>3. ASSUME NEW i \in DOMAIN byKey, NEW j \in DOMAIN byKey, i # j, byKey[i] = byKey[j]
        PROVE  byKey[j] \in shared
    BY <2>2, <2>3, <1>7 DEF Owned
  <2>4. ASSUME NEW j \in DOMAIN byKey, devices[byKey[j]].source = "observed"
        PROVE  byKey[j] \in shared
    BY <2>2, <2>4, <1>4, <1>5, <1>6, <1>7 DEF Owned
  <2> QED
    BY <2>1, <2>3, <2>4 DEF Owned
<1>12. Keeps(table, u)
  BY <1>4, <1>6 DEF Sound, Keeps
<1>13. Sound(u, shared)
  BY <1>10, <1>11, <1>12 DEF Sound
<1>14. DOMAIN u.devices = DOMAIN t.devices /\ u.byAddr = t.byAddr /\ u.byKey = byKey
  BY <1>6
<1> HIDE DEF u
<1> QED
  BY <1>2, <1>13, <1>14 DEF byKey

\* So may it with its address.
LEMMA BoundSound ==
    ASSUME NEW t, NEW shared, Sound(t, shared), NEW d \in DOMAIN t.devices,
           NEW k \in Keys, NEW a \in Slots,
           \A j \in DOMAIN t.byKey : j # k /\ t.byKey[j] = d => d \in shared
    PROVE  Sound(Bound(t, k, d, a), shared)
<1> DEFINE v == Identified(t, k, d)
<1>1. Sound(v, shared) /\ DOMAIN v.devices = DOMAIN t.devices
  BY IdentifiedSound
<1>2. Bound(t, k, d, a) = Attached(v, d, a)
  BY DEF Bound, Identified
<1> HIDE DEF v
<1> QED
  BY <1>1, <1>2, AttachedSound

-----------------------------------------------------------------------------
\* Where the loops of Merge and Restore are: what they refer to exists, and what they have
\* not reached yet is not there.
JobOK ==
    /\ job.op = "merge" =>
          /\ job.into \in DOMAIN table.devices /\ job.from \in DOMAIN table.devices
          /\ job.into # job.from /\ job.i >= 1
          /\ \A k \in DOMAIN table.byKey : table.byKey[k] # job.from
    /\ job.op = "restore" =>
          /\ DOMAIN table.byKey = {}
          /\ job.todo \subseteq DOMAIN file.devices \ DOMAIN table.devices
          /\ job.id # NoId => job.id \in DOMAIN file.devices \cap DOMAIN table.devices
          /\ job.i >= 1
          /\ \A b \in DOMAIN table.byAddr : table.byAddr[b] \in DOMAIN table.devices

\* The inductive invariant.
IInv == TypeOK /\ Mirrored /\ Owned(table, joint) /\ JobOK

\* Types of the variables beside the table.
Rest ==
    /\ IsFile(file)
    /\ queue \in Seq(Addrs) /\ Len(queue) <= QueueLength
    /\ IsPartial(holds, Keys, Addrs)
    /\ joint \subseteq Ids

\* The parts of the invariant, as the lemmas above take them.
LEMMA InvParts ==
    ASSUME IInv
    PROVE  Sound(table, joint) /\ Good(table) /\ Rest
BY DEF IInv, TypeOK, Mirrored, Good, Rest, Sound, Keeps

\* Every method ends with Publish: a sound table published makes a good state.
LEMMA PublishedInv ==
    ASSUME IInv, NEW t, Publish(t), Good(t), Owned(t, joint'), job' = Free, Rest'
    PROVE  IInv'
<1>1. table' = t /\ IsTable(t) /\ Mirrors(t)
  BY DEF Publish, Good
<1>2. IsPartial(index', Slots, Ids)
  <2>1. IsPartial(t.byAddr, Slots, Ids)
    BY <1>1 DEF IsTable
  <2> QED
    BY <2>1 DEF Publish, Published, Only, IsPartial
<1>3. unsaved' \in 0..MaxUnsaved
  <2>1. unsaved \in 0..MaxUnsaved /\ MaxUnsaved \in Nat
    BY TableAssumption DEF IInv, TypeOK
  <2> QED
    BY <2>1 DEF Publish
<1>4. TypeOK'
  BY <1>1, <1>2, <1>3 DEF TypeOK, Rest
<1>5. JobOK'
  BY DEF JobOK, Free
<1> QED
  BY <1>1, <1>4, <1>5 DEF IInv, Mirrored

\* ... and if the decisions are in it, none was lost.
LEMMA PublishPreserves ==
    ASSUME IInv, NEW t, Publish(t), Sound(t, joint'), job' = Free, Rest'
    PROVE  IInv' /\ Keeps(table, table')
<1>1. table' = t
  BY DEF Publish
<1> QED
  BY <1>1, PublishedInv DEF Sound

\* Steps that leave the table alone.
LEMMA RestPreserved ==
    ASSUME IInv, UNCHANGED table, UNCHANGED <<job, file, joint>>, Rest',
           IsPartial(index', Slots, Ids), unsaved' \in 0..MaxUnsaved
    PROVE  IInv' /\ Keeps(table, table')
BY DEF IInv, TypeOK, Mirrored, JobOK, Rest, Keeps, Free

\* The learner takes an address off the queue.
LEMMA QueueTail ==
    ASSUME IInv, queue # <<>>
    PROVE  Tail(queue) \in Seq(Addrs) /\ Len(Tail(queue)) <= QueueLength /\ Head(queue) \in Addrs
<1>1. queue \in Seq(Addrs) /\ Len(queue) <= QueueLength /\ QueueLength \in Nat
  BY TableAssumption DEF IInv, TypeOK
<1> QED
  BY <1>1

\* Identify.
LEMMA IdentifyPreserves ==
    ASSUME IInv, NEW a \in Addrs, Identify(a)
    PROVE  IInv' /\ Keeps(table, table')
<1>1. queue \in Seq(Addrs) /\ Len(queue) < QueueLength /\ QueueLength \in Nat
  BY TableAssumption DEF IInv, TypeOK, Identify
<1>2. Append(queue, a) \in Seq(Addrs) /\ Len(Append(queue, a)) <= QueueLength
  BY <1>1
<1>3. Rest'
  BY <1>2, InvParts DEF Rest, Identify, auxiliary
<1> QED
  BY <1>3, RestPreserved DEF Identify, auxiliary, IInv, TypeOK

\* The learner.
LEMMA LearnPreserves ==
    ASSUME IInv, LearnSeen \/ LearnRefused \/ \E d \in Ids : LearnStranger(d)
    PROVE  IInv' /\ Keeps(table, table')
<1>1. queue # <<>> /\ queue' = Tail(queue) /\ UNCHANGED <<job, file, holds>> /\ job = Free
  BY DEF LearnSeen, LearnRefused, LearnStranger, auxiliary
<1>2. joint' \subseteq joint
  BY DEF LearnSeen, LearnRefused, LearnStranger, New, auxiliary
<1>3. Rest'
  BY <1>1, <1>2, QueueTail, InvParts DEF Rest
<1>4. CASE UNCHANGED <<table, index, unsaved, joint>>
  BY <1>1, <1>3, <1>4, RestPreserved DEF IInv, TypeOK
<1>5. CASE Publish(table) /\ UNCHANGED joint
  BY <1>1, <1>3, <1>5, InvParts, PublishPreserves
<1>6. CASE \E d \in Ids : LearnStranger(d)
  <2>1. PICK d \in Ids : LearnStranger(d)
    BY <1>6
  <2>2. PICK t \in Roomy : Publish(Attached(Created(t, d, "observed"), d, Head(queue)))
    BY <2>1 DEF LearnStranger
  <2>3. /\ Sound(Created(t, d, "observed"), joint')
        /\ d \in DOMAIN Created(t, d, "observed").devices
    BY <2>1, InvParts, CreatedSound DEF LearnStranger, New, Sources, Fresh
  <2>4. Head(queue) \in Slots
    BY <1>1, QueueTail DEF Slots
  <2>5. Sound(Attached(Created(t, d, "observed"), d, Head(queue)), joint')
    BY <2>3, <2>4, AttachedSound
  <2> QED
    BY <1>1, <1>3, <2>2, <2>5, PublishPreserves
<1> QED
  BY <1>4, <1>5, <1>6 DEF LearnSeen, LearnRefused, auxiliary

\* Holding gives addresses to clients.
LEMMA HoldingOK ==
    ASSUME IInv, NEW k \in Keys, NEW a \in Addrs, NEW d
    PROVE  IsPartial(Holding(k, d, a), Keys, Addrs)
<1>1. IsPartial(holds, Keys, Addrs)
  BY DEF IInv, TypeOK
<1> DEFINE kept == Only(holds, {j \in DOMAIN holds : holds[j] # a /\ ~Has(j, d)})
<1>2. IsPartial(kept, Keys, Addrs)
  BY <1>1 DEF Only, IsPartial
<1> HIDE DEF kept
<1>3. IsPartial(Set(kept, k, a), Keys, Addrs)
  BY <1>2 DEF Set, IsPartial
<1> QED
  BY <1>3 DEF Holding, kept

\* ObserveLease: with the client's own record, an adopted one or a new one.
LEMMA ObserveLeasePreserves ==
    ASSUME IInv, NEW k \in Keys, NEW a \in Addrs, ObserveLease(k, a)
    PROVE  IInv' /\ Keeps(table, table')
<1>1. UNCHANGED <<queue, job, file>> /\ job = Free
  BY DEF ObserveLease
<1>2. joint' \subseteq joint /\ IsPartial(holds', Keys, Addrs)
  <2>1. \A d : IsPartial(Holding(k, d, a), Keys, Addrs)
    BY HoldingOK
  <2> QED
    BY <2>1 DEF ObserveLease, New
<1>3. Rest'
  BY <1>1, <1>2, InvParts DEF Rest
<1>4. a \in Slots
  BY DEF Slots
<1> DEFINE d == RecordFor(k, a)
<1>5. CASE d # NoId /\ Publish(Bound(table, k, d, a)) /\ UNCHANGED joint
  <2>1. d \in DOMAIN table.devices
    BY <1>5 DEF RecordFor, HasRecord, Adoptable
  <2>2. ASSUME NEW j \in DOMAIN table.byKey, j # k, table.byKey[j] = d
        PROVE  d \in joint
    <3>1. Owned(table, joint)
      BY DEF IInv
    <3>2. CASE HasRecord(k)
      BY <2>2, <3>1, <3>2 DEF RecordFor, HasRecord, Owned
    <3>3. CASE ~HasRecord(k)
      <4>1. table.devices[d].source = "observed"
        BY <1>5, <3>3 DEF RecordFor, Adoptable
      <4> QED
        BY <2>2, <3>1, <4>1 DEF Owned
    <3> QED
      BY <3>2, <3>3
  <2> HIDE DEF d
  <2>3. Sound(Bound(table, k, d, a), joint)
    BY <2>1, <2>2, <1>4, InvParts, BoundSound
  <2> QED
    BY <1>1, <1>3, <1>5, <2>3, PublishPreserves
<1>6. CASE \E new \in Ids, t \in Roomy :
              New(new) /\ Publish(Bound(Created(t, new, "identified"), k, new, a))
  <2>1. PICK new \in Ids, t \in Roomy :
              New(new) /\ Publish(Bound(Created(t, new, "identified"), k, new, a))
    BY <1>6
  <2> DEFINE u == Created(t, new, "identified")
  <2>2. /\ Sound(u, joint') /\ new \in DOMAIN u.devices
        /\ \A j \in DOMAIN u.byKey : u.byKey[j] # new
    <3>1. "identified" \in Sources
      BY DEF Sources
    <3>2. new \in Unused /\ joint' = joint \ {new}
      BY <2>1 DEF New
    <3>3. Sound(u, joint \ {new}) /\ Fresh(u, new, "identified")
      BY <2>1, <3>1, <3>2, InvParts, CreatedSound
    <3> HIDE DEF u
    <3> QED
      BY <3>2, <3>3 DEF Fresh
  <2> HIDE DEF u
  <2>3. Sound(Bound(u, k, new, a), joint')
    BY <2>2, <1>4, BoundSound
  <2> QED
    BY <1>1, <1>3, <2>1, <2>3, PublishPreserves DEF u
<1>7. CASE UNCHANGED <<table, index, unsaved, joint>>
  BY <1>1, <1>3, <1>7, RestPreserved DEF IInv, TypeOK
<1> QED
  BY <1>5, <1>6, <1>7 DEF ObserveLease

\* A decision about d is kept, or a person or the end of the process undid it.
KeptOrDecided(d) ==
    table.devices[d].decided # {} =>
        \/ d \in DOMAIN table'.devices /\ table'.devices[d].decided = table.devices[d].decided
        \/ Forget(d) \/ (MergeEnds /\ job.from = d) \/ Restart
        \/ \E what \in Decisions, yes \in BOOLEAN : Decide(d, what, yes)

\* Rename, SetProfile, SetPaused.
LEMMA DecidePreserves ==
    ASSUME IInv, NEW d \in Ids, NEW what \in Decisions, NEW yes \in BOOLEAN, Decide(d, what, yes)
    PROVE  IInv' /\ \A e \in DOMAIN table.devices : KeptOrDecided(e)
<1> DEFINE x == IF yes THEN table.devices[d].decided \cup {what}
                ELSE table.devices[d].decided \ {what}
           r == [table.devices[d] EXCEPT !.decided = x]
           devices == [table.devices EXCEPT ![d] = r]
           u == [devices |-> devices, byAddr |-> table.byAddr, byKey |-> table.byKey]
<1>1. /\ Good(table) /\ Owned(table, joint) /\ d \in DOMAIN table.devices
      /\ UNCHANGED <<queue, job, file, auxiliary>> /\ job = Free
  BY InvParts DEF Decide, Sound
<1>2. table.devices[d] \in Device
  BY <1>1, GoodLists
<1>3. x \in SUBSET Decisions
  BY <1>2 DEF Device
<1>4. Publish(u) /\ table' = u
  <2>1. table = [devices |-> table.devices, byAddr |-> table.byAddr, byKey |-> table.byKey]
    BY <1>1 DEF Good, IsTable
  <2>2. Publish([table EXCEPT !.devices = devices])
    BY DEF Decide
  <2> HIDE DEF devices
  <2>3. [table EXCEPT !.devices = devices] = u
    BY <2>1
  <2> HIDE DEF u
  <2> QED
    BY <2>2, <2>3 DEF Publish
<1> HIDE DEF x
<1>5. /\ r \in Device /\ r.addrs = table.devices[d].addrs /\ r.source = table.devices[d].source
  BY <1>2, <1>3 DEF Device
<1> HIDE DEF r
<1>6. /\ DOMAIN devices = DOMAIN table.devices
      /\ \A e \in DOMAIN devices : devices[e] = IF e = d THEN r ELSE table.devices[e]
      /\ IsPartial(devices, Ids, Device)
      /\ \A e \in DOMAIN table.devices : devices[e].addrs = table.devices[e].addrs
  BY <1>1, <1>5 DEF Good, IsTable, IsPartial
<1> HIDE DEF devices
<1>7. IsPartial(table.byKey, Keys, Ids)
      /\ \A k \in DOMAIN table.byKey : table.byKey[k] \in DOMAIN table.devices
  BY <1>1 DEF Good, IsTable, Mirrors
<1>8. Good(u)
  BY <1>1, <1>6, <1>7, SameLists
<1>9. u.devices = devices /\ u.byKey = table.byKey
  OBVIOUS
<1> HIDE DEF u
<1>10. Owned(u, joint)
  BY <1>1, <1>5, <1>6, <1>7, <1>9 DEF Owned
<1>11. Rest' /\ joint' = joint
  BY <1>1, InvParts DEF Rest, auxiliary
<1>12. IInv'
  BY <1>1, <1>4, <1>8, <1>10, <1>11, PublishedInv
<1>13. ASSUME NEW e \in DOMAIN table.devices PROVE KeptOrDecided(e)
  <2>1. CASE e = d
    BY <2>1 DEF KeptOrDecided
  <2>2. CASE e # d
    BY <2>2, <1>4, <1>6, <1>9 DEF KeptOrDecided
  <2> QED
    BY <2>1, <2>2
<1> QED
  BY <1>12, <1>13

\* Forget.
LEMMA ForgetPreserves ==
    ASSUME IInv, NEW d \in Ids, Forget(d)
    PROVE  IInv' /\ \A e \in DOMAIN table.devices : KeptOrDecided(e)
<1> DEFINE u == Removed(table, d)
<1>1. /\ Good(table) /\ Owned(table, joint) /\ d \in DOMAIN table.devices
      /\ UNCHANGED <<queue, job, file, auxiliary>> /\ job = Free /\ Publish(u)
  BY InvParts DEF Forget, Sound
<1>2. /\ Good(u)
      /\ DOMAIN u.devices = DOMAIN table.devices \ {d}
      /\ \A e \in DOMAIN u.devices : u.devices[e] = table.devices[e]
      /\ \A k \in DOMAIN u.byKey : k \in DOMAIN table.byKey /\ u.byKey[k] = table.byKey[k]
  BY <1>1, RemovedGood
<1> HIDE DEF u
<1>3. Owned(u, joint)
  <2>1. \A k \in DOMAIN u.byKey : u.byKey[k] \in DOMAIN u.devices
    BY <1>2 DEF Good, Mirrors
  <2> QED
    BY <2>1, <1>1, <1>2 DEF Owned
<1>4. Rest' /\ joint' = joint
  BY <1>1, InvParts DEF Rest, auxiliary
<1>5. IInv'
  BY <1>1, <1>2, <1>3, <1>4, PublishedInv
<1>6. ASSUME NEW e \in DOMAIN table.devices PROVE KeptOrDecided(e)
  <2>1. table' = u
    BY <1>1 DEF Publish
  <2> QED
    BY <2>1, <1>2 DEF KeptOrDecided
<1> QED
  BY <1>5, <1>6

\* With t room was made, and u has the new record and its key, but not its address yet.
Makes(t, u, k, a, d) ==
    /\ Sound(u, joint') /\ d \in DOMAIN u.devices
    /\ Publish(Attached(u, d, a))
    /\ u.byAddr = t.byAddr
    /\ \A j \in DOMAIN u.byKey : j # k =>
          j \in DOMAIN t.byKey /\ u.byKey[j] = t.byKey[j] /\ u.byKey[j] # d

\* Add publishes a new record with the address, and the key if one was given.
LEMMA AddMakes ==
    ASSUME IInv, NEW k \in Keys \cup {NoKey}, NEW a \in Addrs, NEW d \in Ids,
           NEW named \in BOOLEAN, Add(k, a, d, named)
    PROVE  \E t \in Roomy : \E u : Makes(t, u, k, a, d)
<1>1. New(d)
  BY DEF Add
<1> DEFINE made(t) == Created(t, d, "identified")
           x == IF named THEN {Name} ELSE {}
           keys(t) == IF k = NoKey THEN made(t).byKey ELSE Set(made(t).byKey, k, d)
           keyed(t) == [made(t) EXCEPT !.devices[d].decided = x, !.byKey = keys(t)]
<1>2. PICK t \in Roomy : Publish(Attached(keyed(t), d, a))
  BY DEF Add
<1> DEFINE m == made(t)
           r == [decided |-> x, source |-> "identified", addrs |-> <<>>]
           devices == [m.devices EXCEPT ![d] = r]
           byKey == keys(t)
           u == [devices |-> devices, byAddr |-> m.byAddr, byKey |-> byKey]
<1>3. /\ Sound(m, joint') /\ d \in DOMAIN m.devices
      /\ m.devices[d] = [decided |-> {}, source |-> "identified", addrs |-> <<>>]
      /\ d \notin DOMAIN table.devices
      /\ \A j \in DOMAIN m.byKey : m.byKey[j] # d
  <2>1. /\ Sound(table, joint) /\ d \in Unused /\ "identified" \in Sources
        /\ joint' = joint \ {d} /\ m = Created(t, d, "identified")
    BY <1>1, InvParts DEF New, Sources
  <2> HIDE DEF m
  <2>2. Sound(m, joint \ {d}) /\ Fresh(m, d, "identified")
    BY <2>1, CreatedSound
  <2> QED
    BY <2>1, <2>2 DEF Fresh
<1>4. k # NoKey => k \in Keys
  OBVIOUS
<1>5. /\ DOMAIN byKey = DOMAIN m.byKey \cup (IF k = NoKey THEN {} ELSE {k})
      /\ \A j \in DOMAIN byKey : byKey[j] = IF j = k /\ k # NoKey THEN d ELSE m.byKey[j]
      /\ IsPartial(byKey, Keys, Ids)
  <2>1. IsPartial(m.byKey, Keys, Ids) /\ NoKey \notin DOMAIN m.byKey
    <3>1. IsPartial(m.byKey, Keys, Ids)
      BY <1>3 DEF Sound, Good, IsTable
    <3> QED
      BY <3>1, TableAssumption DEF IsPartial
  <2> HIDE DEF m
  <2>2. CASE k = NoKey
    <3>1. byKey = m.byKey
      BY <2>2 DEF m
    <3> HIDE DEF byKey
    <3> QED
      BY <2>1, <2>2, <3>1
  <2>3. CASE k # NoKey
    <3>1. byKey = Set(m.byKey, k, d)
      BY <2>3 DEF m
    <3> HIDE DEF byKey
    <3> QED
      BY <2>1, <2>3, <3>1, <1>4 DEF Set, IsPartial
  <2> QED
    BY <2>2, <2>3
<1> HIDE DEF byKey
<1>6. keyed(t) = u
  <2>1. m = [devices |-> m.devices, byAddr |-> m.byAddr, byKey |-> m.byKey]
    BY <1>3 DEF Sound, Good, IsTable
  <2>2. r = [m.devices[d] EXCEPT !.decided = x]
    <3> HIDE DEF m, x
    <3>1. m.devices[d] = [decided |-> {}, source |-> "identified", addrs |-> <<>>]
      BY <1>3
    <3> QED
      BY <3>1
  <2>3. keyed(t) = [m EXCEPT !.devices[d].decided = x, !.byKey = byKey]
    BY DEF byKey
  <2> HIDE DEF m, r, x, keyed
  <2> QED
    BY <2>1, <2>2, <2>3, Redecided
<1> HIDE DEF m, keyed
<1>7. r \in Device /\ r.addrs = m.devices[d].addrs /\ r.source = "identified"
  BY <1>3, TableAssumption DEF Device, Sources
<1> HIDE DEF r
<1>8. Good(m) /\ Owned(m, joint') /\ Keeps(table, m)
  BY <1>3 DEF Sound
<1>9. \A j \in DOMAIN m.byKey : m.byKey[j] \in DOMAIN m.devices
  BY <1>8 DEF Good, Mirrors
<1>10. /\ DOMAIN devices = DOMAIN m.devices
       /\ \A e \in DOMAIN devices : devices[e] = IF e = d THEN r ELSE m.devices[e]
       /\ IsPartial(devices, Ids, Device)
       /\ \A e \in DOMAIN m.devices : devices[e].addrs = m.devices[e].addrs
  BY <1>7, <1>8 DEF Good, IsTable, IsPartial
<1> HIDE DEF devices
<1>11. Good(u)
  BY <1>3, <1>5, <1>8, <1>9, <1>10, SameLists
<1>12. u.devices = devices /\ u.byKey = byKey
  OBVIOUS
<1> HIDE DEF u
<1>13. Owned(u, joint')
  <2>1. ASSUME NEW i \in DOMAIN byKey, NEW j \in DOMAIN byKey, i # j, byKey[i] = byKey[j]
        PROVE  byKey[j] \in joint'
    BY <2>1, <1>3, <1>5, <1>8 DEF Owned
  <2>2. ASSUME NEW j \in DOMAIN byKey, devices[byKey[j]].source = "observed"
        PROVE  byKey[j] \in joint'
    BY <2>2, <1>3, <1>5, <1>7, <1>8, <1>9, <1>10 DEF Owned
  <2> QED
    BY <2>1, <2>2, <1>12 DEF Owned
<1>14. Keeps(table, u)
  BY <1>3, <1>8, <1>10, <1>12 DEF Keeps
<1>15. Sound(u, joint') /\ d \in DOMAIN u.devices
  BY <1>3, <1>10, <1>11, <1>12, <1>13, <1>14 DEF Sound
<1>16. m.byAddr = t.byAddr /\ m.byKey = t.byKey
  <2>1. t = [devices |-> t.devices, byAddr |-> t.byAddr, byKey |-> t.byKey]
    BY <1>2, InvParts, RoomySound DEF Sound, Good, IsTable
  <2> QED
    BY <2>1 DEF m, Created
<1>17. u.byAddr = t.byAddr
  BY <1>16 DEF u
<1>18. \A j \in DOMAIN u.byKey : j # k =>
          j \in DOMAIN t.byKey /\ u.byKey[j] = t.byKey[j] /\ u.byKey[j] # d
  BY <1>3, <1>5, <1>12, <1>16
<1>19. Publish(Attached(u, d, a))
  BY <1>2, <1>6
<1>20. Makes(t, u, k, a, d)
  BY <1>15, <1>17, <1>18, <1>19 DEF Makes
<1> QED
  BY <1>2, <1>20

\* Add.
LEMMA AddPreserves ==
    ASSUME IInv, NEW k \in Keys \cup {NoKey}, NEW a \in Addrs, NEW d \in Ids,
           NEW named \in BOOLEAN, Add(k, a, d, named)
    PROVE  IInv' /\ Keeps(table, table')
<1>1. /\ New(d) /\ UNCHANGED <<queue, job, file>> /\ job = Free
      /\ holds' = Only(holds, {j \in DOMAIN holds : j # k /\ holds[j] # a})
  BY DEF Add
<1>2. PICK u : Sound(u, joint') /\ d \in DOMAIN u.devices /\ Publish(Attached(u, d, a))
  <2>1. \E t \in Roomy : \E u : Makes(t, u, k, a, d)
    BY AddMakes
  <2> QED
    BY <2>1 DEF Makes
<1>3. Sound(Attached(u, d, a), joint')
  BY <1>2, AttachedSound DEF Slots
<1>4. Rest'
  <2>1. IsPartial(holds', Keys, Addrs)
    BY <1>1 DEF IInv, TypeOK, Only, IsPartial
  <2> QED
    BY <1>1, <2>1, InvParts DEF Rest, New
<1> QED
  BY <1>1, <1>2, <1>3, <1>4, PublishPreserves

-----------------------------------------------------------------------------
\* The two loops.
MergeJob == [op : {"merge"}, into : Ids, from : Ids, i : Nat, n : Nat, had : SUBSET Slots]
RestoreJob == [op : {"restore"}, todo : SUBSET Ids, id : Ids \cup {NoId}, i : Nat]

\* What a loop keeps is known by its kind.
LEMMA JobShape ==
    ASSUME TypeOK
    PROVE  /\ job.op = "merge" => job \in MergeJob
           /\ job.op = "restore" => job \in RestoreJob
BY DEF TypeOK, Free, MergeJob, RestoreJob

\* A turn of a loop publishes nothing.
LEMMA JobInv ==
    ASSUME IInv, Good(table)', Owned(table, joint)', JobOK', Rest', UNCHANGED <<index, unsaved>>,
           job' \in MergeJob \cup RestoreJob
    PROVE  IInv'
<1>1. TypeOK'
  BY DEF IInv, TypeOK, Rest, Good, MergeJob, RestoreJob
<1> QED
  BY <1>1 DEF IInv, Good, Mirrored

\* Merge, up to its loop ...
LEMMA MergeBeginsPreserves ==
    ASSUME IInv, NEW into \in Ids, NEW from \in Ids, MergeBegins(into, from)
    PROVE  IInv' /\ Keeps(table, table')
<1> DEFINE s == table.devices[from]
           byKey == [k \in DOMAIN table.byKey |->
                        IF table.byKey[k] = from THEN into ELSE table.byKey[k]]
           u == [devices |-> table.devices, byAddr |-> table.byAddr, byKey |-> byKey]
<1>1. /\ Good(table) /\ Owned(table, joint) /\ Rest
      /\ into \in DOMAIN table.devices /\ from \in DOMAIN table.devices /\ into # from
      /\ joint' = joint \cup {into} /\ UNCHANGED <<index, queue, file, unsaved>>
  BY InvParts DEF MergeBegins, Sound
<1>2. table' = u
  <2>1. table = [devices |-> table.devices, byAddr |-> table.byAddr, byKey |-> table.byKey]
    BY <1>1 DEF Good, IsTable
  <2>2. table' = [table EXCEPT !.byKey = byKey]
    BY DEF MergeBegins
  <2> HIDE DEF byKey
  <2> QED
    BY <2>1, <2>2
<1>3. /\ DOMAIN byKey = DOMAIN table.byKey
      /\ \A k \in DOMAIN byKey :
            byKey[k] = IF table.byKey[k] = from THEN into ELSE table.byKey[k]
      /\ IsPartial(byKey, Keys, Ids)
      /\ \A k \in DOMAIN byKey : byKey[k] \in DOMAIN table.devices /\ byKey[k] # from
  BY <1>1 DEF Good, IsTable, IsPartial, Mirrors
<1> HIDE DEF byKey
<1>4. Good(u)
  BY <1>1, <1>3, SameLists DEF Good, IsTable
<1>5. u.devices = table.devices /\ u.byKey = byKey
  OBVIOUS
<1> HIDE DEF u
<1>6. Owned(u, joint')
  BY <1>1, <1>3, <1>5 DEF Owned
<1>7. job' = [op |-> "merge", into |-> into, from |-> from, i |-> 1, n |-> Len(s.addrs),
              had |-> {s.addrs[i] : i \in 1..Len(s.addrs)}]
  BY DEF MergeBegins
<1>8. job' \in MergeJob
  <2>1. s.addrs \in Seq(Slots)
    BY <1>1, GoodLists DEF Listing
  <2>2. Len(s.addrs) \in Nat /\ {s.addrs[i] : i \in 1..Len(s.addrs)} \in SUBSET Slots
    BY <2>1
  <2> QED
    BY <1>7, <2>2 DEF MergeJob
<1>9. JobOK'
  <2>1. job'.op = "merge" /\ job'.into = into /\ job'.from = from /\ job'.i = 1
    BY <1>7
  <2> QED
    BY <2>1, <1>1, <1>2, <1>3, <1>5 DEF JobOK
<1>10. Rest'
  <2>1. IsPartial(holds', Keys, Addrs)
    BY <1>1 DEF MergeBegins, Only, IsPartial, Rest
  <2> QED
    BY <1>1, <2>1 DEF Rest
<1>11. Keeps(table, table')
  BY <1>2, <1>5 DEF Keeps
<1> QED
  BY <1>1, <1>2, <1>4, <1>6, <1>8, <1>9, <1>10, <1>11, JobInv

\* ... each turn of the loop, whatever the shifted list yields ...
LEMMA MergeMovesPreserves ==
    ASSUME IInv, MergeMoves
    PROVE  IInv' /\ Keeps(table, table')
<1> DEFINE s == table.devices[job.from].addrs
           a == IF job.i <= Len(s) THEN s[job.i] ELSE NoAddr
           u == Attached(table, job.into, a)
<1>1. /\ Sound(table, joint) /\ Good(table) /\ Rest /\ JobOK
      /\ job.op = "merge" /\ table' = u /\ job' = [job EXCEPT !.i = @ + 1]
      /\ UNCHANGED <<index, queue, file, unsaved, holds, joint>>
  BY InvParts DEF MergeMoves, auxiliary, IInv
<1>2. /\ job \in MergeJob /\ job.into \in DOMAIN table.devices /\ job.from \in DOMAIN table.devices
      /\ job.into # job.from /\ \A k \in DOMAIN table.byKey : table.byKey[k] # job.from
  BY <1>1, JobShape DEF IInv, JobOK
<1>3. a \in Slots
  <2>1. s \in Seq(Slots)
    BY <1>1, <1>2, GoodLists DEF Listing
  <2>2. job.i <= Len(s) => job.i \in 1..Len(s) \/ job.i = 0
    BY <2>1, <1>2 DEF MergeJob
  <2>3. job.i # 0
    BY <1>1 DEF IInv, JobOK
  <2> QED
    BY <2>1, <2>2, <2>3 DEF Slots
<1>4. Sound(u, joint)
  BY <1>1, <1>2, <1>3, AttachedSound
<1>5. DOMAIN u.devices = DOMAIN table.devices /\ u.byKey = table.byKey
  BY <1>1, <1>2, <1>3, AttachedGood
<1> HIDE DEF u
<1>6. /\ job'.op = "merge" /\ job'.into = job.into /\ job'.from = job.from
      /\ job'.i = job.i + 1 /\ job' \in MergeJob
  BY <1>1, <1>2 DEF MergeJob
<1>7. JobOK'
  BY <1>1, <1>2, <1>5, <1>6 DEF JobOK, MergeJob
<1>8. Rest'
  BY <1>1 DEF Rest
<1> QED
  BY <1>1, <1>4, <1>6, <1>7, <1>8, JobInv DEF Sound

\* ... and the end: no key leads to the record that goes, the map may.
LEMMA MergeEndsPreserves ==
    ASSUME IInv, MergeEnds
    PROVE  IInv' /\ \A e \in DOMAIN table.devices : KeptOrDecided(e)
<1> DEFINE devices == Only(table.devices, Ids \ {job.from})
           u == [devices |-> devices, byAddr |-> table.byAddr, byKey |-> table.byKey]
<1>1. /\ Good(table) /\ Owned(table, joint) /\ Rest /\ JobOK
      /\ job.op = "merge" /\ job' = Free /\ UNCHANGED <<queue, file, holds, joint>>
  BY InvParts DEF MergeEnds, auxiliary, IInv
<1>2. /\ IsTable(table) /\ Mirrors(table)
      /\ \A k \in DOMAIN table.byKey : table.byKey[k] # job.from
  BY <1>1 DEF Good, JobOK
<1>3. Publish(u) /\ table' = u
  <2>1. table = [devices |-> table.devices, byAddr |-> table.byAddr, byKey |-> table.byKey]
    BY <1>2 DEF IsTable
  <2>2. Publish([table EXCEPT !.devices = devices])
    BY DEF MergeEnds
  <2> HIDE DEF devices
  <2>3. [table EXCEPT !.devices = devices] = u
    BY <2>1
  <2> HIDE DEF u
  <2> QED
    BY <2>2, <2>3 DEF Publish
<1>4. /\ DOMAIN devices = DOMAIN table.devices \ {job.from}
      /\ \A e \in DOMAIN devices : devices[e] = table.devices[e]
      /\ IsPartial(devices, Ids, Device)
  BY <1>2 DEF Only, IsTable, IsPartial
<1>5. IsTable(u)
  <2> HIDE DEF devices
  <2> QED
    BY <1>2, <1>4 DEF IsTable
<1>6. u.devices = devices /\ u.byAddr = table.byAddr /\ u.byKey = table.byKey
  OBVIOUS
<1> HIDE DEF devices, u
<1>7. Mirrors(u)
  BY <1>2, <1>4, <1>6 DEF Mirrors
<1>8. Owned(u, joint')
  <2>1. \A k \in DOMAIN u.byKey : u.byKey[k] \in DOMAIN devices
    BY <1>2, <1>4, <1>6 DEF Mirrors
  <2> QED
    BY <1>1, <1>4, <1>6, <2>1 DEF Owned
<1>9. Rest'
  BY <1>1 DEF Rest
<1>10. IInv'
  BY <1>1, <1>3, <1>5, <1>7, <1>8, <1>9, PublishedInv DEF Good
<1>11. ASSUME NEW e \in DOMAIN table.devices PROVE KeptOrDecided(e)
  BY <1>3, <1>4, <1>6 DEF KeptOrDecided
<1> QED
  BY <1>10, <1>11

\* saveDevices.
LEMMA SavePreserves ==
    ASSUME IInv, Save
    PROVE  IInv' /\ Keeps(table, table')
<1>1. /\ IsTable(table) /\ Rest /\ UNCHANGED <<table, index, queue, job, holds, joint>>
      /\ job = Free /\ unsaved' = 0
  BY InvParts DEF Save, auxiliary, Good
<1> DEFINE devices == [d \in DOMAIN table.devices |-> [table.devices[d] EXCEPT !.source = "observed"]]
           byKey == Only(table.byKey, TextKeys)
<1>2. IsPartial(devices, Ids, Device)
  <2>1. \A d \in DOMAIN table.devices : [table.devices[d] EXCEPT !.source = "observed"] \in Device
    <3> SUFFICES ASSUME NEW d \in DOMAIN table.devices
                 PROVE  [table.devices[d] EXCEPT !.source = "observed"] \in Device
      OBVIOUS
    <3>1. table.devices[d] \in Device
      BY <1>1 DEF IsTable, IsPartial
    <3> QED
      BY <3>1 DEF Device, Sources
  <2> QED
    BY <1>1, <2>1 DEF IsTable, IsPartial
<1>3. IsPartial(byKey, Keys, Ids)
  BY <1>1 DEF IsTable, IsPartial, Only
<1>4. file' = [devices |-> devices, byKey |-> byKey, holds |-> holds]
  BY DEF Save
<1> HIDE DEF devices, byKey
<1>5. IsFile(file')
  BY <1>1, <1>2, <1>3, <1>4 DEF IsFile, Rest
<1>6. Rest'
  BY <1>1, <1>5 DEF Rest
<1>7. unsaved' \in 0..MaxUnsaved
  BY <1>1, TableAssumption
<1>8. TypeOK'
  BY <1>1, <1>6, <1>7 DEF IInv, TypeOK, Rest
<1>9. JobOK'
  BY <1>1 DEF JobOK, Free
<1> QED
  BY <1>1, <1>8, <1>9 DEF IInv, Mirrored, Keeps

\* The empty table is good.
LEMMA NothingYet ==
    Good(NoTable) /\ \A S, T : IsPartial(Empty, S, T)
<1>1. DOMAIN Empty = {}
  BY DEF Empty
<1>2. ASSUME NEW S, NEW T PROVE IsPartial(Empty, S, T)
  BY DEF Empty, IsPartial
<1> HIDE DEF Empty
<1>3. NoTable.devices = Empty /\ NoTable.byAddr = Empty /\ NoTable.byKey = Empty
      /\ NoTable = [devices |-> NoTable.devices, byAddr |-> NoTable.byAddr, byKey |-> NoTable.byKey]
  BY DEF NoTable
<1>4. IsTable(NoTable)
  BY <1>2, <1>3 DEF IsTable
<1>5. Mirrors(NoTable)
  BY <1>1, <1>3 DEF Mirrors
<1> QED
  BY <1>2, <1>4, <1>5 DEF Good

\* Nobody has a record in it.
LEMMA NothingOwned == \A shared : Owned(NoTable, shared)
<1>1. DOMAIN NoTable.byKey = {}
  BY DEF NoTable, Empty
<1> QED
  BY <1>1 DEF Owned

\* The next process begins with the file and nothing else.
LEMMA RestartPreserves ==
    ASSUME IInv, Restart
    PROVE  IInv' /\ \A e \in DOMAIN table.devices : KeptOrDecided(e)
<1>1. /\ table' = NoTable /\ index' = Empty /\ queue' = <<>> /\ unsaved' = 0
      /\ holds' = Empty /\ file' = file /\ joint' = joint /\ Rest
      /\ job' = [op |-> "restore", todo |-> DOMAIN file.devices, id |-> NoId, i |-> 1]
  BY InvParts DEF Restart
<1>2. DOMAIN file.devices \subseteq Ids
  BY <1>1 DEF Rest, IsFile, IsPartial
<1>3. /\ job' \in RestoreJob /\ job'.op = "restore" /\ job'.todo = DOMAIN file.devices
      /\ job'.id = NoId /\ job'.i = 1
  BY <1>1, <1>2 DEF RestoreJob
<1>4. Rest'
  BY <1>1, NothingYet, TableAssumption DEF Rest
<1>5. TypeOK'
  <2>1. 0 \in 0..MaxUnsaved
    BY TableAssumption
  <2> QED
    BY <1>1, <1>3, <1>4, <2>1, NothingYet DEF TypeOK, Rest, RestoreJob, Good
<1>6. JobOK'
  <2>1. DOMAIN NoTable.byKey = {} /\ DOMAIN NoTable.devices = {} /\ DOMAIN NoTable.byAddr = {}
    BY DEF NoTable, Empty
  <2> QED
    BY <1>1, <1>3, <2>1 DEF JobOK
<1>7. IInv'
  BY <1>1, <1>5, <1>6, NothingYet, NothingOwned DEF IInv, Mirrored, Good
<1> QED
  BY <1>7 DEF KeptOrDecided

\* Restore: a record, without its addresses ...
LEMMA RestoreDevicePreserves ==
    ASSUME IInv, NEW d \in Ids, RestoreDevice(d)
    PROVE  IInv' /\ Keeps(table, table')
<1>1. /\ Good(table) /\ Owned(table, joint) /\ Rest /\ JobOK /\ job.op = "restore"
      /\ d \in job.todo /\ job' = [job EXCEPT !.todo = @ \ {d}, !.id = d, !.i = 1]
      /\ UNCHANGED <<index, queue, file, unsaved, holds, joint>>
  BY InvParts DEF RestoreDevice, auxiliary, IInv
<1>2. /\ job \in RestoreJob /\ DOMAIN table.byKey = {}
      /\ job.todo \subseteq DOMAIN file.devices \ DOMAIN table.devices
      /\ \A b \in DOMAIN table.byAddr : table.byAddr[b] \in DOMAIN table.devices
  BY <1>1, JobShape DEF IInv, JobOK
<1>3. file.devices[d] \in Device /\ <<>> \in Seq(Slots)
  BY <1>1, <1>2 DEF Rest, IsFile, IsPartial
<1> SUFFICES ASSUME NEW r, r = [file.devices[d] EXCEPT !.addrs = <<>>]
             PROVE  IInv' /\ Keeps(table, table')
  OBVIOUS
<1>4. r \in Device /\ r.addrs = <<>>
  BY <1>3, DeviceParts
<1>5. /\ table' = [devices |-> table'.devices, byAddr |-> table.byAddr, byKey |-> table.byKey]
      /\ table'.devices = Set(table.devices, d, r)
  <2>1. table = [devices |-> table.devices, byAddr |-> table.byAddr, byKey |-> table.byKey]
    BY <1>1 DEF Good, IsTable
  <2>2. table' = [table EXCEPT !.devices = Set(table.devices, d, r)]
    BY DEF RestoreDevice
  <2> QED
    BY <2>1, <2>2
<1>6. Good(table')
  <2>1. \A b \in DOMAIN table.byAddr : table.byAddr[b] # d
    BY <1>1, <1>2
  <2>2. d \in Ids \ DOMAIN table.devices
    BY <1>1, <1>2
  <2> QED
    BY <1>1, <1>4, <1>5, <2>1, <2>2, CreatedGood
<1>7. /\ DOMAIN table'.devices = DOMAIN table.devices \cup {d}
      /\ \A e \in DOMAIN table'.devices : table'.devices[e] = IF e = d THEN r ELSE table.devices[e]
      /\ table'.byKey = table.byKey /\ table'.byAddr = table.byAddr
  <2>1. table'.byKey = table.byKey /\ table'.byAddr = table.byAddr
    BY <1>5
  <2> QED
    BY <1>5, <2>1 DEF Set
<1>8. Owned(table', joint')
  BY <1>2, <1>7 DEF Owned
<1>9. Keeps(table, table')
  BY <1>1, <1>2, <1>7 DEF Keeps
<1>10. /\ job'.op = "restore" /\ job'.todo = job.todo \ {d} /\ job'.id = d /\ job'.i = 1
       /\ job' \in RestoreJob
  BY <1>1, <1>2 DEF RestoreJob
<1>11. JobOK'
  BY <1>1, <1>2, <1>7, <1>10 DEF JobOK
<1>12. Rest'
  BY <1>1 DEF Rest
<1> QED
  BY <1>1, <1>6, <1>8, <1>9, <1>10, <1>11, <1>12, JobInv

\* ... each of its addresses ...
LEMMA RestoreAddrPreserves ==
    ASSUME IInv, RestoreAddr
    PROVE  IInv' /\ Keeps(table, table')
<1> DEFINE a == file.devices[job.id].addrs[job.i]
           u == Attached(table, job.id, a)
<1>1. /\ Sound(table, joint) /\ Good(table) /\ Rest /\ JobOK /\ job.op = "restore"
      /\ job.id # NoId /\ ~(job.i > Len(file.devices[job.id].addrs))
      /\ table' = IF a = NoAddr THEN table ELSE u
      /\ job' = [job EXCEPT !.i = @ + 1]
      /\ UNCHANGED <<index, queue, file, unsaved, holds, joint>>
  BY InvParts DEF RestoreAddr, Loaded, auxiliary, IInv
<1>2. /\ job \in RestoreJob /\ DOMAIN table.byKey = {}
      /\ job.todo \subseteq DOMAIN file.devices \ DOMAIN table.devices
      /\ job.id \in DOMAIN file.devices /\ job.id \in DOMAIN table.devices /\ job.i >= 1
      /\ \A b \in DOMAIN table.byAddr : table.byAddr[b] \in DOMAIN table.devices
  BY <1>1, JobShape DEF IInv, JobOK
<1>3. a \in Slots
  <2>1. file.devices[job.id].addrs \in Seq(Slots)
    BY <1>1, <1>2 DEF Rest, IsFile, IsPartial, Device
  <2>2. job.i \in 1..Len(file.devices[job.id].addrs)
    BY <2>1, <1>1, <1>2 DEF RestoreJob
  <2> QED
    BY <2>1, <2>2
<1>4. Sound(u, joint)
  BY <1>1, <1>2, <1>3, AttachedSound
<1>5. /\ DOMAIN u.devices = DOMAIN table.devices /\ u.byKey = table.byKey
      /\ \A b \in DOMAIN u.byAddr :
            u.byAddr[b] = job.id \/ (b \in DOMAIN table.byAddr /\ u.byAddr[b] = table.byAddr[b])
  <2>1. Good(table) /\ job.id \in DOMAIN table.devices
    BY <1>1, <1>2
  <2> HIDE DEF a
  <2> QED
    BY <2>1, <1>3, AttachedGood
<1> HIDE DEF u, a
<1>6. Sound(table', joint') /\ DOMAIN table'.devices = DOMAIN table.devices
      /\ table'.byKey = table.byKey
      /\ \A b \in DOMAIN table'.byAddr : table'.byAddr[b] \in DOMAIN table.devices
  BY <1>1, <1>2, <1>4, <1>5
<1>7. /\ job'.op = "restore" /\ job'.todo = job.todo /\ job'.id = job.id
      /\ job'.i = job.i + 1 /\ job' \in RestoreJob
  BY <1>1, <1>2 DEF RestoreJob
<1>8. JobOK'
  BY <1>1, <1>2, <1>6, <1>7 DEF JobOK, RestoreJob
<1>9. Rest'
  BY <1>1 DEF Rest
<1> QED
  BY <1>1, <1>6, <1>7, <1>8, <1>9, JobInv DEF Sound

\* ... and the keys, all of them of records that were loaded.
LEMMA RestoreEndsPreserves ==
    ASSUME IInv, RestoreEnds
    PROVE  IInv' /\ Keeps(table, table')
<1> DEFINE byKey == Only(file.byKey, {k \in DOMAIN file.byKey :
                                         file.byKey[k] \in DOMAIN table.devices})
           u == [devices |-> table.devices, byAddr |-> table.byAddr, byKey |-> byKey]
<1>1. /\ Good(table) /\ IsTable(table) /\ Rest /\ job' = Free
      /\ holds' = file.holds /\ joint' = joint \cup DOMAIN table.devices
      /\ UNCHANGED <<queue, file>>
  BY InvParts DEF RestoreEnds, Good
<1>2. Publish(u) /\ table' = u
  <2>1. table = [devices |-> table.devices, byAddr |-> table.byAddr, byKey |-> table.byKey]
    BY <1>1 DEF IsTable
  <2>2. Publish([table EXCEPT !.byKey = byKey])
    BY DEF RestoreEnds
  <2> HIDE DEF byKey
  <2>3. [table EXCEPT !.byKey = byKey] = u
    BY <2>1
  <2> HIDE DEF u
  <2> QED
    BY <2>2, <2>3 DEF Publish
<1>3. IsPartial(byKey, Keys, Ids) /\ \A k \in DOMAIN byKey : byKey[k] \in DOMAIN table.devices
  BY <1>1 DEF Only, IsPartial, Rest, IsFile
<1> HIDE DEF byKey
<1>4. Good(u)
  BY <1>1, <1>3, SameLists DEF IsTable
<1>5. u.byKey = byKey /\ u.devices = table.devices
  OBVIOUS
<1> HIDE DEF u
<1>6. Owned(u, joint')
  BY <1>1, <1>3, <1>5 DEF Owned
<1>7. Rest'
  <2>1. DOMAIN table.devices \subseteq Ids
    BY <1>1 DEF IsTable, IsPartial
  <2> QED
    BY <1>1, <2>1 DEF Rest, IsFile
<1>8. Keeps(table, u)
  BY <1>5 DEF Keeps
<1> QED
  BY <1>1, <1>2, <1>4, <1>6, <1>7, <1>8, PublishPreserves DEF Sound

-----------------------------------------------------------------------------
\* The first state is good.
LEMMA InitInv == Init => IInv
<1> SUFFICES ASSUME Init PROVE IInv
  OBVIOUS
<1>1. /\ table = NoTable /\ index = Empty /\ queue = <<>> /\ job = Free /\ unsaved = 0
      /\ file = [devices |-> Empty, byKey |-> Empty, holds |-> Empty]
      /\ holds = Empty /\ joint = {}
  BY DEF Init
<1>2. IsFile(file)
  <2> HIDE DEF Empty
  <2> QED
    BY <1>1, NothingYet DEF IsFile
<1>3. Good(table) /\ Owned(table, joint)
  BY <1>1, NothingYet, NothingOwned
<1>4. TypeOK
  BY <1>1, <1>2, <1>3, NothingYet, TableAssumption DEF TypeOK, Good
<1>5. JobOK
  BY <1>1 DEF JobOK, Free
<1> QED
  BY <1>3, <1>4, <1>5 DEF IInv, Good, Mirrored

\* Every step keeps the invariant and the decisions.
LEMMA StepInv ==
    ASSUME IInv, [Next]_vars
    PROVE  IInv' /\ (Next => \A e \in DOMAIN table.devices : KeptOrDecided(e))
<1> DEFINE Result == IInv' /\ (Next => \A e \in DOMAIN table.devices : KeptOrDecided(e))
<1>1. Keeps(table, table') => \A e \in DOMAIN table.devices : KeptOrDecided(e)
  BY DEF Keeps, KeptOrDecided
<1>2. ASSUME UNCHANGED vars PROVE Result
  <2>1. IInv'
    BY <1>2 DEF vars, auxiliary, IInv, TypeOK, IsTable, IsFile, Mirrored, Owned, JobOK
  <2>2. Keeps(table, table')
    BY <1>2 DEF vars, Keeps
  <2> QED
    BY <2>1, <2>2, <1>1
<1>3. ASSUME NEW a \in Addrs, Identify(a) PROVE Result
  BY <1>1, <1>3, IdentifyPreserves
<1>4. ASSUME LearnSeen \/ LearnRefused \/ \E d \in Ids : LearnStranger(d) PROVE Result
  BY <1>1, <1>4, LearnPreserves
<1>5. ASSUME NEW k \in Keys, NEW a \in Addrs, ObserveLease(k, a) PROVE Result
  BY <1>1, <1>5, ObserveLeasePreserves
<1>6. ASSUME NEW d \in Ids, NEW what \in Decisions, NEW yes \in BOOLEAN, Decide(d, what, yes)
      PROVE  Result
  BY <1>6, DecidePreserves
<1>7. ASSUME NEW d \in Ids, Forget(d) PROVE Result
  BY <1>7, ForgetPreserves
<1>8. ASSUME NEW d \in Ids, NEW k \in Keys \cup {NoKey}, NEW a \in Addrs, NEW named \in BOOLEAN,
             Add(k, a, d, named)
      PROVE  Result
  BY <1>1, <1>8, AddPreserves
<1>9. ASSUME NEW d \in Ids, NEW e \in Ids, MergeBegins(d, e) PROVE Result
  BY <1>1, <1>9, MergeBeginsPreserves
<1>10. ASSUME NEW d \in Ids, RestoreDevice(d) PROVE Result
  BY <1>1, <1>10, RestoreDevicePreserves
<1>11. ASSUME MergeMoves PROVE Result
  BY <1>1, <1>11, MergeMovesPreserves
<1>12. ASSUME MergeEnds PROVE Result
  BY <1>12, MergeEndsPreserves
<1>13. ASSUME Save PROVE Result
  BY <1>1, <1>13, SavePreserves
<1>14. ASSUME Restart PROVE Result
  BY <1>14, RestartPreserves
<1>15. ASSUME RestoreAddr PROVE Result
  BY <1>1, <1>15, RestoreAddrPreserves
<1>16. ASSUME RestoreEnds PROVE Result
  BY <1>1, <1>16, RestoreEndsPreserves
<1> HIDE DEF Result
<1>17. Result
  BY <1>2, <1>3, <1>4, <1>5, <1>6, <1>7, <1>8, <1>9, <1>10, <1>11, <1>12, <1>13, <1>14, <1>15, <1>16
     DEF Next
<1> QED
  BY <1>17 DEF Result

\* The invariant holds throughout.
LEMMA Invariance == Spec => []IInv
<1>1. Init => IInv
  BY InitInv
<1>2. IInv /\ [Next]_vars => IInv'
  BY StepInv
<1> QED
  BY <1>1, <1>2, PTL DEF Spec

\* The values of the variables are what their declarations say.
THEOREM TypeCorrect == Spec => []TypeOK
<1>1. IInv => TypeOK
  BY DEF IInv
<1> QED
  BY <1>1, Invariance, PTL

\* The lists in the records and the map from addresses mirror each other, after every step of
\* every method, and no key leads to a record that is gone.
THEOREM MirroredAlways == Spec => []Mirrored
<1>1. IInv => Mirrored
  BY DEF IInv
<1> QED
  BY <1>1, Invariance, PTL

\* Two clients have one record only where a person merged or the record came from the file.
THEOREM OwnRecordAlways == Spec => []OwnRecord
<1>1. IInv => OwnRecord
  BY DEF IInv, Owned, OwnRecord
<1> QED
  BY <1>1, Invariance, PTL

\* What a person decided about a device stays until a person takes it back, forgets or merges
\* the device, or the process ends.
THEOREM DecisionsKeptAlways == Spec => DecisionsKept
<1>1. ASSUME IInv, [Next]_vars
      PROVE  [\A d \in DOMAIN table.devices :
                 table.devices[d].decided # {} =>
                     \/ /\ d \in DOMAIN table'.devices
                        /\ table'.devices[d].decided = table.devices[d].decided
                     \/ Forget(d) \/ (MergeEnds /\ job.from = d) \/ Restart
                     \/ \E what \in Decisions, yes \in BOOLEAN : Decide(d, what, yes)]_vars
  BY <1>1, StepInv DEF KeptOrDecided
<1> QED
  BY <1>1, Invariance, PTL DEF Spec, DecisionsKept

-----------------------------------------------------------------------------
(* The rules of a client's record apply to the address the client has a lease  *)
(* on (RulesReachTheHolder).  That has to survive a restart, so the invariant  *)
(* follows the addresses into the file and out of it again: FileOK says that   *)
(* the file still has them, Loading how far Restore has come.                  *)

\* The map has, for the address each client of h has, the client's record.
Reach(t, h) ==
    \A k \in DOMAIN h \cap DOMAIN t.byKey :
        h[k] \in DOMAIN t.byAddr /\ t.byAddr[h[k]] = t.byKey[k]

FileOK ==
    /\ \A d \in DOMAIN file.devices :
          Listing(file.devices[d].addrs) /\ Len(file.devices[d].addrs) <= MaxAddrs
    /\ \A d, e \in DOMAIN file.devices, a \in Slots :
          Listed(file.devices[d].addrs, a) /\ Listed(file.devices[e].addrs, a) => d = e
    /\ \A k \in DOMAIN file.holds \cap DOMAIN file.byKey :
          /\ file.byKey[k] \in DOMAIN file.devices
          /\ Listed(file.devices[file.byKey[k]].addrs, file.holds[k])

\* The map has record d for address b.
At(t, b, d) == b \in DOMAIN t.byAddr /\ t.byAddr[b] = d

\* The records before the one being restored have all their addresses, that
\* one those before the current.
Loading ==
    /\ DOMAIN table.devices \subseteq DOMAIN file.devices
    /\ \A e \in DOMAIN table.devices \ {job.id}, b \in Addrs :
          Listed(file.devices[e].addrs, b) => At(table, b, e)
    /\ job.id # NoId =>
          /\ Len(table.devices[job.id].addrs) < job.i
          /\ \A n \in 1..Len(file.devices[job.id].addrs) :
                n < job.i /\ file.devices[job.id].addrs[n] # NoAddr
                   => At(table, file.devices[job.id].addrs[n], job.id)

\* The inductive invariant, given that of DeviceTableProofs.
ReachInv ==
    /\ job = Free => index = Published(table) /\ Reach(table, holds)
    /\ job.op = "merge" =>
          /\ Reach(table, holds)
          /\ \A k \in DOMAIN holds \cap DOMAIN table.byKey : table.byKey[k] # job.into
    /\ job.op = "restore" => Loading
    /\ FileOK

-----------------------------------------------------------------------------
\* What attaching an address to a record does to the map.
LEMMA AttachedMap ==
    ASSUME NEW t, Good(t), NEW d \in DOMAIN t.devices, NEW a \in Slots
    PROVE  LET u == Attached(t, d, a)
           IN  /\ a \in DOMAIN u.byAddr /\ u.byAddr[a] = d
               /\ \A b \in DOMAIN t.byAddr :
                     b # a /\ (t.byAddr[b] # d \/ Len(t.devices[d].addrs) < MaxAddrs) =>
                        b \in DOMAIN u.byAddr /\ u.byAddr[b] = t.byAddr[b]
               /\ Len(u.devices[d].addrs) <= Len(t.devices[d].addrs) + 1
<1> DEFINE u == Attached(t, d, a)
           s == t.devices[d].addrs
<1>1. /\ DOMAIN u.byAddr = {b \in DOMAIN t.byAddr \cup {a} :
            ~(b \in Gone(s, a) /\ (b = a \/ t.byAddr[b] = d))}
      /\ \A b \in DOMAIN u.byAddr : u.byAddr[b] = IF b = a THEN d ELSE t.byAddr[b]
      /\ u.devices[d].addrs = First(Front(s, a), MaxAddrs)
  BY AttachedParts
<1>2. /\ a \notin Gone(s, a) /\ (Len(s) < MaxAddrs => Gone(s, a) = {})
      /\ Len(First(Front(s, a), MaxAddrs)) <= Len(s) + 1
  BY GoodLists, Kept
<1> HIDE DEF u
<1> QED
  BY <1>1, <1>2 DEF u

\* An address can go to the record of the client that has it, as long as the
\* other clients of h have other addresses and other records.
LEMMA AttachedReach ==
    ASSUME NEW t, Good(t), NEW d \in DOMAIN t.devices, NEW a \in Slots, NEW h,
           \A k \in DOMAIN h \cap DOMAIN t.byKey :
              \/ h[k] = a /\ t.byKey[k] = d
              \/ /\ h[k] # a /\ t.byKey[k] # d
                 /\ h[k] \in DOMAIN t.byAddr /\ t.byAddr[h[k]] = t.byKey[k]
    PROVE  Reach(Attached(t, d, a), h)
<1> DEFINE u == Attached(t, d, a)
<1>1. /\ a \in DOMAIN u.byAddr /\ u.byAddr[a] = d
      /\ \A b \in DOMAIN t.byAddr : b # a /\ t.byAddr[b] # d =>
            b \in DOMAIN u.byAddr /\ u.byAddr[b] = t.byAddr[b]
  BY AttachedMap
<1>2. u.byKey = t.byKey
  BY AttachedGood
<1> HIDE DEF u
<1>3. Reach(u, h)
  BY <1>1, <1>2 DEF Reach
<1> QED
  BY <1>3 DEF u

\* ObserveLease takes no address from a client that keeps its own.
LEMMA BoundReach ==
    ASSUME NEW t, NEW shared, Sound(t, shared), NEW d \in DOMAIN t.devices,
           NEW k \in Keys, NEW a \in Slots,
           \A j \in DOMAIN t.byKey : j # k /\ t.byKey[j] = d => d \in shared,
           NEW h, k \in DOMAIN h => h[k] = a,
           \A j \in DOMAIN h \cap DOMAIN t.byKey : j # k =>
              /\ h[j] # a /\ t.byKey[j] # d
              /\ h[j] \in DOMAIN t.byAddr /\ t.byAddr[h[j]] = t.byKey[j]
    PROVE  Reach(Bound(t, k, d, a), h)
<1> DEFINE v == Identified(t, k, d)
<1>1. /\ Sound(v, shared) /\ DOMAIN v.devices = DOMAIN t.devices
      /\ v.byAddr = t.byAddr /\ v.byKey = Set(t.byKey, k, d)
  BY IdentifiedSound
<1>2. Bound(t, k, d, a) = Attached(v, d, a)
  BY DEF Bound, Identified
<1> HIDE DEF v
<1>3. /\ DOMAIN v.byKey = DOMAIN t.byKey \cup {k}
      /\ \A j \in DOMAIN v.byKey : v.byKey[j] = IF j = k THEN d ELSE t.byKey[j]
  BY <1>1 DEF Set
<1>4. \A j \in DOMAIN h \cap DOMAIN v.byKey :
         \/ h[j] = a /\ v.byKey[j] = d
         \/ /\ h[j] # a /\ v.byKey[j] # d
            /\ h[j] \in DOMAIN v.byAddr /\ v.byAddr[h[j]] = v.byKey[j]
  BY <1>1, <1>3
<1>5. Good(v) /\ d \in DOMAIN v.devices
  BY <1>1 DEF Sound
<1> QED
  BY <1>2, <1>4, <1>5, AttachedReach

\* Eviction takes nothing from the records that stay.
LEMMA RoomyMap ==
    ASSUME IInv, NEW t \in Roomy
    PROVE  \A k \in DOMAIN t.byKey :
              /\ k \in DOMAIN table.byKey /\ t.byKey[k] = table.byKey[k]
              /\ \A b \in DOMAIN table.byAddr : table.byAddr[b] = t.byKey[k] =>
                    b \in DOMAIN t.byAddr /\ t.byAddr[b] = t.byKey[k]
<1>1. CASE t = table
  BY <1>1
<1>2. CASE \E d \in Victims : t = Removed(table, d)
  BY <1>2 DEF Removed, Only
<1> QED
  BY <1>1, <1>2 DEF Roomy

\* The map and the keys of a table with a new record are those of the table.
LEMMA CreatedMap ==
    ASSUME IInv, NEW t \in Roomy, NEW d, NEW src
    PROVE  Created(t, d, src).byAddr = t.byAddr /\ Created(t, d, src).byKey = t.byKey
<1>1. t = [devices |-> t.devices, byAddr |-> t.byAddr, byKey |-> t.byKey]
  BY InvParts, RoomySound DEF Sound, Good, IsTable
<1> QED
  BY <1>1 DEF Created

\* Publish puts the map into the index.
LEMMA PublishReach ==
    ASSUME ReachInv, NEW t, Publish(t), Reach(t, holds'), job' = Free, file' = file
    PROVE  ReachInv'
BY DEF ReachInv, Publish, Free, FileOK

\* Steps that leave all of it alone.
LEMMA RestReach ==
    ASSUME ReachInv, UNCHANGED <<table, index, job, file, holds>>
    PROVE  ReachInv'
BY DEF ReachInv, Reach, FileOK, Loading, At

\* The learner gives records only to addresses that have none.
LEMMA LearnReach ==
    ASSUME IInv, ReachInv, LearnSeen \/ LearnRefused \/ \E d \in Ids : LearnStranger(d)
    PROVE  ReachInv'
<1>1. job = Free /\ UNCHANGED <<job, file, holds>> /\ queue # <<>> /\ Reach(table, holds)
  BY DEF LearnSeen, LearnRefused, LearnStranger, auxiliary, ReachInv
<1>2. CASE UNCHANGED <<table, index>>
  BY <1>1, <1>2, RestReach
<1>3. CASE Publish(table)
  BY <1>1, <1>3, PublishReach
<1>4. CASE \E d \in Ids : LearnStranger(d)
  <2>1. PICK d \in Ids : LearnStranger(d)
    BY <1>4
  <2>2. PICK t \in Roomy : Publish(Attached(Created(t, d, "observed"), d, Head(queue)))
    BY <2>1 DEF LearnStranger
  <2> DEFINE u == Created(t, d, "observed")
             a == Head(queue)
  <2>3. Sound(u, joint') /\ Fresh(u, d, "observed")
    BY <2>1, InvParts, CreatedSound DEF LearnStranger, New, Sources
  <2>4. a \in Slots /\ a \notin DOMAIN table.byAddr
    BY <1>1, <2>1, QueueTail DEF Slots, LearnStranger, Known
  <2>5. u.byAddr = t.byAddr /\ u.byKey = t.byKey
    BY CreatedMap
  <2> HIDE DEF u, a
  <2>6. \A k \in DOMAIN holds \cap DOMAIN u.byKey :
           /\ holds[k] # a /\ u.byKey[k] # d
           /\ holds[k] \in DOMAIN u.byAddr /\ u.byAddr[holds[k]] = u.byKey[k]
    BY <1>1, <2>3, <2>4, <2>5, RoomyMap DEF Reach, Fresh
  <2>7. Reach(Attached(u, d, a), holds)
    BY <2>3, <2>4, <2>6, AttachedReach DEF Sound, Fresh
  <2> QED
    BY <1>1, <2>2, <2>7, PublishReach DEF u, a
<1> QED
  BY <1>2, <1>3, <1>4 DEF LearnSeen, LearnRefused

\* ObserveLease.
LEMMA ObserveLeaseReach ==
    ASSUME IInv, ReachInv, NEW k \in Keys, NEW a \in Addrs, ObserveLease(k, a)
    PROVE  ReachInv'
<1>1. job = Free /\ UNCHANGED <<job, file>> /\ Reach(table, holds) /\ a \in Slots
  BY DEF ObserveLease, ReachInv, Slots
<1> DEFINE d == RecordFor(k, a)
<1>2. ASSUME NEW e
      PROVE  /\ k \in DOMAIN Holding(k, e, a) /\ Holding(k, e, a)[k] = a
             /\ \A j \in DOMAIN Holding(k, e, a) : j # k =>
                   /\ j \in DOMAIN holds /\ Holding(k, e, a)[j] = holds[j]
                   /\ holds[j] # a /\ ~Has(j, e)
  BY DEF Holding, Set, Only
<1>3. CASE d # NoId /\ Publish(Bound(table, k, d, a)) /\ holds' = Holding(k, d, a)
  <2>1. d \in DOMAIN table.devices
    BY <1>3 DEF RecordFor, HasRecord, Adoptable
  <2>2. ASSUME NEW j \in DOMAIN table.byKey, j # k, table.byKey[j] = d
        PROVE  d \in joint
    <3>1. Owned(table, joint)
      BY DEF IInv
    <3>2. CASE HasRecord(k)
      BY <2>2, <3>1, <3>2 DEF RecordFor, HasRecord, Owned
    <3>3. CASE ~HasRecord(k)
      <4>1. table.devices[d].source = "observed"
        BY <1>3, <3>3 DEF RecordFor, Adoptable
      <4> QED
        BY <2>2, <3>1, <4>1 DEF Owned
    <3> QED
      BY <3>2, <3>3
  <2> HIDE DEF d
  <2>3. \A j \in DOMAIN holds' \cap DOMAIN table.byKey : j # k =>
           /\ holds'[j] # a /\ table.byKey[j] # d
           /\ holds'[j] \in DOMAIN table.byAddr /\ table.byAddr[holds'[j]] = table.byKey[j]
    BY <1>1, <1>2, <1>3 DEF Has, Reach
  <2>4. Reach(Bound(table, k, d, a), holds')
    <3>1. k \in DOMAIN holds' => holds'[k] = a
      BY <1>2, <1>3
    <3> QED
      BY <1>1, <2>1, <2>2, <2>3, <3>1, InvParts, BoundReach
  <2> QED
    BY <1>1, <1>3, <2>4, PublishReach
<1>4. CASE \E new \in Ids, t \in Roomy :
              /\ New(new) /\ Publish(Bound(Created(t, new, "identified"), k, new, a))
              /\ holds' = Holding(k, new, a)
  <2>1. PICK new \in Ids, t \in Roomy :
              /\ New(new) /\ Publish(Bound(Created(t, new, "identified"), k, new, a))
              /\ holds' = Holding(k, new, a)
    BY <1>4
  <2> DEFINE u == Created(t, new, "identified")
  <2>2. Sound(u, joint') /\ Fresh(u, new, "identified")
    BY <2>1, InvParts, CreatedSound DEF New, Sources
  <2>3. u.byAddr = t.byAddr /\ u.byKey = t.byKey
    BY CreatedMap
  <2> HIDE DEF u
  <2>4. \A j \in DOMAIN holds' \cap DOMAIN u.byKey : j # k =>
           /\ holds'[j] # a /\ u.byKey[j] # new
           /\ holds'[j] \in DOMAIN u.byAddr /\ u.byAddr[holds'[j]] = u.byKey[j]
    BY <1>1, <1>2, <2>1, <2>2, <2>3, RoomyMap DEF Reach, Fresh
  <2>5. Reach(Bound(u, k, new, a), holds')
    <3>1. k \in DOMAIN holds' => holds'[k] = a
      BY <1>2, <2>1
    <3>2. new \in DOMAIN u.devices /\ \A j \in DOMAIN u.byKey : u.byKey[j] # new
      BY <2>2 DEF Fresh
    <3> QED
      BY <1>1, <2>2, <2>4, <3>1, <3>2, BoundReach
  <2> QED
    BY <1>1, <2>1, <2>5, PublishReach DEF u
<1>5. CASE d = NoId /\ holds' = Holding(k, NoId, a) /\ UNCHANGED <<table, index>>
  <2>1. k \notin DOMAIN table.byKey
    <3>1. \A j \in DOMAIN table.byKey : table.byKey[j] \in DOMAIN table.devices
                                         /\ table.byKey[j] # NoId
      BY InvParts, TableAssumption DEF Good, Mirrors, IsTable, IsPartial
    <3> QED
      BY <1>5, <3>1 DEF RecordFor, HasRecord
  <2>2. Reach(table, holds')
    BY <1>1, <1>2, <1>5, <2>1 DEF Reach
  <2> QED
    BY <1>1, <1>5, <2>2 DEF ReachInv, FileOK, Reach, Free
<1> QED
  BY <1>3, <1>4, <1>5 DEF ObserveLease

\* Add takes the address from whoever had it, who is no longer known to hold it.
LEMMA AddReach ==
    ASSUME IInv, ReachInv, NEW k \in Keys \cup {NoKey}, NEW a \in Addrs, NEW d \in Ids,
           NEW named \in BOOLEAN, Add(k, a, d, named)
    PROVE  ReachInv'
<1>1. /\ job = Free /\ UNCHANGED <<job, file>> /\ Reach(table, holds) /\ a \in Slots
      /\ holds' = Only(holds, {j \in DOMAIN holds : j # k /\ holds[j] # a})
  BY DEF Add, ReachInv, Slots
<1>2. PICK t \in Roomy : \E u : Makes(t, u, k, a, d)
  BY AddMakes
<1>3. PICK u : Makes(t, u, k, a, d)
  BY <1>2
<1>4. \A j \in DOMAIN holds' : j \in DOMAIN holds /\ j # k /\ holds[j] # a /\ holds'[j] = holds[j]
  BY <1>1 DEF Only
<1>5. \A j \in DOMAIN holds' \cap DOMAIN u.byKey :
         /\ holds'[j] # a /\ u.byKey[j] # d
         /\ holds'[j] \in DOMAIN u.byAddr /\ u.byAddr[holds'[j]] = u.byKey[j]
  BY <1>1, <1>3, <1>4, RoomyMap DEF Reach, Makes
<1>6. Good(u) /\ d \in DOMAIN u.devices
  BY <1>3 DEF Sound, Makes
<1>7. Reach(Attached(u, d, a), holds')
  BY <1>1, <1>5, <1>6, AttachedReach
<1> QED
  BY <1>1, <1>3, <1>7, PublishReach DEF Makes

\* Rename, SetProfile, SetPaused.
LEMMA DecideReach ==
    ASSUME IInv, ReachInv, NEW d \in Ids, NEW what \in Decisions, NEW yes \in BOOLEAN,
           Decide(d, what, yes)
    PROVE  ReachInv'
<1>1. /\ job = Free /\ UNCHANGED <<job, file, holds>> /\ Reach(table, holds)
      /\ Publish(table') /\ table'.byAddr = table.byAddr /\ table'.byKey = table.byKey
  <2>1. table = [devices |-> table.devices, byAddr |-> table.byAddr, byKey |-> table.byKey]
    BY InvParts DEF Good, IsTable
  <2>2. PICK devices : Publish([table EXCEPT !.devices = devices])
    BY DEF Decide
  <2>3. table' = [table EXCEPT !.devices = devices] /\ Publish(table')
    BY <2>2 DEF Publish
  <2>4. table'.byAddr = table.byAddr /\ table'.byKey = table.byKey
    BY <2>1, <2>3
  <2> QED
    BY <2>3, <2>4 DEF Decide, ReachInv, auxiliary
<1>2. Reach(table', holds')
  BY <1>1 DEF Reach
<1> QED
  BY <1>1, <1>2, PublishReach

\* Forget takes the keys of the record along.
LEMMA ForgetReach ==
    ASSUME IInv, ReachInv, NEW d \in Ids, Forget(d)
    PROVE  ReachInv'
<1>1. /\ job = Free /\ UNCHANGED <<job, file, holds>> /\ Reach(table, holds)
      /\ Publish(Removed(table, d))
  BY DEF Forget, ReachInv, auxiliary
<1>2. Reach(Removed(table, d), holds')
  BY <1>1 DEF Reach, Removed, Only
<1> QED
  BY <1>1, <1>2, PublishReach

\* Merge: whose records are merged no longer counts as holding an address ...
LEMMA MergeBeginsReach ==
    ASSUME IInv, ReachInv, NEW into \in Ids, NEW from \in Ids, MergeBegins(into, from)
    PROVE  ReachInv'
<1> DEFINE byKey == [k \in DOMAIN table.byKey |->
                        IF table.byKey[k] = from THEN into ELSE table.byKey[k]]
<1>1. /\ job = Free /\ file' = file /\ Reach(table, holds) /\ FileOK
      /\ holds' = Only(holds, {k \in DOMAIN holds : ~Has(k, into) /\ ~Has(k, from)})
      /\ job'.op = "merge" /\ job'.into = into
  BY DEF MergeBegins, ReachInv
<1>2. table'.byAddr = table.byAddr /\ table'.byKey = byKey
  <2>1. table = [devices |-> table.devices, byAddr |-> table.byAddr, byKey |-> table.byKey]
    BY InvParts DEF Good, IsTable
  <2>2. table' = [table EXCEPT !.byKey = byKey]
    BY DEF MergeBegins
  <2> HIDE DEF byKey
  <2> QED
    BY <2>1, <2>2
<1>3. \A k \in DOMAIN holds' \cap DOMAIN table'.byKey :
         /\ k \in DOMAIN holds /\ holds'[k] = holds[k] /\ k \in DOMAIN table.byKey
         /\ table.byKey[k] # into /\ table'.byKey[k] = table.byKey[k]
  BY <1>1, <1>2 DEF Only, Has
<1>4. Reach(table', holds')
  BY <1>1, <1>2, <1>3 DEF Reach
<1>5. FileOK'
  BY <1>1 DEF FileOK
<1> QED
  BY <1>1, <1>3, <1>4, <1>5 DEF ReachInv, Free

\* A merge takes nothing from the records it is not about.
LEMMA MergeMovesReach ==
    ASSUME IInv, ReachInv, MergeMoves
    PROVE  ReachInv'
<1> DEFINE s == table.devices[job.from].addrs
           a == IF job.i <= Len(s) THEN s[job.i] ELSE NoAddr
<1>1. /\ job.op = "merge" /\ Reach(table, holds) /\ FileOK /\ Good(table)
      /\ \A k \in DOMAIN holds \cap DOMAIN table.byKey : table.byKey[k] # job.into
      /\ table' = Attached(table, job.into, a) /\ job' = [job EXCEPT !.i = @ + 1]
      /\ file' = file /\ holds' = holds
  BY InvParts DEF MergeMoves, auxiliary, ReachInv
<1>2. /\ job \in MergeJob /\ job.into \in DOMAIN table.devices /\ job.from \in DOMAIN table.devices
      /\ job.i >= 1 /\ \A k \in DOMAIN table.byKey : table.byKey[k] # job.from
  BY <1>1, JobShape DEF IInv, JobOK
<1>3. s \in Seq(Slots)
  BY <1>1, <1>2, GoodLists DEF Listing
<1>4. a \in Slots /\ (a = NoAddr \/ Listed(s, a))
  <2>1. CASE job.i <= Len(s)
    <3>1. job.i \in 1..Len(s)
      BY <2>1, <1>2, <1>3 DEF MergeJob
    <3> QED
      BY <2>1, <3>1, <1>3 DEF Listed
  <2>2. CASE ~(job.i <= Len(s))
    BY <2>2 DEF Slots
  <2> QED
    BY <2>1, <2>2
<1> HIDE DEF a, s
<1>5. ASSUME NEW k \in DOMAIN holds \cap DOMAIN table.byKey
      PROVE  holds[k] # a
  <2>1. holds[k] # NoAddr
    BY TableAssumption DEF IInv, TypeOK, IsPartial
  <2>2. Listed(s, a) => table.byAddr[a] = job.from
    BY <1>1, <1>2, <1>4 DEF Good, Mirrors, s
  <2> QED
    BY <2>1, <2>2, <1>1, <1>2, <1>4 DEF Reach
<1>6. \A k \in DOMAIN holds \cap DOMAIN table.byKey :
         /\ holds[k] # a /\ table.byKey[k] # job.into
         /\ holds[k] \in DOMAIN table.byAddr /\ table.byAddr[holds[k]] = table.byKey[k]
  BY <1>1, <1>5 DEF Reach
<1>7. Reach(table', holds')
  BY <1>1, <1>2, <1>4, <1>6, AttachedReach
<1>8. table'.byKey = table.byKey
  BY <1>1, <1>2, <1>4, AttachedGood
<1>9. job'.op = "merge" /\ job'.into = job.into
  BY <1>1, <1>2 DEF MergeJob
<1>10. FileOK'
  BY <1>1 DEF FileOK
<1> QED
  BY <1>1, <1>7, <1>8, <1>9, <1>10 DEF ReachInv, Free

\* ... to the end.
LEMMA MergeEndsReach ==
    ASSUME IInv, ReachInv, MergeEnds
    PROVE  ReachInv'
<1>1. /\ Reach(table, holds) /\ job' = Free /\ file' = file /\ holds' = holds
      /\ Publish([table EXCEPT !.devices = Only(@, Ids \ {job.from})])
  BY DEF MergeEnds, ReachInv, auxiliary
<1>2. table = [devices |-> table.devices, byAddr |-> table.byAddr, byKey |-> table.byKey]
  BY InvParts DEF Good, IsTable
<1>3. Reach([table EXCEPT !.devices = Only(@, Ids \ {job.from})], holds')
  BY <1>1, <1>2 DEF Reach
<1> QED
  BY <1>1, <1>3, PublishReach

-----------------------------------------------------------------------------
(* Into the file and out of it. *)

\* The file has all that the table has, but for keys that are no text.
LEMMA SaveReach ==
    ASSUME IInv, ReachInv, Save
    PROVE  ReachInv'
<1>1. /\ job = Free /\ Reach(table, holds) /\ index = Published(table) /\ Good(table)
      /\ UNCHANGED <<table, index, job, holds>>
      /\ file' = [devices |-> [d \in DOMAIN table.devices |->
                                  [table.devices[d] EXCEPT !.source = "observed"]],
                  byKey |-> Only(table.byKey, TextKeys), holds |-> holds]
  BY InvParts DEF Save, ReachInv, auxiliary
<1>2. /\ DOMAIN file'.devices = DOMAIN table.devices
      /\ \A d \in DOMAIN table.devices : file'.devices[d].addrs = table.devices[d].addrs
      /\ file'.holds = holds
      /\ \A k \in DOMAIN file'.byKey : k \in DOMAIN table.byKey /\ file'.byKey[k] = table.byKey[k]
  <2>1. \A d \in DOMAIN table.devices :
           [table.devices[d] EXCEPT !.source = "observed"].addrs = table.devices[d].addrs
    <3> SUFFICES ASSUME NEW d \in DOMAIN table.devices
                 PROVE  [table.devices[d] EXCEPT !.source = "observed"].addrs = table.devices[d].addrs
      OBVIOUS
    <3>1. table.devices[d] \in Device
      BY <1>1, GoodLists
    <3> QED
      BY <3>1 DEF Device
  <2>2. /\ file'.devices = [d \in DOMAIN table.devices |->
                               [table.devices[d] EXCEPT !.source = "observed"]]
        /\ file'.byKey = Only(table.byKey, TextKeys) /\ file'.holds = holds
    BY <1>1
  <2> QED
    BY <2>1, <2>2 DEF Only
<1>3. /\ \A d \in DOMAIN table.devices :
            Listing(table.devices[d].addrs) /\ Len(table.devices[d].addrs) <= MaxAddrs
      /\ \A d \in DOMAIN table.devices, a \in Slots :
            Listed(table.devices[d].addrs, a) <=> a \in DOMAIN table.byAddr /\ table.byAddr[a] = d
      /\ \A k \in DOMAIN table.byKey : table.byKey[k] \in DOMAIN table.devices
      /\ \A k \in DOMAIN holds : holds[k] \in Slots
  <2>1. \A d \in DOMAIN table.devices : Listing(table.devices[d].addrs)
    BY <1>1, GoodLists
  <2> QED
    BY <1>1, <2>1 DEF Good, Mirrors, IInv, TypeOK, IsPartial, Slots
<1>4. FileOK'
  <2>1. \A d \in DOMAIN file'.devices :
           Listing(file'.devices[d].addrs) /\ Len(file'.devices[d].addrs) <= MaxAddrs
    BY <1>2, <1>3
  <2>2. \A d, e \in DOMAIN file'.devices, a \in Slots :
           Listed(file'.devices[d].addrs, a) /\ Listed(file'.devices[e].addrs, a) => d = e
    BY <1>2, <1>3
  <2>3. \A k \in DOMAIN file'.holds \cap DOMAIN file'.byKey :
           /\ file'.byKey[k] \in DOMAIN file'.devices
           /\ Listed(file'.devices[file'.byKey[k]].addrs, file'.holds[k])
    BY <1>1, <1>2, <1>3 DEF Reach
  <2> QED
    BY <2>1, <2>2, <2>3 DEF FileOK
<1> QED
  BY <1>1, <1>4 DEF ReachInv, Reach, Free

\* Restore has loaded nothing yet, so all it has loaded is there.
LEMMA RestartReach ==
    ASSUME IInv, ReachInv, Restart
    PROVE  ReachInv'
<1>1. /\ table' = NoTable /\ file' = file /\ FileOK
      /\ job' = [op |-> "restore", todo |-> DOMAIN file.devices, id |-> NoId, i |-> 1]
  BY DEF Restart, ReachInv
<1>2. job'.op = "restore" /\ job'.id = NoId
  BY <1>1
<1>3. DOMAIN table'.devices = {}
  BY <1>1 DEF NoTable, Empty
<1>4. Loading'
  BY <1>1, <1>2, <1>3 DEF Loading
<1>5. FileOK'
  BY <1>1 DEF FileOK
<1> QED
  BY <1>2, <1>4, <1>5 DEF ReachInv, Free

\* A record that Restore is done with has all its addresses.
LEMMA LoadedAll ==
    ASSUME IInv, ReachInv, job.op = "restore", Loaded
    PROVE  \A e \in DOMAIN table.devices, b \in Addrs :
              Listed(file.devices[e].addrs, b) => At(table, b, e)
<1>1. Loading /\ FileOK
  BY DEF ReachInv
<1>2. job \in RestoreJob
  BY JobShape DEF IInv
<1> SUFFICES ASSUME NEW e \in DOMAIN table.devices, NEW b \in Addrs,
                    Listed(file.devices[e].addrs, b)
             PROVE  At(table, b, e)
  OBVIOUS
<1>3. CASE e # job.id
  BY <1>1, <1>3 DEF Loading
<1>4. CASE e = job.id
  <2>1. job.id # NoId
    BY <1>4, InvParts, TableAssumption DEF Good, IsTable, IsPartial
  <2>2. PICK n \in 1..Len(file.devices[e].addrs) : file.devices[e].addrs[n] = b
    BY DEF Listed
  <2>3. Len(file.devices[e].addrs) \in Nat
    BY <1>1 DEF FileOK, Listing, Loading
  <2>4. n < job.i
    BY <1>2, <1>4, <2>1, <2>2, <2>3 DEF Loaded, RestoreJob
  <2>5. b # NoAddr
    BY TableAssumption
  <2> QED
    BY <1>1, <1>4, <2>1, <2>2, <2>4, <2>5 DEF Loading
<1> QED
  BY <1>3, <1>4

\* Restore goes on to the next record when it has all addresses of the last.
LEMMA RestoreDeviceReach ==
    ASSUME IInv, ReachInv, NEW d \in Ids, RestoreDevice(d)
    PROVE  ReachInv'
<1>1. /\ job.op = "restore" /\ Loaded /\ Loading /\ FileOK /\ d \in job.todo
      /\ job' = [job EXCEPT !.todo = @ \ {d}, !.id = d, !.i = 1] /\ file' = file
  BY DEF RestoreDevice, ReachInv, auxiliary
<1>2. /\ job \in RestoreJob /\ d \in DOMAIN file.devices /\ d \notin DOMAIN table.devices
  BY <1>1, JobShape DEF IInv, JobOK
<1>3. job'.op = "restore" /\ job'.id = d /\ job'.i = 1
  BY <1>1, <1>2 DEF RestoreJob
<1>4. /\ table'.byAddr = table.byAddr
      /\ table'.devices = Set(table.devices, d, [file.devices[d] EXCEPT !.addrs = <<>>])
  <2>1. table = [devices |-> table.devices, byAddr |-> table.byAddr, byKey |-> table.byKey]
    BY InvParts DEF Good, IsTable
  <2> DEFINE devices == Set(table.devices, d, [file.devices[d] EXCEPT !.addrs = <<>>])
  <2>2. table' = [table EXCEPT !.devices = devices]
    BY DEF RestoreDevice
  <2> HIDE DEF devices
  <2>3. table'.byAddr = table.byAddr /\ table'.devices = devices
    BY <2>1, <2>2
  <2> QED
    BY <2>3 DEF devices
<1>5. /\ DOMAIN table'.devices = DOMAIN table.devices \cup {d}
      /\ table'.devices[d] = [file.devices[d] EXCEPT !.addrs = <<>>]
  BY <1>4 DEF Set
<1>6. Len(table'.devices[d].addrs) = 0
  <2>1. file.devices[d] \in Device /\ <<>> \in Seq(Slots)
    BY <1>2 DEF IInv, TypeOK, IsFile, IsPartial
  <2>2. table'.devices[d].addrs = <<>>
    BY <1>5, <2>1, DeviceParts
  <2> QED
    BY <2>2
<1>7. Loading'
  <2>1. \A e \in DOMAIN table'.devices \ {d}, b \in Addrs :
           Listed(file'.devices[e].addrs, b) => At(table', b, e)
    BY <1>1, <1>4, <1>5, LoadedAll DEF At
  <2>2. Len(table'.devices[d].addrs) < 1
    BY <1>6
  <2>3. \A n \in 1..Len(file'.devices[d].addrs) : ~(n < 1)
    <3>1. Len(file.devices[d].addrs) \in Nat
      BY <1>1, <1>2 DEF FileOK, Listing
    <3> QED
      BY <1>1, <3>1
  <2>4. DOMAIN table'.devices \subseteq DOMAIN file'.devices
    BY <1>1, <1>2, <1>5 DEF Loading
  <2> QED
    BY <1>3, <2>1, <2>2, <2>3, <2>4 DEF Loading
<1>8. FileOK'
  BY <1>1 DEF FileOK
<1> QED
  BY <1>3, <1>7, <1>8 DEF ReachInv, Free

\* An address of one record pushes none out: the file has at most MaxAddrs of a record, and
\* none that another record has.
LEMMA RestoreAddrReach ==
    ASSUME IInv, ReachInv, RestoreAddr
    PROVE  ReachInv'
<1> DEFINE list == file.devices[job.id].addrs
           a == list[job.i]
<1>1. /\ job.op = "restore" /\ job.id # NoId /\ ~(job.i > Len(list)) /\ Loading /\ FileOK
      /\ table' = IF a = NoAddr THEN table ELSE Attached(table, job.id, a)
      /\ job' = [job EXCEPT !.i = @ + 1] /\ file' = file /\ Good(table)
  BY InvParts DEF RestoreAddr, Loaded, ReachInv, auxiliary
<1>2. /\ job \in RestoreJob /\ job.id \in DOMAIN file.devices /\ job.id \in DOMAIN table.devices
      /\ job.i >= 1
  BY <1>1, JobShape DEF IInv, JobOK
<1>3. /\ Listing(list) /\ Len(list) <= MaxAddrs /\ Len(list) \in Nat
      /\ job.i \in 1..Len(list) /\ a \in Slots /\ Listed(list, a)
  <2>1. Listing(list) /\ Len(list) <= MaxAddrs
    BY <1>1, <1>2 DEF FileOK
  <2>2. list \in Seq(Slots) /\ Len(list) \in Nat
    BY <2>1 DEF Listing
  <2>3. job.i \in 1..Len(list)
    BY <1>1, <1>2, <2>2 DEF RestoreJob
  <2> QED
    BY <2>1, <2>2, <2>3 DEF Listed
<1>4. /\ job'.op = "restore" /\ job'.id = job.id /\ job'.i = job.i + 1
  BY <1>1, <1>2 DEF RestoreJob
<1>5. /\ Len(table.devices[job.id].addrs) < job.i
      /\ Len(table.devices[job.id].addrs) \in Nat
      /\ Len(table.devices[job.id].addrs) < MaxAddrs
  <2>1. Len(table.devices[job.id].addrs) \in Nat
    BY <1>1, <1>2, GoodLists DEF Listing
  <2>2. Len(table.devices[job.id].addrs) < job.i
    BY <1>1 DEF Loading
  <2> QED
    BY <1>3, <2>1, <2>2, TableAssumption
<1>6. CASE a = NoAddr
  <2>1. table' = table
    BY <1>1, <1>6
  <2>2. \A n \in 1..Len(list) : n < job.i + 1 /\ list[n] # NoAddr => n < job.i
    BY <1>3, <1>6
  <2>3. \A n \in 1..Len(list) : n < job.i + 1 /\ list[n] # NoAddr => At(table, list[n], job.id)
    BY <1>1, <2>2 DEF Loading
  <2>4. Len(table.devices[job.id].addrs) < job.i + 1
    <3>1. job.i \in Nat
      BY <1>2 DEF RestoreJob
    <3> QED
      BY <1>5, <3>1
  <2>5. Loading'
    BY <1>1, <1>4, <2>1, <2>3, <2>4 DEF Loading
  <2> QED
    BY <1>1, <1>4, <2>5 DEF ReachInv, Free, FileOK
<1>7. CASE a # NoAddr
  <2>1. /\ At(table', a, job.id)
        /\ \A b \in DOMAIN table.byAddr : b # a =>
              b \in DOMAIN table'.byAddr /\ table'.byAddr[b] = table.byAddr[b]
        /\ Len(table'.devices[job.id].addrs) <= Len(table.devices[job.id].addrs) + 1
    <3> HIDE DEF a
    <3>1. table' = Attached(table, job.id, a)
      BY <1>1, <1>7
    <3> QED
      BY <1>1, <1>2, <1>3, <1>5, <3>1, AttachedMap DEF At
  <2>2. DOMAIN table'.devices = DOMAIN table.devices /\ Good(table')
    BY <1>1, <1>2, <1>3, <1>7, AttachedGood
  <2>3. \A e \in DOMAIN table.devices \ {job.id}, b \in Addrs :
           Listed(file.devices[e].addrs, b) => At(table', b, e)
    <3> SUFFICES ASSUME NEW e \in DOMAIN table.devices \ {job.id}, NEW b \in Addrs,
                        Listed(file.devices[e].addrs, b)
                 PROVE  At(table', b, e)
      OBVIOUS
    <3>1. At(table, b, e) /\ e \in DOMAIN file.devices
      BY <1>1 DEF Loading
    <3>2. b # a
      BY <1>1, <1>2, <1>3, <3>1 DEF FileOK
    <3> QED
      BY <2>1, <3>1, <3>2 DEF At
  <2>4. \A n \in 1..Len(list) : n < job.i + 1 /\ list[n] # NoAddr => At(table', list[n], job.id)
    <3> SUFFICES ASSUME NEW n \in 1..Len(list), n < job.i + 1, list[n] # NoAddr
                 PROVE  At(table', list[n], job.id)
      OBVIOUS
    <3>1. CASE list[n] = a
      BY <2>1, <3>1
    <3>2. CASE list[n] # a
      <4>1. n < job.i
        BY <1>3, <3>2
      <4>2. At(table, list[n], job.id)
        BY <1>1, <4>1 DEF Loading
      <4> QED
        BY <2>1, <3>2, <4>2 DEF At
    <3> QED
      BY <3>1, <3>2
  <2>5. Len(table'.devices[job.id].addrs) < job.i + 1
    <3>1. Len(table'.devices[job.id].addrs) \in Nat
      BY <1>2, <2>2, GoodLists DEF Listing
    <3>2. job.i \in Nat
      BY <1>2 DEF RestoreJob
    <3>3. \A x, y, z \in Nat : x <= y + 1 /\ y < z => x < z + 1
      OBVIOUS
    <3> QED
      BY <1>5, <2>1, <3>1, <3>2, <3>3
  <2>6. Loading'
    BY <1>1, <1>4, <2>2, <2>3, <2>4, <2>5 DEF Loading
  <2> QED
    BY <1>1, <1>4, <2>6 DEF ReachInv, Free, FileOK
<1> QED
  BY <1>6, <1>7

\* The keys come last, when all addresses are in the map.
LEMMA RestoreEndsReach ==
    ASSUME IInv, ReachInv, RestoreEnds
    PROVE  ReachInv'
<1> DEFINE byKey == Only(file.byKey, {k \in DOMAIN file.byKey :
                                         file.byKey[k] \in DOMAIN table.devices})
           u == [table EXCEPT !.byKey = byKey]
<1>1. /\ job.op = "restore" /\ Loaded /\ FileOK /\ Publish(u) /\ job' = Free
      /\ file' = file /\ holds' = file.holds
  BY DEF RestoreEnds, ReachInv
<1>2. /\ \A k \in DOMAIN byKey : /\ k \in DOMAIN file.byKey /\ byKey[k] = file.byKey[k]
                                 /\ byKey[k] \in DOMAIN table.devices
  BY DEF Only
<1>3. u.byAddr = table.byAddr /\ u.byKey = byKey
  <2>1. table = [devices |-> table.devices, byAddr |-> table.byAddr, byKey |-> table.byKey]
    BY InvParts DEF Good, IsTable
  <2> HIDE DEF byKey
  <2> QED
    BY <2>1
<1> HIDE DEF u, byKey
<1>4. \A k \in DOMAIN file.holds : file.holds[k] \in Addrs
  BY DEF IInv, TypeOK, IsFile, IsPartial
<1>5. Reach(u, holds')
  <2> SUFFICES ASSUME NEW k \in DOMAIN file.holds \cap DOMAIN byKey
               PROVE  At(table, file.holds[k], byKey[k])
    BY <1>1, <1>3 DEF Reach, At
  <2>1. Listed(file.devices[byKey[k]].addrs, file.holds[k])
    BY <1>1, <1>2 DEF FileOK
  <2> QED
    BY <1>1, <1>2, <1>4, <2>1, LoadedAll
<1> QED
  BY <1>1, <1>5, PublishReach

-----------------------------------------------------------------------------
\* The first state.
LEMMA InitReach == Init => ReachInv
<1> SUFFICES ASSUME Init PROVE ReachInv
  OBVIOUS
<1>1. /\ table = NoTable /\ index = Empty /\ job = Free /\ holds = Empty
      /\ file = [devices |-> Empty, byKey |-> Empty, holds |-> Empty]
  BY DEF Init
<1>2. DOMAIN Empty = {} /\ DOMAIN NoTable.byAddr = {} /\ DOMAIN NoTable.byKey = {}
  BY DEF NoTable, Empty
<1>3. Published(table) = Empty
  BY <1>1 DEF Published, Only, NoTable, Empty
<1>4. Reach(table, holds)
  BY <1>1, <1>2 DEF Reach
<1>5. FileOK
  <2> HIDE DEF Empty
  <2>1. DOMAIN file.devices = {} /\ DOMAIN file.holds = {}
    BY <1>1, <1>2
  <2> QED
    BY <2>1 DEF FileOK
<1> QED
  BY <1>1, <1>3, <1>4, <1>5 DEF ReachInv, Free

\* Every step.
LEMMA StepReach ==
    ASSUME IInv, ReachInv, [Next]_vars
    PROVE  ReachInv'
<1>1. ASSUME UNCHANGED vars PROVE ReachInv'
  BY <1>1, RestReach DEF vars, auxiliary
<1>2. ASSUME NEW a \in Addrs, Identify(a) PROVE ReachInv'
  BY <1>2, RestReach DEF Identify, auxiliary
<1>3. ASSUME LearnSeen \/ LearnRefused \/ \E d \in Ids : LearnStranger(d) PROVE ReachInv'
  BY <1>3, LearnReach
<1>4. ASSUME NEW k \in Keys, NEW a \in Addrs, ObserveLease(k, a) PROVE ReachInv'
  BY <1>4, ObserveLeaseReach
<1>5. ASSUME NEW d \in Ids, NEW what \in Decisions, NEW yes \in BOOLEAN, Decide(d, what, yes)
      PROVE  ReachInv'
  BY <1>5, DecideReach
<1>6. ASSUME NEW d \in Ids, Forget(d) PROVE ReachInv'
  BY <1>6, ForgetReach
<1>7. ASSUME NEW d \in Ids, NEW k \in Keys \cup {NoKey}, NEW a \in Addrs, NEW named \in BOOLEAN,
             Add(k, a, d, named)
      PROVE  ReachInv'
  BY <1>7, AddReach
<1>8. ASSUME NEW d \in Ids, NEW e \in Ids, MergeBegins(d, e) PROVE ReachInv'
  BY <1>8, MergeBeginsReach
<1>9. ASSUME NEW d \in Ids, RestoreDevice(d) PROVE ReachInv'
  BY <1>9, RestoreDeviceReach
<1>10. ASSUME MergeMoves PROVE ReachInv'
  BY <1>10, MergeMovesReach
<1>11. ASSUME MergeEnds PROVE ReachInv'
  BY <1>11, MergeEndsReach
<1>12. ASSUME Save PROVE ReachInv'
  BY <1>12, SaveReach
<1>13. ASSUME Restart PROVE ReachInv'
  BY <1>13, RestartReach
<1>14. ASSUME RestoreAddr PROVE ReachInv'
  BY <1>14, RestoreAddrReach
<1>15. ASSUME RestoreEnds PROVE ReachInv'
  BY <1>15, RestoreEndsReach
<1> QED
  BY <1>1, <1>2, <1>3, <1>4, <1>5, <1>6, <1>7, <1>8, <1>9, <1>10, <1>11, <1>12, <1>13, <1>14, <1>15
     DEF Next

\* The property follows.
LEMMA ReachEnough == IInv /\ ReachInv => RulesReachTheHolder
<1> SUFFICES ASSUME IInv, ReachInv, job = Free, NEW k \in DOMAIN holds \cap DOMAIN table.byKey
             PROVE  holds[k] \in DOMAIN index /\ index[holds[k]] = table.byKey[k]
  BY DEF RulesReachTheHolder
<1>1. table.byKey[k] \in DOMAIN table.devices
  BY InvParts DEF Good, Mirrors
<1> QED
  BY <1>1 DEF ReachInv, Reach, Published, Only

\* The rules of a client's record apply to the address it has a lease on.
THEOREM RulesReachTheHolderAlways == Spec => []RulesReachTheHolder
<1>1. Init => ReachInv
  BY InitReach
<1>2. IInv /\ ReachInv /\ [Next]_vars => ReachInv'
  BY StepReach
<1>3. IInv /\ ReachInv => RulesReachTheHolder
  BY ReachEnough
<1> QED
  BY <1>1, <1>2, <1>3, Invariance, PTL DEF Spec
=============================================================================
