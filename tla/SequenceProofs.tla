--------------------------- MODULE SequenceProofs ---------------------------
(***************************************************************************)
(* What the proofs of several components need to know of positions,        *)
(* sequences and the lists that are filtered from them.                    *)
(***************************************************************************)
EXTENDS Filters, Integers, SequencesExt, WellFoundedInduction, SequenceTheorems, TLAPS

\* A non-empty set of positions has a last one.
LEMMA LastExists ==
  ASSUME NEW n \in Nat, NEW S \in SUBSET (1..n), S # {}
  PROVE  \E i \in S : \A j \in S : j <= i
<1> DEFINE T == {m \in Nat : \E i \in S : m = n - i}
<1>1. T \subseteq Nat /\ T # {}
  <2>1. PICK i \in S : TRUE  OBVIOUS
  <2>2. n - i \in T  BY <2>1
  <2> QED  BY <2>2
<1>2. PICK m \in T : \A y \in T : ~ (<<y, m>> \in OpToRel(<, Nat))
  BY <1>1, NatLessThanWellFounded, WFMin
<1>3. \A y \in T : m <= y
  <2> TAKE y \in T
  <2>1. y \in Nat /\ m \in Nat  BY <1>1
  <2>2. ~(y < m)  BY <1>2, <2>1 DEF OpToRel
  <2> QED  BY <2>1, <2>2
<1>4. PICK i \in S : m = n - i  OBVIOUS
<1>5. \A j \in S : j <= i
  <2> TAKE j \in S
  <2>1. n - j \in T  OBVIOUS
  <2>2. m <= n - j  BY <1>3, <2>1
  <2> QED  BY <1>4, <2>2
<1> QED  BY <1>5

\* Induction over the naturals, for a set.
LEMMA NatInductionOnSet ==
  ASSUME NEW S, 0 \in S, \A n \in Nat : n \in S => n + 1 \in S
  PROVE  Nat \subseteq S
<1> SUFFICES ASSUME Nat \ S # {} PROVE FALSE  OBVIOUS
<1>1. PICK m \in Nat \ S : \A y \in Nat \ S : ~ (<<y, m>> \in OpToRel(<, Nat))
  BY NatLessThanWellFounded, WFMin
<1>2. m # 0  OBVIOUS
<1>3. m - 1 \in Nat /\ m - 1 < m  BY <1>2
<1>4. m - 1 \notin Nat \ S  BY <1>1, <1>3 DEF OpToRel
<1>5. (m - 1) + 1 \in S  BY <1>3, <1>4
<1>6. (m - 1) + 1 = m  BY <1>3
<1> QED  BY <1>5, <1>6

-----------------------------------------------------------------------------
(* Sequences whose members have no set of their own: calls and events carry *)
(* ids of every kind.                                                       *)

IsSeq(s) == s \in Seq(ToSet(s))

LEMMA SeqIsSeq == ASSUME NEW S, NEW s \in Seq(S) PROVE IsSeq(s)
BY DEF IsSeq, ToSet

LEMMA AppendIsSeq ==
  ASSUME NEW s, IsSeq(s), NEW e
  PROVE  /\ IsSeq(Append(s, e)) /\ DOMAIN Append(s, e) = 1..(Len(s) + 1)
         /\ Len(s) \in Nat /\ DOMAIN s = 1..Len(s)
         /\ Append(s, e)[Len(s) + 1] = e
         /\ \A i \in DOMAIN s : Append(s, e)[i] = s[i]
<1> DEFINE S == ToSet(s) \cup {e}
<1>1. s \in Seq(S) /\ e \in S
  BY DEF IsSeq, ToSet
<1> HIDE DEF S
<1>2. Append(s, e) \in Seq(S)
  BY <1>1
<1>3. IsSeq(Append(s, e))
  BY <1>2, SeqIsSeq
<1> QED  BY <1>1, <1>3

LEMMA ConcatIsSeq ==
  ASSUME NEW a, NEW b, IsSeq(a), IsSeq(b)
  PROVE  /\ IsSeq(a \o b) /\ Len(a \o b) = Len(a) + Len(b)
         /\ Len(a) \in Nat /\ Len(b) \in Nat /\ DOMAIN a = 1..Len(a) /\ DOMAIN b = 1..Len(b)
         /\ DOMAIN (a \o b) = 1..(Len(a) + Len(b))
         /\ \A i \in 1..(Len(a) + Len(b)) : (a \o b)[i] = IF i <= Len(a) THEN a[i] ELSE b[i - Len(a)]
<1> DEFINE S == ToSet(a) \cup ToSet(b)
<1>1. a \in Seq(S) /\ b \in Seq(S)
  BY DEF IsSeq
<1> HIDE DEF S
<1>2. a \o b \in Seq(S) /\ Len(a \o b) = Len(a) + Len(b)
      /\ \A i \in 1..(Len(a) + Len(b)) : (a \o b)[i] = IF i <= Len(a) THEN a[i] ELSE b[i - Len(a)]
  BY <1>1, ConcatProperties
<1>3. IsSeq(a \o b)
  BY <1>2, SeqIsSeq
<1> QED  BY <1>1, <1>2, <1>3

LEMMA TailIsSeq ==
  ASSUME NEW s, IsSeq(s), s # <<>>
  PROVE  /\ IsSeq(Tail(s)) /\ Len(s) \in Nat \ {0} /\ DOMAIN s = 1..Len(s) /\ Len(Tail(s)) = Len(s) - 1
         /\ DOMAIN Tail(s) = 1..(Len(s) - 1) /\ Head(s) = s[1]
         /\ \A i \in 1..(Len(s) - 1) : Tail(s)[i] = s[i + 1]
<1> DEFINE S == ToSet(s)
<1>1. s \in Seq(S)
  BY DEF IsSeq
<1> HIDE DEF S
<1>2. Tail(s) \in Seq(S)
  BY <1>1
<1>3. IsSeq(Tail(s))
  BY <1>2, SeqIsSeq
<1> QED  BY <1>1, <1>3

\* A task that is over leaves the list of those under way.
LEMMA RemoveIsSeq ==
  ASSUME NEW s, IsSeq(s), NEW i \in DOMAIN s
  PROVE  /\ IsSeq(RemoveAt(s, i)) /\ Len(s) \in Nat \ {0} /\ DOMAIN s = 1..Len(s)
         /\ DOMAIN RemoveAt(s, i) = 1..(Len(s) - 1)
         /\ \A j \in 1..(Len(s) - 1) : RemoveAt(s, i)[j] = s[IF j < i THEN j ELSE j + 1]
<1> DEFINE S == ToSet(s)
           a == SubSeq(s, 1, i - 1)
           b == SubSeq(s, i + 1, Len(s))
<1>1. s \in Seq(S) /\ Len(s) \in Nat /\ DOMAIN s = 1..Len(s) /\ i \in 1..Len(s)
  BY DEF IsSeq
<1> HIDE DEF S
<1>2. /\ a \in Seq(S) /\ Len(a) = i - 1 /\ \A j \in 1..(i - 1) : a[j] = s[j]
  BY <1>1, SubSeqProperties
<1>3. b \in Seq(S) /\ Len(b) = Len(s) - i /\ \A j \in 1..(Len(s) - i) : b[j] = s[i + j]
  <2>1. ASSUME i = Len(s) PROVE b = <<>>
    BY <1>1, <2>1
  <2> QED  BY <1>1, <2>1, SubSeqProperties
<1> HIDE DEF a, b
<1>4. /\ a \o b \in Seq(S) /\ Len(a \o b) = Len(s) - 1
      /\ \A j \in 1..(Len(s) - 1) : (a \o b)[j] = IF j <= i - 1 THEN a[j] ELSE b[j - (i - 1)]
  <2>1. /\ a \o b \in Seq(S) /\ Len(a \o b) = Len(a) + Len(b)
        /\ \A j \in 1..(Len(a) + Len(b)) : (a \o b)[j] = IF j <= Len(a) THEN a[j] ELSE b[j - Len(a)]
    BY <1>2, <1>3, ConcatProperties
  <2>2. Len(a) + Len(b) = Len(s) - 1
    BY <1>1, <1>2, <1>3
  <2> QED  BY <1>2, <2>1, <2>2
<1>5. ASSUME NEW j \in 1..(Len(s) - 1) PROVE (a \o b)[j] = s[IF j < i THEN j ELSE j + 1]
  <2>1. CASE j < i
    BY <1>1, <1>2, <1>4, <2>1
  <2>2. CASE ~(j < i)
    <3>1. j - (i - 1) \in 1..(Len(s) - i) /\ i + (j - (i - 1)) = j + 1
      BY <1>1, <2>2
    <3> QED  BY <1>1, <1>3, <1>4, <2>2, <3>1
  <2> QED  BY <2>1, <2>2
<1>6. IsSeq(a \o b)
  BY <1>4, SeqIsSeq
<1>7. RemoveAt(s, i) = a \o b
  BY DEF RemoveAt, a, b
<1>8. DOMAIN (a \o b) = 1..(Len(s) - 1)
  BY <1>4, LenProperties
<1>9. Len(s) # 0
  BY <1>1
<1> DEFINE c == a \o b
<1> HIDE DEF c
<1>10. /\ IsSeq(c) /\ DOMAIN c = 1..(Len(s) - 1) /\ RemoveAt(s, i) = c
       /\ \A j \in 1..(Len(s) - 1) : c[j] = s[IF j < i THEN j ELSE j + 1]
  BY <1>5, <1>6, <1>7, <1>8 DEF c
<1> QED  BY <1>1, <1>9, <1>10

LEMMA ExceptIsSeq ==
  ASSUME NEW s, IsSeq(s), NEW i \in DOMAIN s, NEW e
  PROVE  /\ IsSeq([s EXCEPT ![i] = e]) /\ DOMAIN [s EXCEPT ![i] = e] = DOMAIN s
         /\ \A j \in DOMAIN s : [s EXCEPT ![i] = e][j] = IF j = i THEN e ELSE s[j]
<1> DEFINE S == ToSet(s) \cup {e}
<1>1. s \in Seq(S) /\ e \in S
  BY DEF IsSeq, ToSet
<1> HIDE DEF S
<1>2. [s EXCEPT ![i] = e] \in Seq(S)
  BY <1>1
<1>3. IsSeq([s EXCEPT ![i] = e])
  BY <1>2, SeqIsSeq
<1> QED  BY <1>3

-----------------------------------------------------------------------------
(* What Filtered computes.  It is a recursive function over the list: the  *)
(* lemmas unfold it one element at a time, by induction on the length.     *)

NoneKept == <<>>

\* What a pass over the list does with one element.
Adds(kept, e, S) == IF e \in S THEN Append(kept, e) ELSE kept

\* kept is the recursive function of Filtered for the first n elements.
KeptBy(kept, s, S, n) ==
  kept = [i \in 0..n |-> IF i = 0 THEN NoneKept ELSE Adds(kept[i - 1], s[i], S)]

LEMMA KeepsTells ==
  ASSUME NEW s, NEW S, NEW n \in Nat, NEW f, KeptBy(f, s, S, n)
  PROVE  f[0] = NoneKept /\ \A i \in 1..n : f[i] = Adds(f[i - 1], s[i], S)
<1> DEFINE g == [i \in 0..n |-> IF i = 0 THEN NoneKept ELSE Adds(f[i - 1], s[i], S)]
<1>1. g[0] = NoneKept /\ \A i \in 1..n : g[i] = Adds(f[i - 1], s[i], S)
  OBVIOUS
<1>2. f = g
  BY DEF KeptBy
<1> HIDE DEF g
<1> QED  BY <1>1, <1>2, Zenon

LEMMA KeepsWhen ==
  ASSUME NEW s, NEW S, NEW n \in Nat, NEW f,
         f = [i \in 0..n |-> f[i]], f[0] = NoneKept, \A i \in 1..n : f[i] = Adds(f[i - 1], s[i], S)
  PROVE  KeptBy(f, s, S, n)
<1> DEFINE g == [i \in 0..n |-> IF i = 0 THEN NoneKept ELSE Adds(f[i - 1], s[i], S)]
<1>1. g[0] = NoneKept /\ \A i \in 1..n : g[i] = Adds(f[i - 1], s[i], S)
  OBVIOUS
<1>2. \A i \in 0..n : f[i] = g[i]
  <2> TAKE i \in 0..n
  <2>1. i = 0 \/ i \in 1..n  OBVIOUS
  <2> HIDE DEF g
  <2> QED  BY <1>1, <2>1, Zenon
<1>3. f = g
  BY <1>2
<1> QED  BY <1>3 DEF KeptBy

\* There is such a function, for every length.
LEMMA KeepingExists ==
  ASSUME NEW s, NEW S
  PROVE  \A n \in Nat : \E f : KeptBy(f, s, S, n)
<1> DEFINE T == {n \in Nat : \E f : KeptBy(f, s, S, n)}
<1>1. 0 \in T
  <2> DEFINE f == [i \in 0..0 |-> NoneKept]
  <2>1. f = [i \in 0..0 |-> IF i = 0 THEN NoneKept ELSE Adds(f[i - 1], s[i], S)]
    OBVIOUS
  <2> QED  BY <2>1 DEF KeptBy
<1>2. ASSUME NEW n \in Nat, n \in T PROVE n + 1 \in T
  <2>1. PICK f : KeptBy(f, s, S, n)  BY <1>2
  <2> DEFINE g == [i \in 0..(n + 1) |-> IF i = n + 1 THEN Adds(f[n], s[n + 1], S) ELSE f[i]]
  <2>2. g[n + 1] = Adds(f[n], s[n + 1], S) /\ \A i \in 0..n : g[i] = f[i]
    OBVIOUS
  <2>3. g = [i \in 0..(n + 1) |-> g[i]]  OBVIOUS
  <2> HIDE DEF g
  <2>4. g[0] = NoneKept  BY <2>1, <2>2, KeepsTells
  <2>5. \A i \in 1..(n + 1) : g[i] = Adds(g[i - 1], s[i], S)
    <3> TAKE i \in 1..(n + 1)
    <3>1. CASE i = n + 1  BY <2>2, <3>1
    <3>2. CASE i \in 1..n
      <4>1. f[i] = Adds(f[i - 1], s[i], S)  BY <2>1, <3>2, KeepsTells, Zenon
      <4>2. i - 1 \in 0..n /\ i \in 0..n  BY <3>2
      <4>3. g[i] = f[i] /\ g[i - 1] = f[i - 1]  BY <2>2, <4>2, Zenon
      <4> QED  BY <4>1, <4>3, Zenon
    <3> QED  BY <3>1, <3>2
  <2>6. n + 1 \in Nat  OBVIOUS
  <2>7. KeptBy(g, s, S, n + 1)  BY <2>3, <2>4, <2>5, <2>6, KeepsWhen, Zenon
  <2> QED  BY <2>6, <2>7
<1> HIDE DEF T
<1>3. Nat \subseteq T  BY <1>1, <1>2, NatInductionOnSet
<1> QED  BY <1>3 DEF T

\* Filtered's recursive function, written out.
LEMMA FilteredUnfolded ==
  ASSUME NEW s, IsSeq(s), NEW S
  PROVE  \E f : KeptBy(f, s, S, Len(s)) /\ Filtered(s, S) = f[Len(s)]
<1>1. Len(s) \in Nat  BY DEF IsSeq
<1>2. \E f : KeptBy(f, s, S, Len(s))  BY <1>1, KeepingExists
<1> DEFINE h == CHOOSE f : KeptBy(f, s, S, Len(s))
<1>3. KeptBy(h, s, S, Len(s))  BY <1>2
<1>4. Filtered(s, S) = h[Len(s)]  BY DEF Filtered, KeptBy, NoneKept, Adds
<1> QED  BY <1>3, <1>4

LEMMA FilteredOfNothing == \A S : Filtered(<<>>, S) = <<>>
<1> TAKE S
<1>1. <<>> \in Seq({}) /\ Len(<<>>) = 0  OBVIOUS
<1>2. IsSeq(<<>>)  BY <1>1, SeqIsSeq
<1>3. PICK f : KeptBy(f, <<>>, S, 0) /\ Filtered(<<>>, S) = f[0]  BY <1>1, <1>2, FilteredUnfolded
<1>4. 0 \in Nat  OBVIOUS
<1>5. f[0] = NoneKept  BY <1>3, <1>4, KeepsTells, Zenon
<1> QED  BY <1>3, <1>5 DEF NoneKept

\* One element more, when the two sets agree on those before it.
LEMMA FilteredOfAppend ==
  ASSUME NEW s, IsSeq(s), NEW e, NEW S, NEW T, \A i \in DOMAIN s : s[i] \in S <=> s[i] \in T
  PROVE  Filtered(Append(s, e), T) = IF e \in T THEN Append(Filtered(s, S), e) ELSE Filtered(s, S)
<1> DEFINE longer == Append(s, e)
           n == Len(s)
<1>1. /\ IsSeq(longer) /\ n \in Nat /\ n + 1 \in Nat /\ DOMAIN s = 1..n /\ DOMAIN longer = 1..(n + 1)
      /\ longer[n + 1] = e
      /\ \A i \in 1..n : longer[i] = s[i]
  BY AppendIsSeq
<1>2. Len(longer) = n + 1
  <2>1. longer \in Seq(ToSet(longer))
    BY <1>1 DEF IsSeq
  <2> QED  BY <1>1, <2>1
<1> HIDE DEF longer, n
<1>3. PICK f : KeptBy(f, s, S, n) /\ Filtered(s, S) = f[n]
  BY FilteredUnfolded DEF n
<1>4. PICK g : KeptBy(g, longer, T, n + 1) /\ Filtered(longer, T) = g[n + 1]
  BY <1>1, <1>2, FilteredUnfolded
<1>5. f[n] = g[n]
  <2>1. f[0] = NoneKept /\ \A i \in 1..n : f[i] = Adds(f[i - 1], s[i], S)
    <3>1. n \in Nat /\ KeptBy(f, s, S, n)
      BY <1>1, <1>3
    <3> QED  BY <3>1, KeepsTells, Zenon
  <2>2. g[0] = NoneKept /\ \A i \in 1..(n + 1) : g[i] = Adds(g[i - 1], longer[i], T)
    <3>1. n + 1 \in Nat /\ KeptBy(g, longer, T, n + 1)
      BY <1>1, <1>4
    <3> QED  BY <3>1, KeepsTells, Zenon
  <2> DEFINE I == {i \in Nat : i <= n => f[i] = g[i]}
  <2>3. 0 \in I
    BY <2>1, <2>2
  <2>4. ASSUME NEW i \in Nat, i \in I PROVE i + 1 \in I
    <3>1. CASE i + 1 <= n
      <4>1. i + 1 \in 1..n /\ i + 1 \in 1..(n + 1) /\ (i + 1) - 1 = i /\ f[i] = g[i]
        BY <1>1, <2>4, <3>1
      <4>2. f[i + 1] = Adds(f[i], s[i + 1], S) /\ g[i + 1] = Adds(g[i], s[i + 1], T)
        BY <1>1, <2>1, <2>2, <4>1
      <4>3. f[i + 1] = g[i + 1]
        BY <1>1, <4>1, <4>2 DEF Adds
      <4> QED  BY <4>3
    <3> QED  BY <1>1, <3>1
  <2> HIDE DEF I
  <2>5. Nat \subseteq I
    BY <2>3, <2>4, NatInductionOnSet
  <2> QED  BY <1>1, <2>5 DEF I
<1>6. g[n + 1] = Adds(g[n], e, T)
  <2>1. n + 1 \in 1..(n + 1) /\ (n + 1) - 1 = n
    BY <1>1
  <2> QED  BY <1>1, <1>4, <2>1, KeepsTells
<1> QED  BY <1>3, <1>4, <1>5, <1>6 DEF longer, Adds

\* kept are the elements of S among the first n of s; h says where each of them was.
Places(h, kept, s, S, n) ==
  /\ IsSeq(kept)
  /\ \A j \in DOMAIN kept : h[j] \in 1..n /\ kept[j] = s[h[j]] /\ s[h[j]] \in S
  /\ \A j, k \in DOMAIN kept : j < k => h[j] < h[k]
  /\ \A i \in 1..n : s[i] \in S => \E j \in DOMAIN kept : h[j] = i

\* One element more.
LEMMA PlacesOfNext ==
  ASSUME NEW h, NEW kept, NEW s, NEW S, NEW n \in Nat, Places(h, kept, s, S, n)
  PROVE  \E g : Places(g, Adds(kept, s[n + 1], S), s, S, n + 1)
<1>1. CASE s[n + 1] \in S
  <2> DEFINE e == s[n + 1]
             m == Len(kept) + 1
             g == [j \in 1..m |-> IF j = m THEN n + 1 ELSE h[j]]
             next == Append(kept, e)
  <2>1. /\ IsSeq(next) /\ DOMAIN next = 1..m /\ Len(kept) \in Nat /\ DOMAIN kept = 1..(m - 1)
        /\ next[m] = e /\ \A j \in 1..(m - 1) : next[j] = kept[j]
    BY AppendIsSeq DEF Places
  <2>2. m \in Nat \ {0} /\ g[m] = n + 1 /\ \A j \in 1..(m - 1) : g[j] = h[j]
    BY <2>1
  <2>3. Adds(kept, s[n + 1], S) = next
    BY <1>1 DEF Adds
  <2> HIDE DEF g, next, m
  <2>4. ASSUME NEW j \in 1..m PROVE g[j] \in 1..(n + 1) /\ next[j] = s[g[j]] /\ s[g[j]] \in S
    <3>1. CASE j = m
      BY <1>1, <2>1, <2>2, <3>1
    <3>2. CASE j # m
      <4>1. j \in 1..(m - 1)
        BY <2>2, <3>2
      <4>2. h[j] \in 1..n /\ kept[j] = s[h[j]] /\ s[h[j]] \in S
        BY <2>1, <4>1 DEF Places
      <4> QED  BY <2>1, <2>2, <4>1, <4>2
    <3> QED  BY <3>1, <3>2
  <2>5. ASSUME NEW j \in 1..m, NEW k \in 1..m, j < k PROVE g[j] < g[k]
    <3>1. j \in 1..(m - 1) /\ h[j] \in 1..n
      BY <2>1, <2>2, <2>5 DEF Places
    <3>2. CASE k = m
      BY <2>2, <3>1, <3>2
    <3>3. CASE k # m
      <4>1. k \in 1..(m - 1)
        BY <2>2, <3>3
      <4> QED  BY <2>1, <2>2, <2>5, <3>1, <4>1 DEF Places
    <3> QED  BY <3>2, <3>3
  <2>6. ASSUME NEW i \in 1..(n + 1), s[i] \in S PROVE \E j \in 1..m : g[j] = i
    <3>1. CASE i = n + 1
      BY <2>2, <3>1
    <3>2. CASE i # n + 1
      <4>1. PICK j \in 1..(m - 1) : h[j] = i
        BY <2>1, <2>6, <3>2 DEF Places
      <4> QED  BY <2>2, <4>1
    <3> QED  BY <3>1, <3>2
  <2>7. Places(g, next, s, S, n + 1)
    BY <2>1, <2>4, <2>5, <2>6 DEF Places
  <2> QED  BY <2>3, <2>7
<1>2. CASE s[n + 1] \notin S
  <2>1. Adds(kept, s[n + 1], S) = kept
    BY <1>2 DEF Adds
  <2>2. Places(h, kept, s, S, n + 1)
    BY <1>2 DEF Places
  <2> QED  BY <2>1, <2>2
<1> QED  BY <1>1, <1>2

\* What is kept, and where it was.
LEMMA FilteredPlaces ==
  ASSUME NEW s, IsSeq(s), NEW S
  PROVE  \E h : Places(h, Filtered(s, S), s, S, Len(s))
<1> DEFINE n == Len(s)
<1>1. n \in Nat
  BY DEF IsSeq
<1>2. PICK f : KeptBy(f, s, S, n) /\ Filtered(s, S) = f[n]
  BY FilteredUnfolded
<1> HIDE DEF n
<1>3. f[0] = NoneKept /\ \A i \in 1..n : f[i] = Adds(f[i - 1], s[i], S)
  BY <1>1, <1>2, KeepsTells, Zenon
<1> DEFINE I == {i \in Nat : i <= n => \E h : Places(h, f[i], s, S, i)}
<1>4. 0 \in I
  <2>1. IsSeq(NoneKept) /\ DOMAIN NoneKept = {}
    <3>1. <<>> \in Seq({}) /\ DOMAIN <<>> = {}  OBVIOUS
    <3>2. IsSeq(<<>>)  BY <3>1, SeqIsSeq, Zenon
    <3> QED  BY <3>1, <3>2 DEF NoneKept
  <2>2. Places(NoneKept, NoneKept, s, S, 0)
    BY <2>1 DEF Places
  <2> QED  BY <1>3, <2>2
<1>5. ASSUME NEW i \in Nat, i \in I PROVE i + 1 \in I
  <2>1. SUFFICES ASSUME i + 1 <= n PROVE \E h : Places(h, f[i + 1], s, S, i + 1)
    BY <1>5
  <2>2. PICK h : Places(h, f[i], s, S, i)
    BY <1>1, <1>5, <2>1
  <2>3. f[i + 1] = Adds(f[i], s[i + 1], S)
    <3>1. i + 1 \in 1..n /\ (i + 1) - 1 = i
      BY <1>1, <2>1
    <3> QED  BY <1>3, <3>1
  <2> QED  BY <2>2, <2>3, PlacesOfNext
<1> HIDE DEF I
<1>6. Nat \subseteq I
  BY <1>4, <1>5, NatInductionOnSet
<1> QED  BY <1>1, <1>2, <1>6 DEF I, n

=============================================================================
