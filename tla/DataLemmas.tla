--------------------------- MODULE DataLemmas ---------------------------
(***************************************************************************)
(* What the proofs need to know of data.  What the list operations of the  *)
(* models do to a duplicate-free sequence: its elements, its length, and   *)
(* that it stays duplicate-free; smallest and largest numbers; and sums,   *)
(* by an induction over finite sets that needs no operator as a parameter. *)
(***************************************************************************)
EXTENDS Integers, Sequences, FiniteSets, SequencesExt, SequenceTheorems,
        FiniteSetTheorems, WellFoundedInduction, TLAPS

\* The elements of a sequence, by index.
LEMMA ToSetElements ==
  ASSUME NEW S, NEW s \in Seq(S)
  PROVE  /\ ToSet(s) \subseteq S
         /\ Len(s) \in Nat
         /\ DOMAIN s = 1..Len(s)
         /\ \A x : x \in ToSet(s) <=> \E i \in 1..Len(s) : s[i] = x
BY DEF ToSet

\* Two elements of a duplicate-free sequence at different places differ.
LEMMA InjectiveElements ==
  ASSUME NEW S, NEW s \in Seq(S)
  PROVE  IsInjective(s) <=> \A i, j \in 1..Len(s) : s[i] = s[j] => i = j
BY DEF IsInjective

\* A sequence that does not hold u is left alone.
LEMMA RemoveFirstAbsent ==
  ASSUME NEW S, NEW s \in Seq(S), NEW u, u \notin ToSet(s)
  PROVE  RemoveFirst(s, u) = s
BY DEF RemoveFirst, ToSet

\* The place removed is the only place that holds the element.
LEMMA RemoveFirstPresent ==
  ASSUME NEW S, NEW s \in Seq(S), NEW i \in 1..Len(s), IsInjective(s)
  PROVE  RemoveFirst(s, s[i]) = RemoveAt(s, i)
<1>1. {k \in 1..Len(s) : s[k] = s[i]} = {i}
  BY DEF IsInjective
<1>2. SelectInSeq(s, LAMBDA v : v = s[i]) = Min({i})
  BY <1>1 DEF SelectInSeq
<1>3. Min({i}) = i
  BY DEF Min
<1> QED  BY <1>2, <1>3 DEF RemoveFirst

\* Removing place i shifts what follows it by one.
LEMMA RemoveAtElements ==
  ASSUME NEW S, NEW s \in Seq(S), NEW i \in 1..Len(s)
  PROVE  /\ RemoveAt(s, i) \in Seq(S)
         /\ Len(RemoveAt(s, i)) = Len(s) - 1
         /\ \A k \in 1..(Len(s) - 1) :
              RemoveAt(s, i)[k] = IF k < i THEN s[k] ELSE s[k + 1]
<1> DEFINE a == SubSeq(s, 1, i - 1)
           b == SubSeq(s, i + 1, Len(s))
<1>0. \A k \in 1..Len(s) : s[k] \in S
  BY ElementOfSeq
<1>1. a \in Seq(S) /\ Len(a) = i - 1 /\ \A k \in 1..(i - 1) : a[k] = s[k]
  <2>1. \A k \in 1..(i - 1) : s[k] \in S
    BY <1>0
  <2> QED  BY <2>1, SubSeqProperties
<1>2. /\ b \in Seq(S) /\ Len(b) = Len(s) - i
      /\ \A k \in 1..(Len(s) - i) : b[k] = s[k + i]
  <2>1. \A k \in (i + 1)..Len(s) : s[k] \in S
    BY <1>0
  <2> QED  BY <2>1, SubSeqProperties
<1>3. RemoveAt(s, i) = a \o b
  BY DEF RemoveAt
<1> HIDE DEF a, b
<1>4. /\ a \o b \in Seq(S) /\ Len(a \o b) = Len(s) - 1
      /\ \A k \in 1..(Len(s) - 1) :
           (a \o b)[k] = IF k < i THEN a[k] ELSE b[k - (i - 1)]
  BY <1>1, <1>2, ConcatProperties
<1>5. ASSUME NEW k \in 1..(Len(s) - 1)
      PROVE  (a \o b)[k] = IF k < i THEN s[k] ELSE s[k + 1]
  BY <1>1, <1>2, <1>4
<1> QED  BY <1>3, <1>4, <1>5

\* Removing an element from a duplicate-free sequence.
LEMMA RemoveFirstFacts ==
  ASSUME NEW S, NEW s \in Seq(S), IsInjective(s), NEW u
  PROVE  /\ RemoveFirst(s, u) \in Seq(S)
         /\ IsInjective(RemoveFirst(s, u))
         /\ ToSet(RemoveFirst(s, u)) = ToSet(s) \ {u}
         /\ Len(RemoveFirst(s, u)) = IF u \in ToSet(s) THEN Len(s) - 1 ELSE Len(s)
<1>1. CASE u \notin ToSet(s)
  BY <1>1, RemoveFirstAbsent
<1>2. CASE u \in ToSet(s)
  <2>1. PICK i \in 1..Len(s) : s[i] = u
    BY <1>2, ToSetElements
  <2> DEFINE t == RemoveAt(s, i)
  <2>2. RemoveFirst(s, u) = t
    BY <2>1, RemoveFirstPresent
  <2>3. /\ t \in Seq(S) /\ Len(t) = Len(s) - 1
        /\ \A k \in 1..(Len(s) - 1) : t[k] = IF k < i THEN s[k] ELSE s[k + 1]
    BY RemoveAtElements
  <2> HIDE DEF t
  <2>4. \A j, k \in 1..Len(s) : s[j] = s[k] => j = k
    BY InjectiveElements
  <2>5. IsInjective(t)
    BY <2>3, <2>4, InjectiveElements
  <2>6. ToSet(t) = ToSet(s) \ {u}
    <3>1. \A x : x \in ToSet(t) <=> \E k \in 1..(Len(s) - 1) : t[k] = x
      BY <2>3, ToSetElements
    <3>2. ASSUME NEW x \in ToSet(t)
          PROVE  x \in ToSet(s) \ {u}
      <4>1. PICK k \in 1..(Len(s) - 1) : t[k] = x
        BY <3>1
      <4>2. x = s[IF k < i THEN k ELSE k + 1] /\ (IF k < i THEN k ELSE k + 1) \in 1..Len(s)
        BY <4>1, <2>3
      <4>3. (IF k < i THEN k ELSE k + 1) # i
        BY <4>1
      <4> QED  BY <4>2, <4>3, <2>1, <2>4, ToSetElements
    <3>3. ASSUME NEW x \in ToSet(s) \ {u}
          PROVE  x \in ToSet(t)
      <4>1. PICK k \in 1..Len(s) : s[k] = x
        BY ToSetElements
      <4>2. k # i
        BY <4>1, <2>1
      <4>3. t[IF k < i THEN k ELSE k - 1] = x /\ (IF k < i THEN k ELSE k - 1) \in 1..(Len(s) - 1)
        BY <4>1, <4>2, <2>3
      <4> QED  BY <4>3, <3>1
    <3> QED  BY <3>2, <3>3
  <2> QED  BY <1>2, <2>2, <2>3, <2>5, <2>6
<1> QED  BY <1>1, <1>2

\* Appending a newcomer.
LEMMA AppendFacts ==
  ASSUME NEW S, NEW s \in Seq(S), IsInjective(s), NEW u \in S, u \notin ToSet(s)
  PROVE  /\ Append(s, u) \in Seq(S)
         /\ IsInjective(Append(s, u))
         /\ ToSet(Append(s, u)) = ToSet(s) \cup {u}
         /\ Len(Append(s, u)) = Len(s) + 1
<1> DEFINE t == Append(s, u)
<1>1. /\ t \in Seq(S) /\ Len(t) = Len(s) + 1 /\ t[Len(s) + 1] = u
      /\ \A i \in 1..Len(s) : t[i] = s[i]
  BY AppendProperties
<1> HIDE DEF t
<1>2. /\ \A x : x \in ToSet(s) <=> \E i \in 1..Len(s) : s[i] = x
      /\ \A i, j \in 1..Len(s) : s[i] = s[j] => i = j
  BY ToSetElements, InjectiveElements
<1>3. \A x : x \in ToSet(t) <=> \E i \in 1..(Len(s) + 1) : t[i] = x
  BY <1>1 DEF ToSet
<1>4. ToSet(t) = ToSet(s) \cup {u}
  BY <1>1, <1>2, <1>3
<1>5. IsInjective(t)
  BY <1>1, <1>2 DEF IsInjective
<1> QED  BY <1>1, <1>4, <1>5 DEF t

\* Two duplicate-free sequences with no element in common, one after the other.
LEMMA ConcatFacts ==
  ASSUME NEW S, NEW s \in Seq(S), NEW t \in Seq(S),
         IsInjective(s), IsInjective(t), ToSet(s) \cap ToSet(t) = {}
  PROVE  /\ s \o t \in Seq(S)
         /\ IsInjective(s \o t)
         /\ ToSet(s \o t) = ToSet(s) \cup ToSet(t)
         /\ Len(s \o t) = Len(s) + Len(t)
<1> DEFINE c == s \o t
<1>1. /\ c \in Seq(S) /\ Len(c) = Len(s) + Len(t)
      /\ \A i \in 1..(Len(s) + Len(t)) :
           c[i] = IF i <= Len(s) THEN s[i] ELSE t[i - Len(s)]
  BY ConcatProperties
<1> HIDE DEF c
<1>2. Len(s) \in Nat /\ Len(t) \in Nat
  OBVIOUS
<1>3. /\ \A i \in 1..Len(s) : c[i] = s[i] /\ i \in 1..Len(c)
      /\ \A i \in 1..Len(t) : c[i + Len(s)] = t[i] /\ i + Len(s) \in 1..Len(c)
  <2>1. ASSUME NEW i \in 1..Len(s)  PROVE c[i] = s[i] /\ i \in 1..Len(c)
    <3>1. i \in 1..(Len(s) + Len(t)) /\ i <= Len(s)
      BY <1>2
    <3> QED  BY <1>1, <3>1
  <2>2. ASSUME NEW i \in 1..Len(t)  PROVE c[i + Len(s)] = t[i] /\ i + Len(s) \in 1..Len(c)
    <3>1. /\ i + Len(s) \in 1..(Len(s) + Len(t)) /\ ~(i + Len(s) <= Len(s))
          /\ i + Len(s) - Len(s) = i
      BY <1>2
    <3> QED  BY <1>1, <3>1
  <2> QED  BY <2>1, <2>2
<1>4. ASSUME NEW k \in 1..Len(c)
      PROVE  \/ k \in 1..Len(s) /\ c[k] = s[k]
             \/ k - Len(s) \in 1..Len(t) /\ c[k] = t[k - Len(s)]
  BY <1>1, <1>2
<1>5. /\ \A x : x \in ToSet(s) <=> \E i \in 1..Len(s) : s[i] = x
      /\ \A x : x \in ToSet(t) <=> \E i \in 1..Len(t) : t[i] = x
      /\ \A x : x \in ToSet(c) <=> \E i \in 1..Len(c) : c[i] = x
  BY <1>1 DEF ToSet
<1>6. ToSet(c) = ToSet(s) \cup ToSet(t)
  <2>1. ASSUME NEW x \in ToSet(c)  PROVE x \in ToSet(s) \cup ToSet(t)
    <3>1. PICK k \in 1..Len(c) : c[k] = x
      BY <1>5
    <3> QED  BY <3>1, <1>4, <1>5
  <2>2. ToSet(s) \subseteq ToSet(c)
    BY <1>3, <1>5
  <2>3. ToSet(t) \subseteq ToSet(c)
    BY <1>3, <1>5
  <2> QED  BY <2>1, <2>2, <2>3
<1>7. ASSUME NEW k \in 1..Len(c), NEW l \in 1..Len(c), c[k] = c[l]
      PROVE  k = l
  <2>1. /\ \A i, j \in 1..Len(s) : s[i] = s[j] => i = j
        /\ \A i, j \in 1..Len(t) : t[i] = t[j] => i = j
    BY InjectiveElements
  <2>2. \A i \in 1..Len(s), j \in 1..Len(t) : s[i] # t[j]
    BY <1>5
  <2>3. CASE k \in 1..Len(s) /\ l \in 1..Len(s)
    BY <1>3, <1>7, <2>1, <2>3
  <2>4. CASE k - Len(s) \in 1..Len(t) /\ l - Len(s) \in 1..Len(t)
    <3>1. t[k - Len(s)] = t[l - Len(s)]
      BY <1>1, <1>2, <1>7, <2>4
    <3>2. k - Len(s) = l - Len(s)
      BY <2>1, <2>4, <3>1
    <3> QED  BY <3>2, <1>1, <1>2
  <2>5. CASE k \in 1..Len(s) /\ l - Len(s) \in 1..Len(t)
    <3>1. c[k] = s[k]
      BY <1>3, <2>5
    <3>2. c[l] = t[l - Len(s)]
      BY <1>1, <1>2, <2>5
    <3> QED  BY <3>1, <3>2, <1>7, <2>2, <2>5
  <2>6. CASE k - Len(s) \in 1..Len(t) /\ l \in 1..Len(s)
    <3>1. c[l] = s[l]
      BY <1>3, <2>6
    <3>2. c[k] = t[k - Len(s)]
      BY <1>1, <1>2, <2>6
    <3> QED  BY <3>1, <3>2, <1>7, <2>2, <2>6
  <2> QED  BY <1>4, <2>3, <2>4, <2>5, <2>6
<1>8. IsInjective(c)
  BY <1>1, <1>7 DEF IsInjective
<1> QED  BY <1>1, <1>6, <1>8 DEF c

\* Cutting a duplicate-free sequence in two.
LEMMA SplitFacts ==
  ASSUME NEW S, NEW s \in Seq(S), IsInjective(s), NEW n \in 0..Len(s)
  PROVE  LET a == SubSeq(s, 1, n)
             b == SubSeq(s, n + 1, Len(s))
         IN  /\ a \in Seq(S) /\ b \in Seq(S)
             /\ IsInjective(a) /\ IsInjective(b)
             /\ ToSet(a) \cap ToSet(b) = {}
             /\ ToSet(a) \cup ToSet(b) = ToSet(s)
             /\ Len(a) = n /\ Len(b) = Len(s) - n
             /\ a \o b = s
<1> DEFINE a == SubSeq(s, 1, n)
           b == SubSeq(s, n + 1, Len(s))
<1>0. (\A k \in 1..Len(s) : s[k] \in S) /\ Len(s) \in Nat
  BY ElementOfSeq
<1>1. a \in Seq(S) /\ Len(a) = n /\ \A k \in 1..n : a[k] = s[k]
  <2>1. \A k \in 1..n : s[k] \in S
    BY <1>0
  <2> QED  BY <2>1, <1>0, SubSeqProperties
<1>2. /\ b \in Seq(S) /\ Len(b) = Len(s) - n
      /\ \A k \in 1..(Len(s) - n) : b[k] = s[k + n]
  <2>1. \A k \in (n + 1)..Len(s) : s[k] \in S
    BY <1>0
  <2> QED  BY <2>1, <1>0, SubSeqProperties
<1> HIDE DEF a, b
<1>3. \A i, j \in 1..Len(s) : s[i] = s[j] => i = j
  BY InjectiveElements
<1>4. /\ \A x : x \in ToSet(s) <=> \E i \in 1..Len(s) : s[i] = x
      /\ \A x : x \in ToSet(a) <=> \E i \in 1..n : a[i] = x
      /\ \A x : x \in ToSet(b) <=> \E i \in 1..(Len(s) - n) : b[i] = x
  <2>1. \A x : x \in ToSet(s) <=> \E i \in 1..Len(s) : s[i] = x
    BY DEF ToSet
  <2>2. \A x : x \in ToSet(a) <=> \E i \in 1..Len(a) : a[i] = x
    BY <1>1 DEF ToSet
  <2>3. \A x : x \in ToSet(b) <=> \E i \in 1..Len(b) : b[i] = x
    BY <1>2 DEF ToSet
  <2> QED  BY <2>1, <2>2, <2>3, <1>1, <1>2
<1>5. IsInjective(a) /\ IsInjective(b)
  <2>1. IsInjective(a)
    BY <1>0, <1>1, <1>3 DEF IsInjective
  <2>2. ASSUME NEW i \in 1..Len(b), NEW j \in 1..Len(b), b[i] = b[j]
        PROVE  i = j
    <3>1. i + n \in 1..Len(s) /\ j + n \in 1..Len(s) /\ s[i + n] = s[j + n]
      BY <2>2, <1>0, <1>2
    <3>2. i + n = j + n
      BY <3>1, <1>3
    <3> QED  BY <3>2, <1>0, <1>2
  <2> QED  BY <2>1, <2>2, <1>2 DEF IsInjective
<1>6. ToSet(a) \cap ToSet(b) = {}
  BY <1>0, <1>1, <1>2, <1>3, <1>4
<1>7. ToSet(a) \cup ToSet(b) = ToSet(s)
  <2>1. ASSUME NEW x \in ToSet(s)  PROVE x \in ToSet(a) \cup ToSet(b)
    <3>1. PICK i \in 1..Len(s) : s[i] = x
      BY <1>4
    <3>2. CASE i <= n
      BY <3>1, <3>2, <1>0, <1>1, <1>4
    <3>3. CASE i > n
      <4>1. i - n \in 1..(Len(s) - n) /\ b[i - n] = x
        BY <3>1, <3>3, <1>0, <1>2
      <4> QED  BY <4>1, <1>4
    <3> QED  BY <3>2, <3>3, <1>0
  <2>2. ASSUME NEW x \in ToSet(b)  PROVE x \in ToSet(s)
    <3>1. PICK i \in 1..(Len(s) - n) : b[i] = x
      BY <1>4
    <3>2. i + n \in 1..Len(s) /\ s[i + n] = x
      BY <3>1, <1>0, <1>2
    <3> QED  BY <3>2, <1>4
  <2>3. ToSet(a) \subseteq ToSet(s)
    BY <1>0, <1>1, <1>4
  <2> QED  BY <2>1, <2>2, <2>3
<1>8. a \o b = s
  <2>1. /\ a \o b \in Seq(S) /\ Len(a \o b) = Len(s)
        /\ \A i \in 1..Len(s) : (a \o b)[i] = IF i <= n THEN a[i] ELSE b[i - n]
    <3>1. Len(a) + Len(b) = Len(s) /\ Len(a) = n
      BY <1>0, <1>1, <1>2
    <3>2. /\ a \o b \in Seq(S) /\ Len(a \o b) = Len(a) + Len(b)
          /\ \A i \in 1..(Len(a) + Len(b)) :
               (a \o b)[i] = IF i <= Len(a) THEN a[i] ELSE b[i - Len(a)]
      BY <1>1, <1>2, ConcatProperties
    <3> QED  BY <3>1, <3>2
  <2>2. ASSUME NEW i \in 1..Len(s)  PROVE (a \o b)[i] = s[i]
    <3>1. CASE i <= n
      BY <3>1, <2>1, <1>0, <1>1
    <3>2. CASE i > n
      <4>1. i - n \in 1..(Len(s) - n) /\ (i - n) + n = i /\ ~(i <= n)
        BY <3>2, <1>0
      <4>2. (a \o b)[i] = b[i - n]
        BY <4>1, <2>1
      <4>3. b[i - n] = s[(i - n) + n]
        BY <4>1, <1>2
      <4> QED  BY <4>1, <4>2, <4>3
    <3>3. i <= n \/ i > n
      BY <1>0
    <3> QED  BY <3>1, <3>2, <3>3, Zenon
  <2> QED  BY <2>1, <2>2, SeqEqual
<1> QED  BY <1>1, <1>2, <1>5, <1>6, <1>7, <1>8 DEF a, b

\* Taking the head off a duplicate-free sequence.
LEMMA HeadTailFacts ==
  ASSUME NEW S, NEW s \in Seq(S), IsInjective(s), s # << >>
  PROVE  /\ Head(s) \in ToSet(s) /\ Tail(s) \in Seq(S)
         /\ IsInjective(Tail(s))
         /\ ToSet(Tail(s)) = ToSet(s) \ {Head(s)}
         /\ Len(Tail(s)) = Len(s) - 1
<1>1. /\ Tail(s) \in Seq(S) /\ Len(Tail(s)) = Len(s) - 1 /\ Len(s) >= 1
      /\ \A i \in 1..(Len(s) - 1) : Tail(s)[i] = s[i + 1]
      /\ Head(s) = s[1] /\ Len(s) \in Nat
  BY HeadTailProperties, EmptySeq
<1> DEFINE t == Tail(s)
<1> HIDE DEF t
<1>2. /\ \A x : x \in ToSet(s) <=> \E i \in 1..Len(s) : s[i] = x
      /\ \A x : x \in ToSet(t) <=> \E i \in 1..(Len(s) - 1) : t[i] = x
  <2>1. \A x : x \in ToSet(s) <=> \E i \in 1..Len(s) : s[i] = x
    BY DEF ToSet
  <2>2. t \in Seq(S) /\ Len(t) = Len(s) - 1
    BY <1>1 DEF t
  <2>3. \A x : x \in ToSet(t) <=> \E i \in 1..Len(t) : t[i] = x
    BY <2>2 DEF ToSet
  <2> QED  BY <2>1, <2>2, <2>3
<1>3. \A i, j \in 1..Len(s) : s[i] = s[j] => i = j
  BY InjectiveElements
<1>4. ToSet(t) = ToSet(s) \ {Head(s)}
  <2>1. ASSUME NEW x \in ToSet(s), x # Head(s)  PROVE x \in ToSet(t)
    <3>1. PICK i \in 1..Len(s) : s[i] = x
      BY <1>2
    <3>2. i - 1 \in 1..(Len(s) - 1) /\ t[i - 1] = x
      BY <2>1, <3>1, <1>1 DEF t
    <3> QED  BY <3>2, <1>2
  <2>2. ASSUME NEW x \in ToSet(t)  PROVE x \in ToSet(s) \ {Head(s)}
    <3>1. PICK i \in 1..(Len(s) - 1) : t[i] = x
      BY <1>2
    <3>2. i + 1 \in 1..Len(s) /\ s[i + 1] = x /\ 1 \in 1..Len(s) /\ i + 1 # 1
      BY <3>1, <1>1 DEF t
    <3> QED  BY <3>2, <1>1, <1>2, <1>3
  <2> QED  BY <2>1, <2>2
<1>5. IsInjective(t)
  <2>1. ASSUME NEW i \in 1..(Len(s) - 1), NEW j \in 1..(Len(s) - 1), t[i] = t[j]
        PROVE  i = j
    <3>1. i + 1 \in 1..Len(s) /\ j + 1 \in 1..Len(s) /\ s[i + 1] = s[j + 1]
      BY <2>1, <1>1 DEF t
    <3>2. i + 1 = j + 1
      BY <3>1, <1>3
    <3> QED  BY <3>2
  <2> QED  BY <2>1, <1>1 DEF t, IsInjective
<1>6. Head(s) \in ToSet(s)
  BY <1>1, <1>2
<1> QED  BY <1>1, <1>4, <1>5, <1>6 DEF t

\* Any listing of a sequence's elements is duplicate-free and adds nobody.
LEMMA ListingFacts ==
  ASSUME NEW S, NEW s \in Seq(S), NEW q \in SetToSeqs(ToSet(s))
  PROVE  q \in Seq(S) /\ IsInjective(q) /\ ToSet(q) \subseteq ToSet(s)
<1>1. ToSet(s) \subseteq S /\ IsFiniteSet(ToSet(s))
  <2>1. ToSet(s) \subseteq S /\ s \in Surjection(1..Len(s), ToSet(s))
    BY DEF ToSet, Surjection
  <2>2. IsFiniteSet(1..Len(s))
    BY FS_Interval
  <2> QED  BY <2>1, <2>2, FS_Surjection
<1>2. Cardinality(ToSet(s)) \in Nat
  BY <1>1, FS_CardinalityType
<1>3. q \in [1..Cardinality(ToSet(s)) -> ToSet(s)]
      /\ \A i, j \in 1..Cardinality(ToSet(s)) : i # j => q[i] # q[j]
  BY DEF SetToSeqs
<1>4. q \in Seq(ToSet(s)) /\ q \in Seq(S)
  BY <1>1, <1>2, <1>3
<1> QED  BY <1>3, <1>4 DEF IsInjective, ToSet
\* One list after another: putting somebody behind them, or moving the head of
\* the second to the end of the first, moves nobody else.
LEMMA ConcatMoves ==
  ASSUME NEW S, NEW s \in Seq(S), NEW t \in Seq(S)
  PROVE  /\ \A u \in S : Append(s \o t, u) = s \o Append(t, u)
         /\ t # << >> => Append(s, Head(t)) \o Tail(t) = s \o t
<1>1. ASSUME NEW u \in S
      PROVE  Append(s \o t, u) = s \o Append(t, u)
  <2>1. << u >> \in Seq(S) /\ s \o t \in Seq(S)
    BY ConcatProperties
  <2>2. Append(s \o t, u) = (s \o t) \o << u >> /\ Append(t, u) = t \o << u >>
    BY <2>1, AppendIsConcat
  <2> QED  BY <2>1, <2>2, ConcatAssociative
<1>2. ASSUME t # << >>
      PROVE  Append(s, Head(t)) \o Tail(t) = s \o t
  <2> DEFINE h == Head(t)
             r == Tail(t)
             a == Append(s, h)
  <2>1. /\ h \in S /\ r \in Seq(S) /\ Len(r) = Len(t) - 1 /\ h = t[1]
        /\ \A i \in 1..Len(r) : r[i] = t[i + 1]
    BY <1>2, HeadTailProperties
  <2>2. Len(s) \in Nat /\ Len(t) \in Nat \ {0}
    BY <1>2, EmptySeq
  <2>3. /\ a \in Seq(S) /\ Len(a) = Len(s) + 1 /\ a[Len(s) + 1] = h
        /\ \A i \in 1..Len(s) : a[i] = s[i]
    BY <2>1, AppendProperties
  <2> HIDE DEF h, r, a
  <2>4. /\ a \o r \in Seq(S) /\ Len(a \o r) = Len(a) + Len(r)
        /\ \A i \in 1..(Len(a) + Len(r)) : (a \o r)[i] = IF i <= Len(a) THEN a[i] ELSE r[i - Len(a)]
    BY <2>1, <2>3, ConcatProperties
  <2>5. /\ s \o t \in Seq(S) /\ Len(s \o t) = Len(s) + Len(t)
        /\ \A i \in 1..(Len(s) + Len(t)) : (s \o t)[i] = IF i <= Len(s) THEN s[i] ELSE t[i - Len(s)]
    BY ConcatProperties
  <2>6. ASSUME NEW i \in 1..(Len(s) + Len(t))
        PROVE  (a \o r)[i] = (s \o t)[i]
    <3>1. CASE i <= Len(s)
      BY <3>1, <2>1, <2>2, <2>3, <2>4, <2>5
    <3>2. CASE i = Len(s) + 1
      BY <3>2, <2>1, <2>2, <2>3, <2>4, <2>5
    <3>3. CASE i > Len(s) + 1
      <4>1. /\ i - Len(a) \in 1..Len(r) /\ (i - Len(a)) + 1 = i - Len(s)
            /\ ~(i <= Len(a)) /\ ~(i <= Len(s)) /\ Len(a) + Len(r) = Len(s) + Len(t)
        BY <3>3, <2>1, <2>2, <2>3
      <4>2. (a \o r)[i] = r[i - Len(a)]
        BY <2>4, <4>1
      <4>3. r[i - Len(a)] = t[(i - Len(a)) + 1]
        BY <2>1, <4>1
      <4>4. (s \o t)[i] = t[i - Len(s)]
        BY <2>5, <4>1
      <4> QED  BY <4>1, <4>2, <4>3, <4>4
    <3>4. i <= Len(s) \/ i = Len(s) + 1 \/ i > Len(s) + 1
      BY <2>2
    <3> QED  BY <3>1, <3>2, <3>3, <3>4, Zenon
  <2>7. Len(a \o r) = Len(s \o t)
    BY <2>1, <2>2, <2>3, <2>4, <2>5
  <2> QED  BY <2>2, <2>4, <2>5, <2>6, <2>7, SeqEqual DEF a, h, r
<1> QED  BY <1>1, <1>2

\* Leaving a line of two lists is leaving the list one is on.
LEMMA RemoveFirstConcat ==
  ASSUME NEW S, NEW s \in Seq(S), NEW t \in Seq(S), NEW u,
         IsInjective(s), IsInjective(t), ToSet(s) \cap ToSet(t) = {}
  PROVE  RemoveFirst(s \o t, u) = RemoveFirst(s, u) \o RemoveFirst(t, u)
<1> DEFINE c == s \o t
           rs == RemoveFirst(s, u)
           rt == RemoveFirst(t, u)
<1>1. /\ c \in Seq(S) /\ Len(c) = Len(s) + Len(t) /\ Len(s) \in Nat /\ Len(t) \in Nat
      /\ \A i \in 1..(Len(s) + Len(t)) : c[i] = IF i <= Len(s) THEN s[i] ELSE t[i - Len(s)]
  BY ConcatProperties
<1>2. IsInjective(c) /\ ToSet(c) = ToSet(s) \cup ToSet(t)
  BY ConcatFacts, ZenonT(60)
<1>3. rs \in Seq(S) /\ rt \in Seq(S)
  BY RemoveFirstFacts
<1>4. /\ rs \o rt \in Seq(S) /\ Len(rs \o rt) = Len(rs) + Len(rt)
      /\ \A i \in 1..(Len(rs) + Len(rt)) :
           (rs \o rt)[i] = IF i <= Len(rs) THEN rs[i] ELSE rt[i - Len(rs)]
  BY <1>3, ConcatProperties
<1> HIDE DEF c, rs, rt
<1>5. CASE u \notin ToSet(c)
  <2>1. rs = s /\ rt = t /\ RemoveFirst(c, u) = c
    BY <1>1, <1>2, <1>5, RemoveFirstAbsent DEF rs, rt
  <2> QED  BY <2>1 DEF c, rs, rt
<1>6. CASE u \in ToSet(s)
  <2>1. PICK j \in 1..Len(s) : s[j] = u
    BY <1>6, ToSetElements
  <2>2. /\ rs = RemoveAt(s, j) /\ rt = t
        /\ j \in 1..Len(c) /\ c[j] = u
    BY <1>1, <1>6, <2>1, RemoveFirstPresent, RemoveFirstAbsent DEF rs, rt
  <2>3. /\ Len(rs) = Len(s) - 1
        /\ \A k \in 1..(Len(s) - 1) : rs[k] = IF k < j THEN s[k] ELSE s[k + 1]
    BY <2>2, RemoveAtElements
  <2>4. RemoveFirst(c, u) = RemoveAt(c, j)
    BY <1>1, <1>2, <2>2, RemoveFirstPresent
  <2> DEFINE d == RemoveAt(c, j)
  <2>5. /\ d \in Seq(S) /\ Len(d) = Len(c) - 1
        /\ \A k \in 1..(Len(c) - 1) : d[k] = IF k < j THEN c[k] ELSE c[k + 1]
    BY <1>1, <2>2, RemoveAtElements
  <2> HIDE DEF d
  <2>6. Len(d) = Len(rs \o rt) /\ Len(d) = Len(s) + Len(t) - 1
    BY <1>1, <1>4, <2>2, <2>3, <2>5
  <2>7. ASSUME NEW k \in 1..Len(d)
        PROVE  d[k] = (rs \o rt)[k]
    <3>1. CASE k < Len(s)
      <4>1. /\ k \in 1..(Len(c) - 1) /\ k \in 1..(Len(s) - 1) /\ k <= Len(s) /\ k + 1 <= Len(s)
            /\ k \in 1..(Len(s) + Len(t)) /\ k + 1 \in 1..(Len(s) + Len(t))
            /\ k <= Len(rs) /\ k \in 1..(Len(rs) + Len(rt))
        BY <3>1, <1>1, <2>1, <2>2, <2>3, <2>6
      <4>2. c[k] = s[k] /\ c[k + 1] = s[k + 1]
        BY <4>1, <1>1, Zenon
      <4>3. (rs \o rt)[k] = rs[k]
        BY <4>1, <1>4, Zenon
      <4> QED  BY <4>1, <4>2, <4>3, <2>3, <2>5, Zenon
    <3>3. CASE k >= Len(s)
      <4>1. /\ ~(k < j) /\ ~(k + 1 <= Len(s)) /\ k + 1 \in 1..(Len(s) + Len(t)) /\ k \in 1..(Len(c) - 1)
            /\ ~(k <= Len(rs)) /\ k \in 1..(Len(rs) + Len(rt)) /\ k - Len(rs) = (k + 1) - Len(s)
        BY <3>3, <1>1, <2>1, <2>2, <2>3, <2>6
      <4>2. d[k] = c[k + 1] /\ c[k + 1] = t[(k + 1) - Len(s)]
        BY <4>1, <1>1, <2>5
      <4>3. (rs \o rt)[k] = t[k - Len(rs)]
        BY <4>1, <1>4, <2>2
      <4> QED  BY <4>1, <4>2, <4>3
    <3>4. k < Len(s) \/ k >= Len(s)
      BY <1>1, <2>5, <2>6
    <3> QED  BY <3>1, <3>3, <3>4, Zenon
  <2>8. d = rs \o rt
    BY <1>4, <2>5, <2>6, <2>7, SeqEqual
  <2> QED  BY <2>4, <2>8 DEF c, d, rs, rt
<1>7. CASE u \in ToSet(t)
  <2>1. PICK j \in 1..Len(t) : t[j] = u
    BY <1>7, ToSetElements
  <2> DEFINE n == Len(s) + j
  <2>2. /\ rt = RemoveAt(t, j) /\ rs = s
        /\ n \in 1..Len(c) /\ c[n] = u /\ ~(n <= Len(s)) /\ n - Len(s) = j
    <3>1. n \in 1..(Len(s) + Len(t)) /\ ~(n <= Len(s)) /\ n - Len(s) = j
      BY <1>1, <2>1
    <3>2. rt = RemoveAt(t, j) /\ rs = s
      BY <1>7, <2>1, RemoveFirstPresent, RemoveFirstAbsent DEF rs, rt
    <3> HIDE DEF n
    <3> QED  BY <1>1, <2>1, <3>1, <3>2
  <2>3. /\ Len(rt) = Len(t) - 1
        /\ \A k \in 1..(Len(t) - 1) : rt[k] = IF k < j THEN t[k] ELSE t[k + 1]
    BY <2>2, RemoveAtElements
  <2> HIDE DEF n
  <2>4. RemoveFirst(c, u) = RemoveAt(c, n)
    BY <1>1, <1>2, <2>2, RemoveFirstPresent
  <2> DEFINE d == RemoveAt(c, n)
  <2>5. /\ d \in Seq(S) /\ Len(d) = Len(c) - 1
        /\ \A k \in 1..(Len(c) - 1) : d[k] = IF k < n THEN c[k] ELSE c[k + 1]
    BY <1>1, <2>2, RemoveAtElements
  <2> HIDE DEF d
  <2>6. Len(d) = Len(rs \o rt) /\ Len(d) = Len(s) + Len(t) - 1
    BY <1>1, <1>4, <2>2, <2>3, <2>5
  <2>7. ASSUME NEW k \in 1..Len(d)
        PROVE  d[k] = (rs \o rt)[k]
    <3>1. CASE k <= Len(s)
      <4>1. /\ k \in 1..(Len(c) - 1) /\ k < n /\ k <= Len(rs)
            /\ k \in 1..(Len(s) + Len(t)) /\ k \in 1..(Len(rs) + Len(rt))
        BY <3>1, <1>1, <2>1, <2>2, <2>3, <2>6
      <4> QED  BY <3>1, <4>1, <1>1, <1>4, <2>2, <2>5, Zenon
    <3>2. CASE k > Len(s)
      <4> DEFINE i == k - Len(s)
      <4>1. /\ i \in 1..(Len(t) - 1) /\ i + 1 = (k + 1) - Len(s) /\ (k < n <=> i < j)
            /\ ~(k <= Len(s)) /\ ~(k + 1 <= Len(s))
            /\ k \in 1..(Len(s) + Len(t)) /\ k + 1 \in 1..(Len(s) + Len(t))
            /\ k \in 1..(Len(c) - 1) /\ k \in 1..(Len(rs) + Len(rt))
        BY <3>2, <1>1, <2>1, <2>2, <2>3, <2>6
      <4>2. c[k] = t[i] /\ c[k + 1] = t[i + 1]
        <5>1. c[k + 1] = t[(k + 1) - Len(s)]
          BY <4>1, <1>1
        <5> QED  BY <4>1, <1>1, <5>1
      <4>3. (rs \o rt)[k] = rt[i]
        BY <4>1, <1>4, <2>2
      <4> HIDE DEF i
      <4> QED  BY <4>1, <4>2, <4>3, <2>3, <2>5
    <3>3. k <= Len(s) \/ k > Len(s)
      BY <1>1, <2>5, <2>6
    <3> QED  BY <3>1, <3>2, <3>3, Zenon
  <2>8. d = rs \o rt
    BY <1>4, <2>5, <2>6, <2>7, SeqEqual
  <2> QED  BY <2>4, <2>8 DEF c, d, rs, rt
<1> QED  BY <1>2, <1>5, <1>6, <1>7

\* Where two lists meet, a line splits into them again.
LEMMA SplitConcat ==
  ASSUME NEW S, NEW s \in Seq(S), NEW t \in Seq(S)
  PROVE  LET c == s \o t
         IN  SubSeq(c, 1, Len(s)) = s /\ SubSeq(c, Len(s) + 1, Len(c)) = t
<1> DEFINE c == s \o t
           a == SubSeq(c, 1, Len(s))
           b == SubSeq(c, Len(s) + 1, Len(c))
<1>1. /\ c \in Seq(S) /\ Len(c) = Len(s) + Len(t) /\ Len(s) \in Nat /\ Len(t) \in Nat
      /\ \A i \in 1..(Len(s) + Len(t)) : c[i] = IF i <= Len(s) THEN s[i] ELSE t[i - Len(s)]
  BY ConcatProperties
<1> HIDE DEF c
<1>2. \A i \in 1..Len(c) : c[i] \in S
  BY <1>1, ElementOfSeq
<1>3. a \in Seq(S) /\ Len(a) = Len(s) /\ \A i \in 1..Len(s) : a[i] = c[i]
  <2>1. \A i \in 1..Len(s) : c[i] \in S
    BY <1>1, <1>2
  <2> QED  BY <1>1, <2>1, SubSeqProperties
<1>4. b \in Seq(S) /\ Len(b) = Len(t) /\ \A i \in 1..Len(t) : b[i] = c[i + Len(s)]
  <2>1. \A i \in (Len(s) + 1)..Len(c) : c[i] \in S
    BY <1>1, <1>2
  <2> QED  BY <1>1, <2>1, SubSeqProperties
<1> HIDE DEF a, b
<1>5. a = s
  <2>1. \A i \in 1..Len(a) : a[i] = s[i]
    BY <1>1, <1>3
  <2> QED  BY <1>3, <2>1, SeqEqual
<1>6. b = t
  <2>1. ASSUME NEW i \in 1..Len(b) PROVE b[i] = t[i]
    <3>1. i + Len(s) \in 1..(Len(s) + Len(t)) /\ ~(i + Len(s) <= Len(s)) /\ (i + Len(s)) - Len(s) = i
      BY <1>1, <1>4
    <3>2. c[i + Len(s)] = t[(i + Len(s)) - Len(s)]
      BY <1>1, <3>1
    <3> QED  BY <1>4, <3>1, <3>2
  <2> QED  BY <1>4, <2>1, SeqEqual
<1> QED  BY <1>5, <1>6 DEF a, b, c

\* A set of numbers that is not empty has a smallest.
LEMMA Smallest ==
  ASSUME NEW T \in SUBSET Nat, T # {}
  PROVE  \E n \in T : \A m \in T : n <= m
<1> DEFINE R == OpToRel(<, Nat)
<1>1. IsWellFoundedOn(R, Nat)
  BY NatLessThanWellFounded
<1>2. PICK x \in T : \A y \in T : ~(<<y, x>> \in R)
  <2> HIDE DEF R
  <2> QED  BY <1>1, WFMin, Zenon
<1>3. ASSUME NEW m \in T PROVE x <= m
  <2>1. m \in Nat /\ x \in Nat /\ ~(<<m, x>> \in R)
    BY <1>2
  <2>2. ~(m < x)
    BY <2>1 DEF OpToRel
  <2> HIDE DEF R
  <2> QED  BY <2>1, <2>2
<1> HIDE DEF R
<1> QED  BY <1>3

-----------------------------------------------------------------------------
(***************************************************************************)
(* Sums.  A set of subsets that has the empty one, and any one if it has   *)
(* it less the chosen element, has them all: induction over finite sets,   *)
(* from the smallest that it would miss.                                   *)
(***************************************************************************)
Pick(s) == CHOOSE x \in s : TRUE

LEMMA FiniteSubsets ==
  ASSUME NEW S, IsFiniteSet(S), NEW good \in SUBSET SUBSET S, {} \in good,
         \A s \in SUBSET S : s # {} /\ s \ {Pick(s)} \in good => s \in good
  PROVE  good = SUBSET S
<1> DEFINE bad == (SUBSET S) \ good
           sizes == {Cardinality(s) : s \in bad}
<1>0. \A s \in SUBSET S : IsFiniteSet(s) /\ Cardinality(s) \in Nat
  BY FS_Subset, FS_CardinalityType
<1>1. SUFFICES ASSUME bad # {} PROVE FALSE
  OBVIOUS
<1>2. sizes \in SUBSET Nat /\ sizes # {}
  BY <1>0, <1>1
<1> HIDE DEF sizes
<1>3. PICK n \in sizes : \A m \in sizes : n <= m
  BY <1>2, Smallest
<1>4. PICK s \in bad : Cardinality(s) = n
  BY <1>3 DEF sizes
<1>5. s # {} /\ s \in SUBSET S /\ s \notin good
  BY <1>4
<1>6. Pick(s) \in s
  BY <1>5 DEF Pick
<1>7. /\ Cardinality(s \ {Pick(s)}) = Cardinality(s) - 1 /\ Cardinality(s) \in Nat
      /\ s \ {Pick(s)} \in SUBSET S
  BY <1>0, <1>5, <1>6, FS_RemoveElement
<1>8. s \ {Pick(s)} \notin bad
  <2>1. Cardinality(s \ {Pick(s)}) \notin sizes
    BY <1>2, <1>3, <1>4, <1>7
  <2> QED  BY <2>1 DEF sizes
<1> QED  BY <1>5, <1>7, <1>8

\* What the folds of the community modules compute: a function of the subsets.
SumStep(f, it, s) == IF s = {} THEN 0 ELSE f[Pick(s)] + it[s \ {Pick(s)}]
SumTable(f, S) == CHOOSE it : it = [s \in SUBSET S |-> SumStep(f, it, s)]

LEMMA SumByTable == ASSUME NEW f PROVE SumFunction(f) = SumTable(f, DOMAIN f)[DOMAIN f]
BY DEF SumTable, SumStep, Pick, SumFunction, SumFunctionOnSet, FoldFunctionOnSet, MapThenFoldSet

LEMMA SumTableFacts ==
  ASSUME NEW S, IsFiniteSet(S), NEW f \in [S -> Int]
  PROVE  /\ SumTable(f, S) \in [SUBSET S -> Int]
         /\ \A s \in SUBSET S : SumTable(f, S)[s] = SumStep(f, SumTable(f, S), s)
<1> DEFINE Small(n) == {s \in SUBSET S : Cardinality(s) <= n}
           Table(it, n) == it \in [Small(n) -> Int] /\ \A s \in Small(n) : it[s] = SumStep(f, it, s)
           bad == {n \in Nat : \A it : ~Table(it, n)}
<1>0. /\ \A s \in SUBSET S : IsFiniteSet(s) /\ Cardinality(s) \in Nat
      /\ \A s \in SUBSET S : s # {} =>
           /\ Pick(s) \in S /\ s \ {Pick(s)} \in SUBSET S
           /\ Cardinality(s \ {Pick(s)}) = Cardinality(s) - 1
      /\ \A s \in SUBSET S : Cardinality(s) = 0 => s = {}
      /\ Cardinality({}) = 0
  <2>1. \A s \in SUBSET S : IsFiniteSet(s) /\ Cardinality(s) \in Nat
    BY FS_Subset, FS_CardinalityType
  <2>2. \A s \in SUBSET S : s # {} => Pick(s) \in s
    BY DEF Pick
  <2> QED  BY <2>1, <2>2, FS_RemoveElement, FS_EmptySet
<1>1. ASSUME NEW n \in Nat, n \in bad, \A m \in bad : n <= m PROVE FALSE
  <2>1. CASE n = 0
    <3> DEFINE it == [s \in Small(0) |-> 0]
    <3>1. \A s \in Small(0) : s = {}
      BY <1>0
    <3>2. Table(it, 0)
      BY <3>1 DEF SumStep
    <3> QED  BY <1>1, <2>1, <3>2
  <2>2. CASE n # 0
    <3>1. n - 1 \in Nat /\ n - 1 \notin bad
      BY <1>1, <2>2
    <3>2. PICK old : Table(old, n - 1)
      BY <3>1
    <3> DEFINE it == [s \in Small(n) |-> SumStep(f, old, s)]
    <3>3. \A s \in Small(n) : s # {} => s \ {Pick(s)} \in Small(n - 1) /\ Pick(s) \in S
      BY <1>0, <1>1
    <3>4. \A s \in Small(n - 1) : s \in Small(n)
      BY <1>0, <3>1
    <3>5. it \in [Small(n) -> Int]
      BY <3>2, <3>3 DEF SumStep
    <3>6. \A s \in Small(n - 1) : it[s] = old[s]
      BY <3>2, <3>4
    <3>7. \A s \in Small(n) : it[s] = SumStep(f, it, s)
      <4> SUFFICES ASSUME NEW s \in Small(n) PROVE it[s] = SumStep(f, it, s)
        OBVIOUS
      <4>1. CASE s = {}
        BY <4>1 DEF SumStep
      <4>2. CASE s # {}
        <5>1. it[s] = f[Pick(s)] + old[s \ {Pick(s)}]
          BY <4>2 DEF SumStep
        <5>2. it[s \ {Pick(s)}] = old[s \ {Pick(s)}]
          BY <3>3, <3>6, <4>2
        <5> HIDE DEF it, Small
        <5> QED  BY <4>2, <5>1, <5>2 DEF SumStep
      <4> QED  BY <4>1, <4>2
    <3> HIDE DEF it
    <3>8. Table(it, n)
      BY <3>5, <3>7
    <3> QED  BY <1>1, <3>8
  <2> QED  BY <2>1, <2>2
<1>2. bad = {}
  <2>1. bad \in SUBSET Nat
    OBVIOUS
  <2> HIDE DEF bad
  <2>2. bad # {} => \E n \in bad : \A m \in bad : n <= m
    BY <2>1, Smallest
  <2> QED  BY <1>1, <2>1, <2>2
<1>3. PICK it : Table(it, Cardinality(S))
  BY <1>0, <1>2
<1>4. Small(Cardinality(S)) = SUBSET S
  BY <1>0, FS_Subset
<1> DEFINE table == SumTable(f, S)
<1>5. it = [s \in SUBSET S |-> SumStep(f, it, s)]
  <2>1. it \in [SUBSET S -> Int] /\ \A s \in SUBSET S : it[s] = SumStep(f, it, s)
    BY <1>3, <1>4
  <2> QED  BY <2>1
<1>6. table = [s \in SUBSET S |-> SumStep(f, table, s)]
  BY <1>5 DEF SumTable
<1> HIDE DEF table
<1>7. \A s \in SUBSET S : table[s] = SumStep(f, table, s)
  BY <1>6
<1>8. {s \in SUBSET S : table[s] \in Int} = SUBSET S
  <2> DEFINE good == {s \in SUBSET S : table[s] \in Int}
  <2>1. {} \in good
    <3>1. {} \in SUBSET S /\ table[{}] = 0
      BY <1>7 DEF SumStep
    <3> QED  BY <3>1
  <2>2. \A s \in SUBSET S : s # {} /\ s \ {Pick(s)} \in good => s \in good
    <3> SUFFICES ASSUME NEW s \in SUBSET S, s # {}, s \ {Pick(s)} \in good PROVE s \in good
      OBVIOUS
    <3>1. table[s] = f[Pick(s)] + table[s \ {Pick(s)}]
      BY <1>7 DEF SumStep
    <3>2. f[Pick(s)] \in Int /\ table[s \ {Pick(s)}] \in Int
      BY <1>0
    <3> QED  BY <3>1, <3>2
  <2>3. good \in SUBSET SUBSET S
    OBVIOUS
  <2> HIDE DEF good
  <2>4. good = SUBSET S
    BY <2>1, <2>2, <2>3, FiniteSubsets
  <2> QED  BY <2>4 DEF good
<1>9. table \in [SUBSET S -> Int]
  BY <1>6, <1>8
<1> QED  BY <1>7, <1>9 DEF table

LEMMA SumIsInt ==
  ASSUME NEW S, IsFiniteSet(S), NEW f \in [S -> Int]
  PROVE  SumFunction(f) \in Int
<1>1. SumFunction(f) = SumTable(f, S)[S]
  BY SumByTable
<1>2. SumTable(f, S) \in [SUBSET S -> Int] /\ S \in SUBSET S
  BY SumTableFacts
<1> HIDE DEF SumTable
<1> QED  BY <1>1, <1>2

\* Term by term.
LEMMA SumPlus ==
  ASSUME NEW S, IsFiniteSet(S), NEW f \in [S -> Int], NEW g \in [S -> Int], NEW h \in [S -> Int],
         \A x \in S : h[x] = f[x] + g[x]
  PROVE  SumFunction(h) = SumFunction(f) + SumFunction(g)
<1> DEFINE a == SumTable(f, S)
           b == SumTable(g, S)
           c == SumTable(h, S)
           good == {s \in SUBSET S : c[s] = a[s] + b[s]}
<1>1. /\ a \in [SUBSET S -> Int] /\ \A s \in SUBSET S : a[s] = SumStep(f, a, s)
      /\ b \in [SUBSET S -> Int] /\ \A s \in SUBSET S : b[s] = SumStep(g, b, s)
      /\ c \in [SUBSET S -> Int] /\ \A s \in SUBSET S : c[s] = SumStep(h, c, s)
  BY SumTableFacts
<1> HIDE DEF a, b, c
<1>2. {} \in good
  <2>1. a[{}] = 0 /\ b[{}] = 0 /\ c[{}] = 0
    BY <1>1 DEF SumStep
  <2> QED  BY <2>1
<1>3. \A s \in SUBSET S : s # {} /\ s \ {Pick(s)} \in good => s \in good
  <2> SUFFICES ASSUME NEW s \in SUBSET S, s # {}, s \ {Pick(s)} \in good PROVE s \in good
    OBVIOUS
  <2> DEFINE x == Pick(s)
             t == s \ {x}
  <2>1. x \in S /\ t \in SUBSET S
    BY DEF Pick
  <2>2. a[s] = f[x] + a[t] /\ b[s] = g[x] + b[t] /\ c[s] = h[x] + c[t]
    BY <1>1 DEF SumStep
  <2>3. c[t] = a[t] + b[t]
    OBVIOUS
  <2> HIDE DEF x, t
  <2>4. h[x] = f[x] + g[x] /\ {f[x], g[x], a[t], b[t]} \subseteq Int
    BY <1>1, <2>1
  <2> QED  BY <2>2, <2>3, <2>4
<1>4. good \in SUBSET SUBSET S
  OBVIOUS
<1> HIDE DEF good
<1>5. good = SUBSET S
  BY <1>2, <1>3, <1>4, FiniteSubsets
<1>6. c[S] = a[S] + b[S]
  BY <1>5 DEF good
<1> QED  BY <1>6, SumByTable DEF a, b, c

\* The same amount for some.
LEMMA SumWhere ==
  ASSUME NEW S, IsFiniteSet(S), NEW T \in SUBSET S, NEW amount \in Int, NEW f \in [S -> Int],
         \A x \in S : f[x] = IF x \in T THEN amount ELSE 0
  PROVE  SumFunction(f) = amount * Cardinality(T)
<1> DEFINE a == SumTable(f, S)
           good == {s \in SUBSET S : a[s] = amount * Cardinality(s \cap T)}
<1>1. a \in [SUBSET S -> Int] /\ \A s \in SUBSET S : a[s] = SumStep(f, a, s)
  BY SumTableFacts
<1> HIDE DEF a
<1>2. {} \in good
  <2>1. a[{}] = 0 /\ {} \cap T = {} /\ Cardinality({}) = 0
    BY <1>1, FS_EmptySet DEF SumStep
  <2>2. a[{}] = amount * Cardinality({} \cap T)
    BY <2>1
  <2> QED  BY <2>2
<1>3. \A s \in SUBSET S : s # {} /\ s \ {Pick(s)} \in good => s \in good
  <2> SUFFICES ASSUME NEW s \in SUBSET S, s # {}, s \ {Pick(s)} \in good PROVE s \in good
    OBVIOUS
  <2> DEFINE x == Pick(s)
             t == s \ {x}
             n == Cardinality(t \cap T)
  <2>1. x \in S /\ x \in s /\ t \in SUBSET S
    BY DEF Pick
  <2>2. a[s] = f[x] + a[t]
    BY <1>1 DEF SumStep
  <2>3. a[t] = amount * n
    OBVIOUS
  <2>4. IsFiniteSet(s \cap T) /\ IsFiniteSet(t \cap T) /\ n \in Nat /\ Cardinality(s \cap T) \in Nat
    BY FS_Subset, FS_CardinalityType
  <2>5. CASE x \in T
    <3>1. t \cap T = (s \cap T) \ {x} /\ x \in s \cap T
      BY <2>1, <2>5
    <3>2. n = Cardinality(s \cap T) - 1
      <4>1. Cardinality((s \cap T) \ {x}) = Cardinality(s \cap T) - 1
        BY <2>4, <3>1, FS_RemoveElement
      <4> QED  BY <3>1, <4>1
    <3>3. Cardinality(s \cap T) = n + 1
      BY <2>4, <3>2
    <3>4. f[x] = amount
      BY <2>1, <2>5
    <3> HIDE DEF x, t, n
    <3>5. amount * (n + 1) = amount + amount * n
      BY <2>4
    <3>6. a[s] = amount * Cardinality(s \cap T)
      BY <2>2, <2>3, <3>3, <3>4, <3>5
    <3> QED  BY <3>6
  <2>6. CASE x \notin T
    <3>1. t \cap T = s \cap T /\ f[x] = 0
      BY <2>1, <2>6
    <3>2. n = Cardinality(s \cap T)
      BY <3>1
    <3>4. amount * n \in Int
      BY <2>4
    <3> HIDE DEF x, t, n
    <3>3. a[s] = amount * Cardinality(s \cap T)
      BY <2>2, <2>3, <3>1, <3>2, <3>4
    <3> QED  BY <3>3
  <2> QED  BY <2>5, <2>6
<1>4. good \in SUBSET SUBSET S
  OBVIOUS
<1> HIDE DEF good
<1>5. good = SUBSET S
  BY <1>2, <1>3, <1>4, FiniteSubsets
<1>6. a[S] = amount * Cardinality(S \cap T) /\ S \cap T = T
  BY <1>5 DEF good
<1> QED  BY <1>6, SumByTable DEF a

LEMMA SumOfZeros ==
  ASSUME NEW S, IsFiniteSet(S), NEW f \in [S -> Int], \A x \in S : f[x] = 0
  PROVE  SumFunction(f) = 0
<1>1. SumFunction(f) = 0 * Cardinality(S)
  BY SumWhere
<1> QED  BY <1>1, FS_CardinalityType

\* A sum of numbers that are not negative is not negative.
LEMMA SumAtLeastZero ==
  ASSUME NEW S, IsFiniteSet(S), NEW f \in [S -> Int], \A x \in S : f[x] >= 0
  PROVE  SumFunction(f) >= 0
<1> DEFINE a == SumTable(f, S)
           good == {s \in SUBSET S : a[s] >= 0}
<1>1. a \in [SUBSET S -> Int] /\ \A s \in SUBSET S : a[s] = SumStep(f, a, s)
  BY SumTableFacts
<1> HIDE DEF a
<1>2. {} \in good /\ good \in SUBSET SUBSET S
  <2>1. a[{}] = 0
    BY <1>1 DEF SumStep
  <2>2. a[{}] >= 0
    BY <2>1
  <2> QED  BY <2>2
<1>3. \A s \in SUBSET S : s # {} /\ s \ {Pick(s)} \in good => s \in good
  <2> SUFFICES ASSUME NEW s \in SUBSET S, s # {}, s \ {Pick(s)} \in good PROVE a[s] >= 0
    OBVIOUS
  <2> DEFINE x == Pick(s)
             t == s \ {x}
  <2>1. x \in S /\ t \in SUBSET S
    BY DEF Pick
  <2>2. a[s] = f[x] + a[t]
    BY <1>1 DEF SumStep
  <2>3. a[t] >= 0 /\ a[t] \in Int /\ f[x] \in Int /\ f[x] >= 0
    BY <1>1, <2>1
  <2> HIDE DEF x, t
  <2> QED  BY <2>2, <2>3
<1> HIDE DEF good
<1>4. good = SUBSET S
  BY <1>2, <1>3, FiniteSubsets
<1>5. a[S] >= 0
  BY <1>4 DEF good
<1> QED  BY <1>5, SumByTable DEF a

\* One term changes.
LEMMA SumChange ==
  ASSUME NEW S, IsFiniteSet(S), NEW f \in [S -> Int], NEW g \in [S -> Int], NEW x \in S,
         \A y \in S \ {x} : g[y] = f[y]
  PROVE  SumFunction(g) = SumFunction(f) + (g[x] - f[x])
<1> DEFINE amount == g[x] - f[x]
           d == [y \in S |-> IF y \in {x} THEN amount ELSE 0]
<1>1. amount \in Int /\ d \in [S -> Int] /\ {x} \in SUBSET S
  OBVIOUS
<1>2. \A y \in S : d[y] = IF y \in {x} THEN amount ELSE 0
  OBVIOUS
<1>3. \A y \in S : g[y] = f[y] + d[y]
  BY <1>1
<1> HIDE DEF d
<1>4. SumFunction(d) = amount * Cardinality({x})
  BY <1>1, <1>2, SumWhere
<1>5. SumFunction(g) = SumFunction(f) + SumFunction(d)
  BY <1>1, <1>3, SumPlus
<1>6. Cardinality({x}) = 1
  BY FS_Singleton
<1>7. amount * 1 = amount
  BY <1>1
<1> QED  BY <1>4, <1>5, <1>6, <1>7

\* The values a function takes on a finite set are finitely many.
LEMMA FiniteImage ==
  ASSUME NEW S, IsFiniteSet(S), NEW f
  PROVE  IsFiniteSet({f[x] : x \in S})
<1> DEFINE T == {f[x] : x \in S}
           g == [x \in S |-> f[x]]
<1>1. g \in Surjection(S, T)
  BY DEF Surjection
<1> HIDE DEF g
<1> QED  BY <1>1, FS_Surjection

\* A finite set of numbers has a largest.
LEMMA Largest ==
  ASSUME NEW T \in SUBSET Nat, IsFiniteSet(T), T # {}
  PROVE  \E n \in T : \A m \in T : m <= n
<1> DEFINE good == {s \in SUBSET T : s = {} \/ \E n \in s : \A m \in s : m <= n}
<1>1. {} \in good /\ good \in SUBSET SUBSET T
  OBVIOUS
<1>2. ASSUME NEW s \in SUBSET T, s # {}, s \ {Pick(s)} \in good PROVE s \in good
  <2> DEFINE x == Pick(s)
  <2>1. x \in s /\ x \in Nat
    BY <1>2 DEF Pick
  <2> HIDE DEF x
  <2>2. CASE s \ {x} = {}
    <3>1. \A m \in s : m <= x
      BY <2>1, <2>2
    <3> QED  BY <2>1, <3>1
  <2>3. CASE s \ {x} # {}
    <3>1. PICK n \in s \ {x} : \A m \in s \ {x} : m <= n
      BY <1>2, <2>3 DEF x
    <3>2. n \in Nat /\ n \in s
      OBVIOUS
    <3>3. CASE x <= n
      <4>1. \A m \in s : m <= n
        BY <3>1, <3>3
      <4> QED  BY <3>2, <4>1
    <3>4. CASE ~(x <= n)
      <4>1. \A m \in s : m <= x
        <5> SUFFICES ASSUME NEW m \in s PROVE m <= x
          OBVIOUS
        <5>1. m \in Nat /\ (m = x \/ m <= n)
          BY <3>1
        <5> QED  BY <2>1, <3>2, <3>4, <5>1
      <4> QED  BY <2>1, <4>1
    <3> QED  BY <3>3, <3>4
  <2> QED  BY <2>2, <2>3
<1>3. \A s \in SUBSET T : s # {} /\ s \ {Pick(s)} \in good => s \in good
  BY <1>2
<1> HIDE DEF good
<1>4. good = SUBSET T
  BY <1>1, <1>3, FiniteSubsets
<1>5. T \in good
  BY <1>4
<1> QED  BY <1>5 DEF good

\* A finite set, counted by parts.
LEMMA CountByParts ==
  ASSUME NEW S, IsFiniteSet(S), NEW C, IsFiniteSet(C), NEW h, \A x \in S : h[x] \in C,
         NEW f, f = [c \in C |-> Cardinality({x \in S : h[x] = c})]
  PROVE  f \in [C -> Nat] /\ SumFunction(f) = Cardinality(S)
<1> DEFINE a == SumTable(f, C)
           Part(s) == {x \in S : h[x] \in s}
           good == {s \in SUBSET C : a[s] = Cardinality(Part(s))}
<1>0. \A T \in SUBSET S : IsFiniteSet(T) /\ Cardinality(T) \in Nat
  BY FS_Subset, FS_CardinalityType
<1>1. f \in [C -> Nat] /\ f \in [C -> Int]
  BY <1>0
<1>2. a \in [SUBSET C -> Int] /\ \A s \in SUBSET C : a[s] = SumStep(f, a, s)
  BY <1>1, SumTableFacts
<1> HIDE DEF a
<1>3. {} \in good
  <2>1. a[{}] = 0 /\ Part({}) = {} /\ Cardinality({}) = 0
    BY <1>2, FS_EmptySet DEF SumStep
  <2> QED  BY <2>1
<1>4. \A s \in SUBSET C : s # {} /\ s \ {Pick(s)} \in good => s \in good
  <2> SUFFICES ASSUME NEW s \in SUBSET C, s # {}, s \ {Pick(s)} \in good PROVE s \in good
    OBVIOUS
  <2>1. PICK c \in s : c = Pick(s)
    BY DEF Pick
  <2>2. a[s] = f[c] + a[s \ {c}]
    BY <1>2, <2>1 DEF SumStep
  <2>3. a[s \ {c}] = Cardinality(Part(s \ {c}))
    BY <2>1
  <2> DEFINE P == Part(s \ {c})
             Q == {x \in S : h[x] = c}
  <2>4. Part(s) = P \cup Q /\ P \cap Q = {} /\ P \in SUBSET S /\ Q \in SUBSET S
    BY <2>1
  <2>5. f[c] = Cardinality(Q)
    BY <2>1
  <2>6. IsFiniteSet(P) /\ IsFiniteSet(Q) /\ Cardinality(P) \in Nat /\ Cardinality(Q) \in Nat
    BY <1>0, <2>4
  <2> HIDE DEF P, Q
  <2>7. Cardinality(P \cup Q) = Cardinality(P) + Cardinality(Q)
    <3>1. Cardinality(P \cup Q) = Cardinality(P) + Cardinality(Q) - Cardinality(P \cap Q)
      BY <2>6, FS_Union
    <3>2. Cardinality(P \cap Q) = 0
      BY <2>4, FS_EmptySet
    <3> QED  BY <2>6, <3>1, <3>2
  <2>8. a[s \ {c}] = Cardinality(P) /\ Part(s) = P \cup Q
    BY <2>3, <2>4 DEF P
  <2> HIDE DEF Part
  <2>9. a[s] = Cardinality(Part(s))
    BY <2>2, <2>5, <2>6, <2>7, <2>8
  <2> QED  BY <2>9
<1>5. good \in SUBSET SUBSET C
  OBVIOUS
<1> HIDE DEF good
<1>6. good = SUBSET C
  BY <1>3, <1>4, <1>5, FiniteSubsets
<1>7. a[C] = Cardinality(Part(C)) /\ Part(C) = S
  BY <1>6 DEF good
<1>8. DOMAIN f = C
  OBVIOUS
<1>9. SumFunction(f) = a[C]
  BY <1>8, SumByTable DEF a
<1> QED  BY <1>1, <1>7, <1>9

\* Two sets, one element of the one for each of the other.
LEMMA CountOneToOne ==
  ASSUME NEW S, IsFiniteSet(S), NEW T, NEW f \in [S -> T],
         \A x, y \in S : f[x] = f[y] => x = y,
         \A t \in T : \E x \in S : f[x] = t
  PROVE  IsFiniteSet(T) /\ Cardinality(T) = Cardinality(S)
<1>1. f \in Surjection(S, T) /\ f \in Injection(S, T)
  BY DEF Surjection, Injection, IsInjective
<1> QED  BY <1>1, FS_Surjection

LEMMA CountUnion ==
  ASSUME NEW S, NEW T, IsFiniteSet(S), IsFiniteSet(T), S \cap T = {}
  PROVE  /\ IsFiniteSet(S \cup T) /\ Cardinality(S) \in Nat /\ Cardinality(T) \in Nat
         /\ Cardinality(S \cup T) = Cardinality(S) + Cardinality(T)
<1>1. IsFiniteSet(S \cup T) /\ Cardinality(S \cup T) = Cardinality(S) + Cardinality(T) - Cardinality(S \cap T)
  BY FS_Union
<1>2. Cardinality(S \cap T) = 0
  BY FS_EmptySet
<1>3. Cardinality(S) \in Nat /\ Cardinality(T) \in Nat
  BY FS_CardinalityType
<1> QED  BY <1>1, <1>2, <1>3

\* The largest of some numbers below a bound.
LEMMA MaxFacts ==
  ASSUME NEW T \in SUBSET Nat, T # {}, NEW n \in Nat, \A m \in T : m <= n
  PROVE  Max(T) \in T /\ \A m \in T : m <= Max(T)
<1>1. IsFiniteSet(T)
  BY FS_BoundedSetOfNaturals
<1>2. PICK k \in T : \A m \in T : m <= k
  BY <1>1, Largest
<1>3. \A m \in T : k >= m
  BY <1>2
<1> QED  BY <1>3 DEF Max

\* Any subset, if what holds of a subset less any one element holds of it.
LEMMA SubsetsOneLess ==
  ASSUME NEW S, IsFiniteSet(S), NEW good \in SUBSET SUBSET S,
         \A s \in SUBSET S : (\A x \in s : s \ {x} \in good) => s \in good
  PROVE  good = SUBSET S
<1> DEFINE bad == (SUBSET S) \ good
           sizes == {Cardinality(s) : s \in bad}
<1>0. \A s \in SUBSET S : IsFiniteSet(s) /\ Cardinality(s) \in Nat
  BY FS_Subset, FS_CardinalityType
<1>1. SUFFICES ASSUME bad # {} PROVE FALSE
  OBVIOUS
<1>2. sizes \in SUBSET Nat /\ sizes # {}
  BY <1>0, <1>1
<1> HIDE DEF sizes
<1>3. PICK n \in sizes : \A m \in sizes : n <= m
  BY <1>2, Smallest
<1>4. PICK s \in bad : Cardinality(s) = n
  BY <1>3 DEF sizes
<1>5. ASSUME NEW x \in s PROVE s \ {x} \in good
  <2>1. /\ Cardinality(s \ {x}) = Cardinality(s) - 1 /\ Cardinality(s) \in Nat
        /\ s \ {x} \in SUBSET S
    BY <1>0, <1>4, FS_RemoveElement
  <2>2. Cardinality(s \ {x}) \notin sizes
    BY <1>2, <1>3, <1>4, <2>1
  <2> QED  BY <2>1, <2>2 DEF sizes
<1> QED  BY <1>4, <1>5

\* The order of the terms does not matter.
LEMMA SumAnyFirst ==
  ASSUME NEW S, IsFiniteSet(S), NEW f \in [S -> Int], NEW s \in SUBSET S, NEW x \in s
  PROVE  SumTable(f, S)[s] = f[x] + SumTable(f, S)[s \ {x}]
<1> DEFINE a == SumTable(f, S)
           good == {t \in SUBSET S : \A y \in t : a[t] = f[y] + a[t \ {y}]}
<1>1. a \in [SUBSET S -> Int] /\ \A t \in SUBSET S : a[t] = SumStep(f, a, t)
  BY SumTableFacts
<1> HIDE DEF a
<1>2. ASSUME NEW t \in SUBSET S, \A y \in t : t \ {y} \in good, NEW y \in t
      PROVE  a[t] = f[y] + a[t \ {y}]
  <2>1. PICK p \in t : p = Pick(t)
    BY <1>2 DEF Pick
  <2>2. a[t] = f[p] + a[t \ {p}]
    BY <1>1, <2>1 DEF SumStep
  <2>3. CASE y = p
    BY <2>2, <2>3
  <2>4. CASE y # p
    <3>1. a[t \ {p}] = f[y] + a[(t \ {p}) \ {y}]
      BY <1>2, <2>4
    <3>2. a[t \ {y}] = f[p] + a[(t \ {y}) \ {p}]
      BY <1>2, <2>4
    <3>3. PICK r \in SUBSET S : r = (t \ {p}) \ {y} /\ r = (t \ {y}) \ {p}
      OBVIOUS
    <3>4. f[p] \in Int /\ f[y] \in Int /\ a[r] \in Int
      BY <1>1
    <3>5. a[t] = f[p] + (f[y] + a[r]) /\ a[t \ {y}] = f[p] + a[r]
      BY <2>2, <3>1, <3>2, <3>3
    <3> QED  BY <3>4, <3>5
  <2> QED  BY <2>3, <2>4
<1>3. \A t \in SUBSET S : (\A y \in t : t \ {y} \in good) => t \in good
  BY <1>2
<1>4. good \in SUBSET SUBSET S
  OBVIOUS
<1> HIDE DEF good
<1>5. good = SUBSET S
  BY <1>3, <1>4, SubsetsOneLess
<1> QED  BY <1>5 DEF good, a

\* A sum over some of the elements.
LEMMA SumOfSubset ==
  ASSUME NEW S, IsFiniteSet(S), NEW f \in [S -> Int], NEW T \in SUBSET S,
         NEW g, g = [x \in T |-> f[x]]
  PROVE  SumFunction(g) = SumTable(f, S)[T]
<1> DEFINE a == SumTable(f, S)
           b == SumTable(g, T)
           good == {s \in SUBSET T : a[s] = b[s]}
<1>0. g \in [T -> Int] /\ IsFiniteSet(T) /\ DOMAIN g = T
  BY FS_Subset
<1>1. /\ a \in [SUBSET S -> Int] /\ \A s \in SUBSET S : a[s] = SumStep(f, a, s)
      /\ b \in [SUBSET T -> Int] /\ \A s \in SUBSET T : b[s] = SumStep(g, b, s)
  BY <1>0, SumTableFacts
<1>2. SumFunction(g) = b[T]
  BY <1>0, SumByTable
<1> HIDE DEF a, b
<1>3. {} \in good
  <2>1. a[{}] = 0 /\ b[{}] = 0
    BY <1>1 DEF SumStep
  <2> QED  BY <2>1
<1>4. \A s \in SUBSET T : s # {} /\ s \ {Pick(s)} \in good => s \in good
  <2> SUFFICES ASSUME NEW s \in SUBSET T, s # {}, s \ {Pick(s)} \in good PROVE s \in good
    OBVIOUS
  <2>1. PICK p \in s : p = Pick(s)
    BY DEF Pick
  <2>2. s \in SUBSET S /\ p \in T
    OBVIOUS
  <2>3. a[s] = f[p] + a[s \ {p}] /\ b[s] = g[p] + b[s \ {p}]
    BY <1>1, <2>1, <2>2 DEF SumStep
  <2>4. f[p] = g[p] /\ a[s \ {p}] = b[s \ {p}]
    BY <2>1, <2>2
  <2>5. a[s] = b[s]
    BY <2>3, <2>4
  <2> QED  BY <2>5
<1>5. good \in SUBSET SUBSET T
  OBVIOUS
<1> HIDE DEF good
<1>6. good = SUBSET T
  BY <1>0, <1>3, <1>4, <1>5, FiniteSubsets
<1>7. a[T] = b[T]
  BY <1>6 DEF good
<1> QED  BY <1>2, <1>7 DEF a

\* One term and the rest.
LEMMA SumSplit ==
  ASSUME NEW S, IsFiniteSet(S), NEW f \in [S -> Int], NEW x \in S,
         NEW g, g = [y \in S \ {x} |-> f[y]]
  PROVE  SumFunction(f) = f[x] + SumFunction(g)
<1>1. SumFunction(f) = SumTable(f, S)[S]
  <2>1. DOMAIN f = S
    OBVIOUS
  <2> QED  BY <2>1, SumByTable
<1>2. S \in SUBSET S /\ S \ {x} \in SUBSET S
  OBVIOUS
<1>3. SumFunction(g) = SumTable(f, S)[S \ {x}]
  BY <1>2, SumOfSubset
<1> QED  BY <1>1, <1>2, <1>3, SumAnyFirst

\* Terms that are nothing.
LEMMA SumSupport ==
  ASSUME NEW S, IsFiniteSet(S), NEW f \in [S -> Int], NEW T \in SUBSET S,
         \A x \in S \ T : f[x] = 0, NEW g, g = [x \in T |-> f[x]]
  PROVE  SumFunction(f) = SumFunction(g)
<1> DEFINE a == SumTable(f, S)
           good == {s \in SUBSET (S \ T) : a[T \cup s] = a[T]}
<1>0. IsFiniteSet(S \ T)
  BY FS_Subset
<1>1. a \in [SUBSET S -> Int]
  BY SumTableFacts
<1>2. \A s \in SUBSET S : \A x \in s : a[s] = f[x] + a[s \ {x}]
  BY SumAnyFirst
<1>3. SumFunction(f) = a[S]
  <2>1. DOMAIN f = S
    OBVIOUS
  <2> QED  BY <2>1, SumByTable
<1>4. SumFunction(g) = a[T]
  BY SumOfSubset
<1> HIDE DEF a
<1>5. {} \in good
  <2>1. T \cup {} = T
    OBVIOUS
  <2> QED  BY <2>1
<1>6. \A s \in SUBSET (S \ T) : s # {} /\ s \ {Pick(s)} \in good => s \in good
  <2> SUFFICES ASSUME NEW s \in SUBSET (S \ T), s # {}, s \ {Pick(s)} \in good
               PROVE  a[T \cup s] = a[T]
    OBVIOUS
  <2>1. PICK p \in s : p = Pick(s)
    BY DEF Pick
  <2>2. T \cup s \in SUBSET S /\ (T \cup s) \ {p} = T \cup (s \ {p}) /\ f[p] = 0
    OBVIOUS
  <2>3. a[T \cup s] = f[p] + a[(T \cup s) \ {p}]
    BY <1>2, <2>2
  <2>4. a[T \cup (s \ {p})] = a[T] /\ a[T] \in Int
    BY <1>1, <2>1
  <2>5. a[T \cup s] = 0 + a[T]
    BY <2>2, <2>3, <2>4, Zenon
  <2> QED  BY <2>4, <2>5
<1>7. good \in SUBSET SUBSET (S \ T)
  OBVIOUS
<1> HIDE DEF good
<1>8. good = SUBSET (S \ T)
  BY <1>0, <1>5, <1>6, <1>7, FiniteSubsets
<1>9. S \ T \in good /\ T \cup (S \ T) = S
  BY <1>8
<1> QED  BY <1>3, <1>4, <1>9 DEF good

\* A sequence whose elements follow each other by R.
Ordered(s, R) == \A i, j \in 1..Len(s) : i < j => <<s[i], s[j]>> \in R

\* A relation that puts two elements in one order at most.
OneWay(R) == \A x, y : <<x, y>> \in R => <<y, x>> \notin R

LEMMA OrderedInjective ==
  ASSUME NEW S, NEW s \in Seq(S), NEW R, OneWay(R), Ordered(s, R)
  PROVE  IsInjective(s)
<1>1. ASSUME NEW i \in 1..Len(s), NEW j \in 1..Len(s), s[i] = s[j] PROVE i = j
  <2>1. ~(i < j) /\ ~(j < i)
    BY <1>1 DEF Ordered, OneWay
  <2> QED  BY <2>1
<1> QED  BY <1>1, InjectiveElements

\* The order may be any other that agrees on the elements.
LEMMA OrderedSame ==
  ASSUME NEW S, NEW s \in Seq(S), NEW R, NEW Q, Ordered(s, R),
         \A x, y \in ToSet(s) : <<x, y>> \in R => <<x, y>> \in Q
  PROVE  Ordered(s, Q)
<1>1. ASSUME NEW i \in 1..Len(s), NEW j \in 1..Len(s), i < j PROVE <<s[i], s[j]>> \in Q
  <2>1. s[i] \in ToSet(s) /\ s[j] \in ToSet(s)
    BY ToSetElements
  <2> QED  BY <1>1, <2>1 DEF Ordered
<1> QED  BY <1>1 DEF Ordered

LEMMA OrderedRemove ==
  ASSUME NEW S, NEW s \in Seq(S), NEW R, Ordered(s, R), IsInjective(s), NEW u
  PROVE  Ordered(RemoveFirst(s, u), R)
<1>1. CASE u \notin ToSet(s)
  BY <1>1, RemoveFirstAbsent
<1>2. CASE u \in ToSet(s)
  <2>1. PICK k \in 1..Len(s) : s[k] = u
    BY <1>2, ToSetElements
  <2> DEFINE t == RemoveAt(s, k)
  <2>2. RemoveFirst(s, u) = t
    BY <2>1, RemoveFirstPresent
  <2>3. /\ Len(t) = Len(s) - 1 /\ Len(s) \in Nat
        /\ \A i \in 1..(Len(s) - 1) : t[i] = IF i < k THEN s[i] ELSE s[i + 1]
    BY RemoveAtElements
  <2> HIDE DEF t
  <2>4. ASSUME NEW i \in 1..Len(t), NEW j \in 1..Len(t), i < j PROVE <<t[i], t[j]>> \in R
    <3> DEFINE a == IF i < k THEN i ELSE i + 1
               b == IF j < k THEN j ELSE j + 1
    <3>1. a \in 1..Len(s) /\ b \in 1..Len(s) /\ a < b /\ t[i] = s[a] /\ t[j] = s[b]
      BY <2>3, <2>4
    <3> HIDE DEF a, b
    <3> QED  BY <3>1 DEF Ordered
  <2> QED  BY <2>2, <2>4 DEF Ordered
<1> QED  BY <1>1, <1>2

LEMMA OrderedConcat ==
  ASSUME NEW S, NEW s \in Seq(S), NEW t \in Seq(S), NEW R, Ordered(s, R), Ordered(t, R),
         \A x \in ToSet(s), y \in ToSet(t) : <<x, y>> \in R
  PROVE  Ordered(s \o t, R)
<1> DEFINE c == s \o t
<1>1. /\ Len(c) = Len(s) + Len(t) /\ Len(s) \in Nat /\ Len(t) \in Nat
      /\ \A i \in 1..(Len(s) + Len(t)) : c[i] = IF i <= Len(s) THEN s[i] ELSE t[i - Len(s)]
  BY ConcatProperties
<1> HIDE DEF c
<1>2. ASSUME NEW i \in 1..Len(c), NEW j \in 1..Len(c), i < j PROVE <<c[i], c[j]>> \in R
  <2>1. CASE i <= Len(s) /\ j <= Len(s)
    <3>1. i \in 1..Len(s) /\ j \in 1..Len(s) /\ c[i] = s[i] /\ c[j] = s[j]
      BY <1>1, <2>1
    <3> QED  BY <1>2, <3>1 DEF Ordered
  <2>2. CASE i <= Len(s) /\ ~(j <= Len(s))
    <3>1. i \in 1..Len(s) /\ j - Len(s) \in 1..Len(t) /\ c[i] = s[i] /\ c[j] = t[j - Len(s)]
      BY <1>1, <2>2
    <3>2. s[i] \in ToSet(s) /\ t[j - Len(s)] \in ToSet(t)
      BY <3>1, ToSetElements
    <3> QED  BY <3>1, <3>2
  <2>3. CASE ~(i <= Len(s)) /\ ~(j <= Len(s))
    <3>1. /\ i - Len(s) \in 1..Len(t) /\ j - Len(s) \in 1..Len(t) /\ i - Len(s) < j - Len(s)
          /\ c[i] = t[i - Len(s)] /\ c[j] = t[j - Len(s)]
      BY <1>1, <1>2, <2>3
    <3> QED  BY <3>1 DEF Ordered
  <2> QED  BY <1>1, <1>2, <2>1, <2>2, <2>3
<1> QED  BY <1>2 DEF Ordered, c

\* The two parts of an ordered sequence.
LEMMA OrderedParts ==
  ASSUME NEW S, NEW s \in Seq(S), NEW t \in Seq(S), NEW R, Ordered(s \o t, R)
  PROVE  /\ Ordered(s, R) /\ Ordered(t, R)
         /\ \A x \in ToSet(s), y \in ToSet(t) : <<x, y>> \in R
<1> DEFINE c == s \o t
<1>1. /\ Len(c) = Len(s) + Len(t) /\ Len(s) \in Nat /\ Len(t) \in Nat
      /\ \A i \in 1..(Len(s) + Len(t)) : c[i] = IF i <= Len(s) THEN s[i] ELSE t[i - Len(s)]
  BY ConcatProperties
<1>0. Ordered(c, R)
  OBVIOUS
<1> HIDE DEF c
<1>2. ASSUME NEW i \in 1..Len(s), NEW j \in 1..Len(s), i < j PROVE <<s[i], s[j]>> \in R
  <2>1. i \in 1..Len(c) /\ j \in 1..Len(c) /\ c[i] = s[i] /\ c[j] = s[j]
    BY <1>1
  <2> QED  BY <1>0, <1>2, <2>1 DEF Ordered
<1>3. ASSUME NEW i \in 1..Len(t), NEW j \in 1..Len(t), i < j PROVE <<t[i], t[j]>> \in R
  <2>1. /\ i + Len(s) \in 1..Len(c) /\ j + Len(s) \in 1..Len(c) /\ i + Len(s) < j + Len(s)
        /\ ~(i + Len(s) <= Len(s)) /\ ~(j + Len(s) <= Len(s))
        /\ i + Len(s) - Len(s) = i /\ j + Len(s) - Len(s) = j
    BY <1>1, <1>3
  <2>2. c[i + Len(s)] = t[i] /\ c[j + Len(s)] = t[j]
    BY <1>1, <2>1
  <2>3. <<c[i + Len(s)], c[j + Len(s)]>> \in R
    BY <1>0, <2>1 DEF Ordered
  <2> QED  BY <2>2, <2>3
<1>4. ASSUME NEW x \in ToSet(s), NEW y \in ToSet(t) PROVE <<x, y>> \in R
  <2>1. PICK i \in 1..Len(s) : s[i] = x
    BY ToSetElements
  <2>2. PICK j \in 1..Len(t) : t[j] = y
    BY ToSetElements
  <2>3. /\ i \in 1..Len(c) /\ j + Len(s) \in 1..Len(c) /\ i < j + Len(s) /\ i <= Len(s)
        /\ ~(j + Len(s) <= Len(s)) /\ j + Len(s) - Len(s) = j
    BY <1>1
  <2>4. c[i] = x /\ c[j + Len(s)] = y
    BY <1>1, <2>1, <2>2, <2>3
  <2>5. <<c[i], c[j + Len(s)]>> \in R
    BY <1>0, <2>3 DEF Ordered
  <2> QED  BY <2>4, <2>5
<1> QED  BY <1>2, <1>3, <1>4 DEF Ordered

LEMMA OrderedAppend ==
  ASSUME NEW S, NEW s \in Seq(S), NEW u \in S, NEW R, Ordered(s, R),
         \A x \in ToSet(s) : <<x, u>> \in R
  PROVE  Ordered(Append(s, u), R)
<1>1. <<u>> \in Seq(S) /\ Len(<<u>>) = 1 /\ ToSet(<<u>>) = {u}
  BY DEF ToSet
<1>2. Ordered(<<u>>, R)
  BY <1>1 DEF Ordered
<1>3. Ordered(s \o <<u>>, R)
  BY <1>1, <1>2, OrderedConcat
<1> QED  BY <1>3, AppendIsConcat

LEMMA OrderedTail ==
  ASSUME NEW S, NEW s \in Seq(S), NEW R, Ordered(s, R), s # << >>
  PROVE  Ordered(Tail(s), R)
<1> DEFINE t == Tail(s)
<1>1. /\ Len(t) = Len(s) - 1 /\ Len(s) \in Nat
      /\ \A i \in 1..Len(t) : t[i] = s[i + 1]
  BY HeadTailProperties
<1> HIDE DEF t
<1>2. ASSUME NEW i \in 1..Len(t), NEW j \in 1..Len(t), i < j PROVE <<t[i], t[j]>> \in R
  <2>1. i + 1 \in 1..Len(s) /\ j + 1 \in 1..Len(s) /\ i + 1 < j + 1
    BY <1>1, <1>2
  <2> QED  BY <1>1, <2>1 DEF Ordered
<1> QED  BY <1>2 DEF Ordered, t

\* There is one way to put a set in order.
LEMMA OrderedUnique ==
  ASSUME NEW S, NEW s \in Seq(S), NEW t \in Seq(S), NEW R, OneWay(R),
         Ordered(s, R), Ordered(t, R), ToSet(s) = ToSet(t)
  PROVE  s = t
<1> DEFINE Same(i) == /\ i \in 1..Len(s) <=> i \in 1..Len(t)
                      /\ i \in 1..Len(s) => s[i] = t[i]
           bad == {i \in Nat : ~Same(i)}
<1>0. Len(s) \in Nat /\ Len(t) \in Nat
  OBVIOUS
<1>1. /\ \A i \in 1..Len(s) : \E j \in 1..Len(t) : t[j] = s[i]
      /\ \A i \in 1..Len(t) : \E j \in 1..Len(s) : s[j] = t[i]
  BY ToSetElements
<1>2. bad = {}
  <2> SUFFICES ASSUME bad # {} PROVE FALSE
    OBVIOUS
  <2>1. PICK k \in bad : \A m \in bad : k <= m
    BY Smallest
  <2>2. \A i \in Nat : i < k => Same(i)
    BY <2>1
  <2>3. k \in Nat /\ ~Same(k)
    BY <2>1
  <2> HIDE DEF bad
  <2>4. ASSUME k \in 1..Len(s) PROVE k \in 1..Len(t) /\ (t[k] = s[k] \/ <<t[k], s[k]>> \in R)
    <3>1. PICK j \in 1..Len(t) : t[j] = s[k]
      BY <1>1, <2>4
    <3>2. ~(j < k)
      <4> SUFFICES ASSUME j < k PROVE FALSE
        OBVIOUS
      <4>1. j \in 1..Len(s) /\ s[j] = t[j]
        BY <2>2
      <4>2. <<s[j], s[k]>> \in R
        BY <2>4, <4>1 DEF Ordered
      <4> QED  BY <3>1, <4>1, <4>2 DEF OneWay
    <3>3. k \in 1..Len(t) /\ (k = j \/ k < j)
      BY <1>0, <2>4, <3>2
    <3> QED  BY <3>1, <3>3 DEF Ordered
  <2>5. ASSUME k \in 1..Len(t) PROVE k \in 1..Len(s) /\ (s[k] = t[k] \/ <<s[k], t[k]>> \in R)
    <3>1. PICK j \in 1..Len(s) : s[j] = t[k]
      BY <1>1, <2>5
    <3>2. ~(j < k)
      <4> SUFFICES ASSUME j < k PROVE FALSE
        OBVIOUS
      <4>1. j \in 1..Len(t) /\ s[j] = t[j]
        BY <2>2
      <4>2. <<t[j], t[k]>> \in R
        BY <2>5, <4>1 DEF Ordered
      <4> QED  BY <3>1, <4>1, <4>2 DEF OneWay
    <3>3. k \in 1..Len(s) /\ (k = j \/ k < j)
      BY <1>0, <2>5, <3>2
    <3> QED  BY <3>1, <3>3 DEF Ordered
  <2>6. k \in 1..Len(s) => s[k] = t[k]
    BY <2>4, <2>5 DEF OneWay
  <2> QED  BY <2>3, <2>4, <2>5, <2>6
<1>3. \A i \in Nat : Same(i)
  BY <1>2
<1>4. Len(s) = Len(t)
  <2>1. Len(s) # 0 => Len(s) \in 1..Len(t)
    BY <1>0, <1>3
  <2>2. Len(t) # 0 => Len(t) \in 1..Len(s)
    BY <1>0, <1>3
  <2> QED  BY <1>0, <2>1, <2>2
<1>5. \A i \in 1..Len(s) : s[i] = t[i]
  BY <1>3
<1> QED  BY <1>4, <1>5, SeqEqual

\* A listing of a finite set holds each of its elements once.
LEMMA ListingOfSet ==
  ASSUME NEW T, IsFiniteSet(T), NEW q \in SetToSeqs(T)
  PROVE  q \in Seq(T) /\ IsInjective(q) /\ ToSet(q) = T
<1> DEFINE n == Cardinality(T)
<1>1. n \in Nat
  BY FS_CardinalityType
<1>2. q \in [1..n -> T] /\ \A i, j \in 1..n : i # j => q[i] # q[j]
  BY DEF SetToSeqs
<1>3. q \in Seq(T) /\ IsInjective(q)
  BY <1>1, <1>2 DEF IsInjective
<1>4. q \in Injection(1..n, T)
  BY <1>2, <1>3 DEF Injection
<1>5. IsFiniteSet(1..n) /\ Cardinality(1..n) = n
  <2>1. 1 \in Int /\ n \in Int
    BY <1>1
  <2>2. IsFiniteSet(1..n) /\ Cardinality(1..n) = IF 1 > n THEN 0 ELSE n - 1 + 1
    BY <2>1, FS_Interval
  <2> HIDE DEF n
  <2> QED  BY <1>1, <2>2
<1>6. q \in Surjection(1..n, T)
  BY <1>4, <1>5, FS_Injection
<1> QED  BY <1>2, <1>3, <1>6 DEF Surjection, ToSet

\* And each sequence of that kind is one.
LEMMA IsListing ==
  ASSUME NEW T, NEW q \in Seq(T), IsInjective(q), ToSet(q) = T
  PROVE  q \in SetToSeqs(T) /\ IsFiniteSet(T)
<1>1. q \in [1..Len(q) -> T] /\ Len(q) \in Nat
  OBVIOUS
<1>2. q \in Bijection(1..Len(q), T)
  BY <1>1 DEF Bijection, Injection, Surjection, ToSet
<1>3. ExistsBijection(1..Len(q), T)
  BY <1>2 DEF ExistsBijection
<1>4. Cardinality(T) = Len(q)
  BY <1>1, <1>3, FS_CountingElements
<1>5. IsFiniteSet(T)
  BY <1>1, <1>3, FS_NatBijection
<1> QED  BY <1>1, <1>4, <1>5 DEF SetToSeqs, IsInjective

\* Any two different elements are in one order, and orders add up.
Orders(R, S) ==
  /\ OneWay(R)
  /\ \A x, y \in S : x # y => <<x, y>> \in R \/ <<y, x>> \in R
  /\ \A x, y, z \in S : <<x, y>> \in R /\ <<y, z>> \in R => <<x, z>> \in R

\* A finite set has an element that comes after all others.
LEMMA ComesLast ==
  ASSUME NEW S, IsFiniteSet(S), S # {}, NEW R, Orders(R, S)
  PROVE  \E m \in S : \A x \in S \ {m} : <<x, m>> \in R
<1> DEFINE good == {T \in SUBSET S : T = {} \/ \E m \in T : \A x \in T \ {m} : <<x, m>> \in R}
<1>1. good \in SUBSET SUBSET S
  OBVIOUS
<1>2. ASSUME NEW T \in SUBSET S, \A x \in T : T \ {x} \in good PROVE T \in good
  <2>1. CASE T = {}
    BY <2>1
  <2>2. CASE T # {}
    <3>1. PICK a \in T : TRUE
      BY <2>2
    <3>2. CASE T \ {a} = {}
      <4>1. \A x \in T \ {a} : <<x, a>> \in R
        BY <3>2
      <4> QED  BY <3>1, <4>1
    <3>3. CASE T \ {a} # {}
      <4>1. PICK m \in T \ {a} : \A x \in (T \ {a}) \ {m} : <<x, m>> \in R
        BY <1>2, <3>1, <3>3
      <4>2. a \in S /\ m \in S /\ a # m
        BY <4>1
      <4>3. CASE <<a, m>> \in R
        <5>1. \A x \in T \ {m} : <<x, m>> \in R
          BY <4>1, <4>3
        <5> QED  BY <4>1, <5>1
      <4>4. CASE <<m, a>> \in R
        <5>1. ASSUME NEW x \in T \ {a} PROVE <<x, a>> \in R
          <6>1. x \in S /\ (x = m \/ <<x, m>> \in R)
            BY <4>1
          <6> QED  BY <4>2, <4>4, <6>1 DEF Orders
        <5> QED  BY <3>1, <5>1
      <4> QED  BY <4>2, <4>3, <4>4 DEF Orders
    <3> QED  BY <3>2, <3>3
  <2> QED  BY <2>1, <2>2
<1>3. \A T \in SUBSET S : (\A x \in T : T \ {x} \in good) => T \in good
  BY <1>2
<1> HIDE DEF good
<1>4. S \in good
  <2>1. good = SUBSET S
    BY <1>1, <1>3, SubsetsOneLess
  <2> QED  BY <2>1
<1> QED  BY <1>4 DEF good

\* Every finite set can be put in order.
LEMMA OrderedExists ==
  ASSUME NEW S, IsFiniteSet(S), NEW R, Orders(R, S)
  PROVE  \E s \in SetToSeqs(S) : Ordered(s, R)
<1> DEFINE good == {T \in SUBSET S : \E s \in Seq(S) : IsInjective(s) /\ ToSet(s) = T /\ Ordered(s, R)}
<1>1. good \in SUBSET SUBSET S
  OBVIOUS
<1>2. ASSUME NEW T \in SUBSET S, \A x \in T : T \ {x} \in good PROVE T \in good
  <2>1. CASE T = {}
    <3>1. << >> \in Seq(S) /\ IsInjective(<< >>) /\ ToSet(<< >>) = {} /\ Ordered(<< >>, R)
      BY DEF IsInjective, ToSet, Ordered
    <3> QED  BY <2>1, <3>1
  <2>2. CASE T # {}
    <3>1. Orders(R, T) /\ IsFiniteSet(T)
      BY FS_Subset DEF Orders
    <3>2. PICK m \in T : \A x \in T \ {m} : <<x, m>> \in R
      BY <2>2, <3>1, ComesLast
    <3>3. PICK s \in Seq(S) : IsInjective(s) /\ ToSet(s) = T \ {m} /\ Ordered(s, R)
      BY <1>2
    <3>4. m \in S /\ m \notin ToSet(s)
      BY <3>3
    <3>5. Append(s, m) \in Seq(S) /\ IsInjective(Append(s, m)) /\ ToSet(Append(s, m)) = ToSet(s) \cup {m}
      BY <3>3, <3>4, AppendFacts
    <3>6. Ordered(Append(s, m), R)
      BY <3>2, <3>3, <3>4, OrderedAppend
    <3>7. ToSet(Append(s, m)) = T
      BY <3>3, <3>5
    <3> QED  BY <3>5, <3>6, <3>7
  <2> QED  BY <2>1, <2>2
<1>3. \A T \in SUBSET S : (\A x \in T : T \ {x} \in good) => T \in good
  BY <1>2
<1> HIDE DEF good
<1>4. S \in good
  <2>1. good = SUBSET S
    BY <1>1, <1>3, SubsetsOneLess
  <2> QED  BY <2>1
<1>5. PICK s \in Seq(S) : IsInjective(s) /\ ToSet(s) = S /\ Ordered(s, R)
  BY <1>4 DEF good
<1> QED  BY <1>5, IsListing

\* What is defined step by step along 1..n exists.
Stepwise(f, V, n, base, step) ==
  /\ f \in [0..n -> V] /\ f[0] = base
  /\ \A k \in 1..n : f[k] = step[<<k, f[k - 1]>>]

LEMMA Recursion ==
  ASSUME NEW V, NEW n \in Nat, NEW base \in V, NEW step \in [(1..n) \X V -> V]
  PROVE  \E f : Stepwise(f, V, n, base, step)
<1> DEFINE Upto(m) == \E f : Stepwise(f, V, m, base, step)
           bad == {m \in 0..n : ~Upto(m)}
<1>0. SUFFICES ASSUME bad # {} PROVE FALSE
  <2>1. bad = {} => n \notin bad
    OBVIOUS
  <2>2. n \in 0..n
    OBVIOUS
  <2>3. bad = {} => Upto(n)
    BY <2>1, <2>2
  <2> QED  BY <2>3
<1>2. PICK m \in bad : \A k \in bad : m <= k
  <2>1. bad \in SUBSET Nat
    OBVIOUS
  <2> HIDE DEF bad
  <2> QED  BY <1>0, <2>1, Smallest
<1>3. m \in 0..n /\ ~Upto(m)
  BY <1>2
<1>4. CASE m = 0
  <2>1. [i \in 0..0 |-> base] \in [0..0 -> V]
    OBVIOUS
  <2>2. [i \in 0..0 |-> base][0] = base
    OBVIOUS
  <2>3. \A k \in 1..0 : FALSE
    OBVIOUS
  <2>4. Upto(0)
    BY <2>1, <2>2, <2>3 DEF Stepwise
  <2> QED  BY <1>3, <1>4, <2>4
<1>5. CASE m # 0
  <2>1. m - 1 \in 0..n
    BY <1>3, <1>5
  <2>0. m - 1 \notin bad
    <3>1. ~(m <= m - 1)
      BY <1>3
    <3> HIDE DEF bad
    <3> QED  BY <1>2, <3>1
  <2>9. Upto(m - 1)
    <3> HIDE DEF Upto
    <3> QED  BY <2>0, <2>1
  <2>2. PICK f : /\ f \in [0..(m - 1) -> V] /\ f[0] = base
                 /\ \A k \in 1..(m - 1) : f[k] = step[<<k, f[k - 1]>>]
    BY <2>9 DEF Stepwise
  <2> DEFINE g == [i \in 0..m |-> IF i = m THEN step[<<m, f[m - 1]>>] ELSE f[i]]
  <2>3. m \in 1..n /\ f[m - 1] \in V
    BY <1>3, <1>5, <2>2
  <2>4. g \in [0..m -> V]
    <3>1. step[<<m, f[m - 1]>>] \in V
      BY <2>3
    <3>2. \A i \in 0..m : i # m => i \in 0..(m - 1)
      BY <1>3
    <3>3. \A i \in 0..m : i # m => f[i] \in V
      BY <2>2, <3>2
    <3> QED  BY <3>1, <3>3
  <2>5. g[0] = base
    BY <1>3, <1>5, <2>2
  <2>6. ASSUME NEW k \in 1..m PROVE g[k] = step[<<k, g[k - 1]>>]
    <3>1. k - 1 \in 0..m /\ k - 1 # m /\ g[k - 1] = f[k - 1]
      BY <1>3
    <3>2. CASE k = m
      BY <3>1, <3>2
    <3>3. CASE k # m
      <4>1. k \in 1..(m - 1) /\ k \in 0..m
        BY <1>3, <3>3
      <4> QED  BY <2>2, <3>1, <3>3, <4>1
    <3> QED  BY <3>2, <3>3
  <2> HIDE DEF g
  <2>7. Upto(m)
    BY <2>4, <2>5, <2>6 DEF Stepwise
  <2> QED  BY <1>3, <2>7
<1> QED  BY <1>4, <1>5

\* Counting up to n.
LEMMA Upwards ==
  ASSUME NEW n \in Nat, NEW good, 0 \in good, \A k \in 1..n : k - 1 \in good => k \in good
  PROVE  \A k \in 0..n : k \in good
<1> DEFINE bad == {k \in 0..n : k \notin good}
<1>1. SUFFICES ASSUME bad # {} PROVE FALSE
  OBVIOUS
<1>2. PICK m \in bad : \A k \in bad : m <= k
  <2>1. bad \in SUBSET Nat
    OBVIOUS
  <2> HIDE DEF bad
  <2> QED  BY <1>1, <2>1, Smallest
<1>3. m \in 1..n /\ m - 1 \in 0..n /\ ~(m <= m - 1)
  BY <1>2
<1>4. m - 1 \in good
  BY <1>2, <1>3
<1> QED  BY <1>2, <1>3, <1>4
=============================================================================
