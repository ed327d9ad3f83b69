-------------------------- MODULE Sublists_proofs --------------------------
(***************************************************************************)
(* What is kept of a list is a list of the same elements.  The provers     *)
(* cannot instantiate an induction scheme, so the induction is made by     *)
(* hand: the least index for which the claim fails gives a contradiction.  *)
(***************************************************************************)
EXTENDS Sublists, WellFoundedInduction, SequenceTheorems, TLAPS

Less == OpToRel(<, Nat)

\* A nonempty set of natural numbers has a least element.
LEMMA NatMin ==
  ASSUME NEW B, B \subseteq Nat, B # {}
  PROVE  \E x \in B : \A y \in B : x <= y
  <1>1. Less = {ss \in Nat \X Nat : ss[1] < ss[2]}
    BY Zenon DEF OpToRel, Less
  <1>2. IsWellFoundedOn(Less, Nat)
    BY NatLessThanWellFounded DEF Less
  <1>3. \E x \in B : \A y \in B : ~ (<<y, x>> \in Less)
    BY <1>2, WFMin
  <1>4. PICK x \in B : \A y \in B : <<y, x>> \notin Less
    BY <1>3
  <1>5. ASSUME NEW y \in B PROVE x <= y
    <2>1. x \in Nat /\ y \in Nat
      OBVIOUS
    <2>2. <<y, x>> \notin {ss \in Nat \X Nat : ss[1] < ss[2]}
      BY <1>1, <1>4
    <2>3. ~(y < x)
      BY <2>1, <2>2
    <2> QED
      BY <2>1, <2>3
  <1> QED
    BY <1>5

\* Kept of a list over T is a list over T: first, the recursion has a solution,
\* built up to one index after the other; then every solution has its values in
\* Seq(T).
LEMMA KeptType ==
  ASSUME NEW T, NEW s \in Seq(T), NEW S
  PROVE  Kept(s, S) \in Seq(T)
  <1> DEFINE R(g, i) == IF i = 1 THEN <<>>
               ELSE IF s[i - 1] \in S THEN Append(g[i - 1], s[i - 1]) ELSE g[i - 1]
             D(g) == [i \in 1 .. Len(s) + 1 |-> IF i = 1 THEN <<>>
               ELSE IF s[i - 1] \in S THEN Append(g[i - 1], s[i - 1]) ELSE g[i - 1]]
             P(n) == \E g \in [1 .. n -> Seq(T)] : \A i \in 1 .. n : g[i] = R(g, i)
             B == {n \in 1 .. Len(s) + 1 : ~P(n)}
  <1>0. Len(s) \in Nat /\ \A i \in 1 .. Len(s) : s[i] \in T
    OBVIOUS
  <1>1. B = {}
    <2> SUFFICES ASSUME B # {} PROVE FALSE
      OBVIOUS
    <2>1. PICK n \in B : \A m \in B : n <= m
      <3>1. B \subseteq Nat
        BY <1>0
      <3> HIDE DEF B
      <3> QED
        BY <3>1, NatMin
    <2>2. n \in 1 .. Len(s) + 1 /\ n \in Nat /\ ~P(n)
      <3> HIDE DEF P
      <3> QED
        BY <1>0, <2>1
    <2>3. n # 1
      <3> DEFINE h == [i \in 1 .. 1 |-> <<>>]
      <3>1. h \in [1 .. 1 -> Seq(T)]
        OBVIOUS
      <3>2. \A i \in 1 .. 1 : h[i] = R(h, i)
        OBVIOUS
      <3>3. P(1)
        BY <3>1, <3>2
      <3> QED
        BY <2>2, <3>3
    <2>4. n - 1 \in 1 .. Len(s) + 1
      BY <1>0, <2>2, <2>3
    <2>41. n - 1 \notin B
      <3> HIDE DEF B
      <3> QED
        BY <2>1, <2>2, <2>4
    <2>42. P(n - 1)
      BY <2>4, <2>41
    <2>5. PICK g \in [1 .. n - 1 -> Seq(T)] : \A i \in 1 .. n - 1 : g[i] = R(g, i)
      BY <2>42
    <2> DEFINE h == [i \in 1 .. n |-> IF i = n THEN R(g, n) ELSE g[i]]
    <2>6. R(g, n) \in Seq(T)
      <3>1. g[n - 1] \in Seq(T) /\ s[n - 1] \in T
        BY <1>0, <2>2, <2>3
      <3> QED
        BY <2>3, <3>1
    <2>7. h \in [1 .. n -> Seq(T)]
      BY <2>2, <2>6
    <2>8. ASSUME NEW i \in 1 .. n PROVE h[i] = R(h, i)
      <3>1. CASE i = n
        BY <2>2, <2>3, <3>1
      <3>2. CASE i # n
        <4>1. i \in 1 .. n - 1 /\ h[i] = g[i]
          BY <2>2, <3>2
        <4>2. i # 1 => h[i - 1] = g[i - 1]
          BY <2>2, <3>2
        <4> HIDE DEF h
        <4> QED
          BY <2>5, <4>1, <4>2
      <3> QED
        BY <3>1, <3>2
    <2>9. P(n)
      BY <2>7, <2>8
    <2> QED
      BY <2>2, <2>9
  <1>11. Len(s) + 1 \in 1 .. Len(s) + 1
    BY <1>0
  <1>12. P(Len(s) + 1)
    BY <1>1, <1>11
  <1>2. PICK g \in [1 .. Len(s) + 1 -> Seq(T)] : \A i \in 1 .. Len(s) + 1 : g[i] = R(g, i)
    BY <1>12
  <1>3. g = D(g)
    BY <1>2
  <1> DEFINE f == CHOOSE x : x = D(x)
  <1>4. f = D(f)
    BY <1>3
  <1>5. Kept(s, S) = f[Len(s) + 1]
    BY DEF Kept
  <1> HIDE DEF f
  <1> DEFINE C == {i \in 1 .. Len(s) + 1 : f[i] \notin Seq(T)}
  <1>6. C = {}
    <2> SUFFICES ASSUME C # {} PROVE FALSE
      OBVIOUS
    <2>1. PICK n \in C : \A m \in C : n <= m
      <3>1. C \subseteq Nat
        BY <1>0
      <3> HIDE DEF C
      <3> QED
        BY <3>1, NatMin
    <2>2. n \in 1 .. Len(s) + 1 /\ n \in Nat /\ f[n] \notin Seq(T)
      BY <1>0, <2>1
    <2>3. f[n] = R(f, n)
      BY <1>4, <2>2
    <2>4. n # 1
      BY <2>2, <2>3
    <2>5. f[n - 1] \in Seq(T)
      <3>1. n - 1 \in 1 .. Len(s) + 1
        BY <1>0, <2>2, <2>4
      <3>2. n - 1 \notin C
        <4> HIDE DEF C
        <4> QED
          BY <2>1, <2>2
      <3> QED
        BY <3>1, <3>2
    <2>6. s[n - 1] \in T
      BY <1>0, <2>2, <2>4
    <2> QED
      BY <2>2, <2>3, <2>4, <2>5, <2>6
  <1> QED
    BY <1>0, <1>5, <1>6

\* So is what is left without some of its elements.
LEMMA WithoutType ==
  ASSUME NEW T, NEW s \in Seq(T), NEW S
  PROVE  Without(s, S) \in Seq(T)
  BY KeptType DEF Without

\* The elements of a list are its head and those of its tail.
LEMMA ElementsTail ==
  ASSUME NEW T, NEW s \in Seq(T), s # <<>>
  PROVE  /\ Head(s) \in T /\ Tail(s) \in Seq(T)
         /\ Elements(s) = {Head(s)} \cup Elements(Tail(s))
  <1>1. /\ Len(s) \in Nat /\ Len(s) >= 1 /\ DOMAIN s = 1 .. Len(s) /\ Head(s) = s[1]
        /\ Tail(s) \in Seq(T) /\ DOMAIN Tail(s) = 1 .. Len(s) - 1
        /\ \A i \in 1 .. Len(s) - 1 : Tail(s)[i] = s[i + 1]
    OBVIOUS
  <1>2. \A i \in 1 .. Len(s) : s[i] \in T
    OBVIOUS
  <1>3. ASSUME NEW x \in Elements(s) PROVE x = Head(s) \/ x \in Elements(Tail(s))
    <2>1. PICK i \in 1 .. Len(s) : x = s[i]
      BY <1>1 DEF Elements
    <2>2. i # 1 => i - 1 \in 1 .. Len(s) - 1 /\ x = Tail(s)[i - 1]
      BY <1>1, <2>1
    <2> QED
      BY <1>1, <2>1, <2>2 DEF Elements
  <1>4. ASSUME NEW x \in Elements(Tail(s)) PROVE x \in Elements(s)
    <2>1. PICK i \in 1 .. Len(s) - 1 : x = s[i + 1]
      BY <1>1 DEF Elements
    <2>2. i + 1 \in DOMAIN s
      BY <1>1
    <2> QED
      BY <2>1, <2>2 DEF Elements
  <1>5. Head(s) \in Elements(s)
    BY <1>1 DEF Elements
  <1> QED
    BY <1>1, <1>2, <1>3, <1>4, <1>5

\* What is left of a list of four, and of one of two, after some of its elements.
LEMMA SuffixesOfFour ==
  ASSUME NEW a, NEW b, NEW c, NEW d
  PROVE  /\ SubSeq(<<a, b, c, d>>, 1, 4) = <<a, b, c, d>>
         /\ SubSeq(<<a, b, c, d>>, 2, 4) = <<b, c, d>>
         /\ SubSeq(<<a, b, c, d>>, 3, 4) = <<c, d>>
         /\ SubSeq(<<a, b, c, d>>, 4, 4) = <<d>>
  <1> DEFINE s == <<a, b, c, d>>
             T == {a, b, c, d}
             u1 == SubSeq(s, 1, 4)
             u2 == SubSeq(s, 2, 4)
             u3 == SubSeq(s, 3, 4)
             u4 == SubSeq(s, 4, 4)
  <1>1. /\ s[1] = a /\ s[2] = b /\ s[3] = c /\ s[4] = d
        /\ a \in T /\ b \in T /\ c \in T /\ d \in T
    OBVIOUS
  <1>2. \A m \in {1, 2, 3, 4} : \A i \in m .. 4 : s[i] \in T
    OBVIOUS
  <1> HIDE DEF s
  <1>3. ASSUME NEW m \in {1, 2, 3, 4}
        PROVE  /\ SubSeq(s, m, 4) \in Seq(T) /\ Len(SubSeq(s, m, 4)) = 5 - m
               /\ \A i \in 1 .. 5 - m : SubSeq(s, m, 4)[i] = s[m + i - 1]
    <2>1. m \in Int /\ 4 \in Int /\ \A i \in m .. 4 : s[i] \in T
      BY <1>2
    <2> HIDE DEF T
    <2> QED
      BY <2>1, SubSeqProperties
  <1> HIDE DEF T
  <1>4. u1 \in Seq(T) /\ Len(u1) = 4 /\ u1[1] = s[1] /\ u1[2] = s[2]
        /\ u1[3] = s[3] /\ u1[4] = s[4]
    BY <1>3
  <1>5. u2 \in Seq(T) /\ Len(u2) = 3 /\ u2[1] = s[2] /\ u2[2] = s[3] /\ u2[3] = s[4]
    BY <1>3
  <1>6. u3 \in Seq(T) /\ Len(u3) = 2 /\ u3[1] = s[3] /\ u3[2] = s[4]
    BY <1>3
  <1>7. u4 \in Seq(T) /\ Len(u4) = 1 /\ u4[1] = s[4]
    BY <1>3
  <1> HIDE DEF u1, u2, u3, u4
  <1>8. u1 = <<a, b, c, d>>
    BY <1>1, <1>4
  <1>9. u2 = <<b, c, d>>
    BY <1>1, <1>5
  <1>10. u3 = <<c, d>>
    BY <1>1, <1>6
  <1>11. u4 = <<d>>
    BY <1>1, <1>7
  <1> QED
    BY <1>8, <1>9, <1>10, <1>11 DEF u1, u2, u3, u4, s

LEMMA SuffixesOfTwo ==
  ASSUME NEW a, NEW b
  PROVE  SubSeq(<<a, b>>, 1, 2) = <<a, b>> /\ SubSeq(<<a, b>>, 2, 2) = <<b>>
  <1> DEFINE s == <<a, b>>
             T == {a, b}
             u1 == SubSeq(s, 1, 2)
             u2 == SubSeq(s, 2, 2)
  <1>1. s[1] = a /\ s[2] = b /\ a \in T /\ b \in T
    OBVIOUS
  <1>2. \A m \in {1, 2} : \A i \in m .. 2 : s[i] \in T
    OBVIOUS
  <1> HIDE DEF s
  <1>3. ASSUME NEW m \in {1, 2}
        PROVE  /\ SubSeq(s, m, 2) \in Seq(T) /\ Len(SubSeq(s, m, 2)) = 3 - m
               /\ \A i \in 1 .. 3 - m : SubSeq(s, m, 2)[i] = s[m + i - 1]
    <2>1. m \in Int /\ 2 \in Int /\ \A i \in m .. 2 : s[i] \in T
      BY <1>2
    <2> HIDE DEF T
    <2> QED
      BY <2>1, SubSeqProperties
  <1> HIDE DEF T
  <1>4. u1 \in Seq(T) /\ Len(u1) = 2 /\ u1[1] = s[1] /\ u1[2] = s[2]
    BY <1>3
  <1>5. u2 \in Seq(T) /\ Len(u2) = 1 /\ u2[1] = s[2]
    BY <1>3
  <1> HIDE DEF u1, u2
  <1>6. u1 = <<a, b>>
    BY <1>1, <1>4
  <1>7. u2 = <<b>>
    BY <1>1, <1>5
  <1> QED
    BY <1>6, <1>7 DEF u1, u2, s
=============================================================================
