--------------------------- MODULE SequenceFacts ---------------------------
(***************************************************************************)
(* Facts about numbers and sequences that the proofs of several modules    *)
(* rest on.  Induction is stated for a set instead of a predicate, which   *)
(* first-order provers can apply: the property to be proved is the set of  *)
(* the numbers that have it.                                               *)
(***************************************************************************)
EXTENDS Naturals, Sequences, SequenceTheorems, WellFoundedInduction, TLAPS

(***************************************************************************)
(* Every non-empty set of numbers has a least element.                     *)
(***************************************************************************)
LEMMA LeastNumber ==
    ASSUME NEW T \in SUBSET Nat, T # {}
    PROVE  \E x \in T : \A y \in T : x <= y
<1>1. \E x \in T : \A y \in T : <<y, x>> \notin OpToRel(<, Nat)
  <2> DEFINE R == OpToRel(<, Nat)
  <2>1. IsWellFoundedOn(R, Nat)
    BY NatLessThanWellFounded
  <2> HIDE DEF R
  <2>2. \E x \in T : \A y \in T : <<y, x>> \notin R
    BY <2>1, WFMin
  <2> QED BY <2>2 DEF R
<1>2. \E x \in T : \A y \in T : ~(y < x)
  BY <1>1 DEF OpToRel
<1> QED BY <1>2

(***************************************************************************)
(* Induction: a set that has 0 and with each number the next has them all. *)
(***************************************************************************)
LEMMA InductionOverNat ==
    ASSUME NEW S, 0 \in S, \A n \in Nat : n \in S => n + 1 \in S
    PROVE  Nat \subseteq S
<1> SUFFICES ASSUME Nat \ S # {} PROVE FALSE
  OBVIOUS
<1>1. PICK x \in Nat \ S : \A y \in Nat \ S : x <= y
  BY LeastNumber
<1>2. x # 0 /\ x - 1 \in Nat
  BY <1>1
<1> QED BY <1>1, <1>2

(***************************************************************************)
(* Every non-empty set of numbers with an upper bound has a greatest       *)
(* element.                                                                *)
(***************************************************************************)
LEMMA GreatestNumber ==
    ASSUME NEW n \in Nat, NEW T \in SUBSET (0 .. n), T # {}
    PROVE  \E x \in T : \A y \in T : y <= x
<1> DEFINE D == {m \in Nat : n - m \in T}
<1>1. D \in SUBSET Nat /\ D # {}
  <2>1. PICK y \in T : TRUE
    OBVIOUS
  <2>2. y \in 0 .. n /\ n - y \in Nat /\ n - (n - y) = y
    BY <2>1
  <2>3. n - y \in D
    BY <2>1, <2>2
  <2> QED BY <2>3
<1> HIDE DEF D
<1>2. PICK m \in D : \A k \in D : m <= k
  BY <1>1, LeastNumber
<1>3. m \in Nat /\ n - m \in T
  BY <1>2 DEF D
<1>4. ASSUME NEW y \in T PROVE y <= n - m
  <2>1. y \in 0 .. n /\ n - y \in Nat /\ n - (n - y) = y
    BY <1>4
  <2>2. n - y \in D
    BY <1>4, <2>1 DEF D
  <2> QED BY <1>2, <1>3, <2>1, <2>2
<1> QED BY <1>3, <1>4

(***************************************************************************)
(* Short tuples joined.                                                    *)
(***************************************************************************)
LEMMA TupleConcat ==
    \A a, b, c, d : /\ <<a>> \o <<b>> = <<a, b>>
                    /\ <<a, b>> \o <<c>> = <<a, b, c>>
                    /\ <<a, b, c>> \o <<d>> = <<a, b, c, d>>
<1> TAKE a, b, c, d
<1> DEFINE S == {a, b, c, d}
<1>1. /\ <<a>> \in Seq(S) /\ <<b>> \in Seq(S) /\ <<c>> \in Seq(S) /\ <<d>> \in Seq(S)
      /\ <<a, b>> \in Seq(S) /\ <<a, b, c>> \in Seq(S) /\ <<a, b, c, d>> \in Seq(S)
  OBVIOUS
<1>2. <<a>> \o <<b>> = <<a, b>>
  <2>1. \A i \in 1 .. 2 : (<<a>> \o <<b>>)[i] = <<a, b>>[i]
    BY <1>1
  <2>2. /\ <<a>> \o <<b>> \in Seq(S) /\ Len(<<a>> \o <<b>>) = 2 /\ Len(<<a, b>>) = 2
    BY <1>1
  <2> HIDE DEF S
  <2> DEFINE s == <<a>> \o <<b>>
             t == <<a, b>>
  <2>3. /\ s \in Seq(S) /\ t \in Seq(S) /\ Len(s) = 2 /\ Len(t) = 2
        /\ \A i \in 1 .. 2 : s[i] = t[i]
    BY <1>1, <2>1, <2>2
  <2> HIDE DEF s, t
  <2>4. s = t
    BY <2>3, SeqEqual
  <2> QED BY <2>4 DEF s, t
<1>3. <<a, b>> \o <<c>> = <<a, b, c>>
  <2>1. \A i \in 1 .. 3 : (<<a, b>> \o <<c>>)[i] = <<a, b, c>>[i]
    BY <1>1
  <2>2. /\ <<a, b>> \o <<c>> \in Seq(S) /\ Len(<<a, b>> \o <<c>>) = 3 /\ Len(<<a, b, c>>) = 3
    BY <1>1
  <2> HIDE DEF S
  <2> DEFINE s == <<a, b>> \o <<c>>
             t == <<a, b, c>>
  <2>3. /\ s \in Seq(S) /\ t \in Seq(S) /\ Len(s) = 3 /\ Len(t) = 3
        /\ \A i \in 1 .. 3 : s[i] = t[i]
    BY <1>1, <2>1, <2>2
  <2> HIDE DEF s, t
  <2>4. s = t
    BY <2>3, SeqEqual
  <2> QED BY <2>4 DEF s, t
<1>4. <<a, b, c>> \o <<d>> = <<a, b, c, d>>
  <2>1. \A i \in 1 .. 4 : (<<a, b, c>> \o <<d>>)[i] = <<a, b, c, d>>[i]
    BY <1>1
  <2>2. /\ <<a, b, c>> \o <<d>> \in Seq(S) /\ Len(<<a, b, c>> \o <<d>>) = 4 /\ Len(<<a, b, c, d>>) = 4
    BY <1>1
  <2> HIDE DEF S
  <2> DEFINE s == <<a, b, c>> \o <<d>>
             t == <<a, b, c, d>>
  <2>3. /\ s \in Seq(S) /\ t \in Seq(S) /\ Len(s) = 4 /\ Len(t) = 4
        /\ \A i \in 1 .. 4 : s[i] = t[i]
    BY <1>1, <2>1, <2>2
  <2> HIDE DEF s, t
  <2>4. s = t
    BY <2>3, SeqEqual
  <2> QED BY <2>4 DEF s, t
<1> QED BY <1>2, <1>3, <1>4

LEMMA TupleAppend ==
    \A a, b, c : /\ Append(<<>>, a) = <<a>>
                 /\ Append(<<a>>, b) = <<a, b>>
                 /\ Append(<<a, b>>, c) = <<a, b, c>>
<1> TAKE a, b, c
<1> DEFINE S == {a, b, c}
<1>1. <<>> \in Seq(S) /\ <<a>> \in Seq(S) /\ <<a, b>> \in Seq(S)
  OBVIOUS
<1>2. \A q \in Seq(S) : \A x \in S : Append(q, x) = q \o <<x>>
  BY AppendIsConcat
<1>3. a \in S /\ b \in S /\ c \in S
  OBVIOUS
<1>4. Append(<<>>, a) = <<a>>
  OBVIOUS
<1>5. Append(<<a>>, b) = <<a>> \o <<b>> /\ Append(<<a, b>>, c) = <<a, b>> \o <<c>>
  BY <1>1, <1>2, <1>3, Zenon
<1>6. <<a>> \o <<b>> = <<a, b>> /\ <<a, b>> \o <<c>> = <<a, b, c>>
  BY TupleConcat, Zenon
<1> QED BY <1>4, <1>5, <1>6, Zenon

(***************************************************************************)
(* The first element of a sequence that grows at its end.                  *)
(***************************************************************************)
LEMMA FirstOfAppend ==
    ASSUME NEW S, NEW q \in Seq(S), NEW x \in S
    PROVE  Append(q, x)[1] = IF q = <<>> THEN x ELSE q[1]
<1>1. /\ \A i \in 1 .. Len(q) : Append(q, x)[i] = q[i]
      /\ Append(q, x)[Len(q) + 1] = x
  BY AppendProperties
<1>2. q = <<>> => Len(q) + 1 = 1
  OBVIOUS
<1>3. q # <<>> => 1 \in 1 .. Len(q)
  OBVIOUS
<1> QED BY <1>1, <1>2, <1>3, Zenon

(***************************************************************************)
(* Recursion over 0 .. n: there is one function that starts with a and     *)
(* goes on with h.                                                         *)
(***************************************************************************)
Follows(f, n, a, h) == f[0] = a /\ \A k \in 1 .. n : f[k] = h[<<k, f[k - 1]>>]

LEMMA RecursionExists ==
    ASSUME NEW n \in Nat, NEW S, NEW a \in S, NEW h \in [(1 .. n) \X S -> S]
    PROVE  \E f \in [0 .. n -> S] : Follows(f, n, a, h)
<1> DEFINE T == {m \in Nat : m <= n => \E f \in [0 .. m -> S] : Follows(f, m, a, h)}
<1>1. 0 \in T
  <2>1. [k \in 0 .. 0 |-> a] \in [0 .. 0 -> S] /\ Follows([k \in 0 .. 0 |-> a], 0, a, h)
    BY DEF Follows
  <2> QED BY <2>1
<1>2. ASSUME NEW m \in Nat, m \in T PROVE m + 1 \in T
  <2> SUFFICES ASSUME m + 1 <= n
               PROVE  \E f \in [0 .. m + 1 -> S] : Follows(f, m + 1, a, h)
    OBVIOUS
  <2>1. PICK f \in [0 .. m -> S] : Follows(f, m, a, h)
    BY <1>2
  <2> DEFINE g == [k \in 0 .. m + 1 |-> IF k = m + 1 THEN h[<<m + 1, f[m]>>] ELSE f[k]]
  <2>2. h[<<m + 1, f[m]>>] \in S
    <3>1. f[m] \in S /\ m + 1 \in 1 .. n
      BY <2>1
    <3> QED BY <3>1
  <2>3. g \in [0 .. m + 1 -> S]
    BY <2>1, <2>2
  <2>4. g[0] = a
    BY <2>1 DEF Follows
  <2>5. \A k \in 1 .. m + 1 : g[k] = h[<<k, g[k - 1]>>]
    <3> SUFFICES ASSUME NEW k \in 1 .. m + 1 PROVE g[k] = h[<<k, g[k - 1]>>]
      OBVIOUS
    <3>1. CASE k = m + 1
      <4>1. g[k] = h[<<m + 1, f[m]>>] /\ g[k - 1] = f[m]
        BY <3>1
      <4> QED BY <3>1, <4>1
    <3>2. CASE k # m + 1
      <4>1. k \in 1 .. m /\ k - 1 \in 0 .. m
        BY <3>2
      <4>2. g[k] = f[k] /\ g[k - 1] = f[k - 1]
        BY <4>1
      <4> QED BY <2>1, <4>1, <4>2 DEF Follows
    <3> QED BY <3>1, <3>2
  <2> HIDE DEF g
  <2> QED BY <2>3, <2>4, <2>5 DEF Follows
<1> HIDE DEF T
<1>3. Nat \subseteq T
  BY <1>1, <1>2, InductionOverNat
<1> QED BY <1>3 DEF T

LEMMA RecursionUnique ==
    ASSUME NEW n \in Nat, NEW a, NEW h, NEW f, NEW g,
           Follows(f, n, a, h), Follows(g, n, a, h)
    PROVE  \A k \in 0 .. n : f[k] = g[k]
<1> DEFINE T == {m \in Nat : m <= n => f[m] = g[m]}
<1>1. 0 \in T
  BY DEF Follows
<1>2. ASSUME NEW m \in Nat, m \in T PROVE m + 1 \in T
  <2> SUFFICES ASSUME m + 1 <= n PROVE f[m + 1] = g[m + 1]
    OBVIOUS
  <2>1. f[m] = g[m] /\ m + 1 \in 1 .. n /\ (m + 1) - 1 = m
    BY <1>2
  <2>2. f[m + 1] = h[<<m + 1, f[m]>>] /\ g[m + 1] = h[<<m + 1, g[m]>>]
    BY <2>1 DEF Follows
  <2> QED BY <2>1, <2>2
<1> HIDE DEF T
<1>3. Nat \subseteq T
  BY <1>1, <1>2, InductionOverNat
<1> QED BY <1>3 DEF T
=============================================================================
