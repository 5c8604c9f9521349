------------------------------ MODULE ListFacts ------------------------------
(***************************************************************************)
(* Facts about sequences and about counting round a ring, for the proofs   *)
(* about the lists and the buffers of this project.                        *)
(***************************************************************************)
EXTENDS Integers, Sequences, FiniteSets, FiniteSetTheorems, SequenceTheorems, WellFoundedInduction, TLAPS

\* A set of numbers has a least.
LEMMA Least ==
    ASSUME NEW T, T \subseteq Nat, T # {}
    PROVE  \E x \in T : \A y \in T : x <= y
<1>1. PICK x \in T : \A y \in T : ~ (<<y, x>> \in OpToRel(<, Nat))
  BY NatLessThanWellFounded, WFMin, Zenon
<1>2. ASSUME NEW y \in T PROVE x <= y
  <2>1. ~(y < x)
    BY <1>1 DEF OpToRel
  <2> QED BY <2>1
<1> QED BY <1>2

\* What holds at 0, and passes from each number to the next, holds up to n.
LEMMA CountUp ==
    ASSUME NEW n \in Nat, NEW S, 0 \in S, \A k \in 0..n - 1 : k \in S => k + 1 \in S
    PROVE  \A k \in 0..n : k \in S
<1> DEFINE T == {k \in 0..n : k \notin S}
<1>1. CASE T = {}
  BY <1>1
<1>2. CASE T # {}
  <2>1. T \subseteq Nat
    OBVIOUS
  <2>2. PICK x \in T : \A y \in T : x <= y
    BY <1>2, <2>1, Least, Zenon
  <2>3. x \in 1..n /\ x \notin S
    BY <2>2
  <2>4. x - 1 \in 0..n - 1 /\ x - 1 \notin T /\ (x - 1) + 1 = x
    BY <2>2, <2>3
  <2>5. x - 1 \in S
    BY <2>4
  <2> QED BY <2>3, <2>4, <2>5
<1> QED BY <1>1, <1>2

\* What is defined by recursion exists: from a value and, with the number, the
\* value before to the next one.
IsRule(G, n, V) == G \in [(1..n) \X V -> V]
Recurs(f, n, V, e, G) == f \in [0..n -> V] /\ f[0] = e /\ \A k \in 1..n : f[k] = G[<<k, f[k - 1]>>]

LEMMA Recursion ==
    ASSUME NEW n \in Nat, NEW V, NEW e \in V, NEW G, IsRule(G, n, V)
    PROVE  \E f : Recurs(f, n, V, e, G)
<1>0. G \in [(1..n) \X V -> V]
  BY DEF IsRule
<1> DEFINE Defines(f, m) == f[0] = e /\ \A k \in 1..m : f[k] = G[<<k, f[k - 1]>>]
           S == {m \in 0..n : \E f \in [0..m -> V] : Defines(f, m)}
<1>1. 0 \in S
  <2> DEFINE f == [k \in 0..0 |-> e]
  <2>1. f \in [0..0 -> V] /\ Defines(f, 0)
    OBVIOUS
  <2>2. 0 \in 0..n
    OBVIOUS
  <2> HIDE DEF f, Defines
  <2> QED BY <2>1, <2>2
<1>2. ASSUME NEW m \in 0..n - 1, m \in S PROVE m + 1 \in S
  <2>1. PICK f \in [0..m -> V] : Defines(f, m)
    BY <1>2
  <2> DEFINE x == G[<<m + 1, f[m]>>]
             g == [k \in 0..m + 1 |-> IF k <= m THEN f[k] ELSE x]
  <2>2. x \in V
    <3>1. m + 1 \in 1..n /\ f[m] \in V
      OBVIOUS
    <3>2. <<m + 1, f[m]>> \in (1..n) \X V
      BY <3>1
    <3> QED BY <1>0, <3>2
  <2> HIDE DEF x
  <2>3. g \in [0..m + 1 -> V] /\ g[m + 1] = x /\ \A k \in 0..m : g[k] = f[k]
    BY <2>2
  <2> HIDE DEF g
  <2>4. ASSUME NEW k \in 1..m + 1 PROVE g[k] = G[<<k, g[k - 1]>>]
    <3>1. CASE k = m + 1
      <4>1. k - 1 = m /\ g[m] = f[m]
        BY <2>3, <3>1
      <4> QED BY <2>3, <3>1, <4>1 DEF x
    <3>2. CASE k # m + 1
      <4>1. k \in 1..m /\ k \in 0..m /\ k - 1 \in 0..m
        BY <3>2
      <4> QED BY <2>1, <2>3, <4>1
    <3> QED BY <3>1, <3>2
  <2>5. g[0] = e /\ m + 1 \in 0..n
    BY <2>1, <2>3
  <2> QED BY <2>3, <2>4, <2>5
<1> HIDE DEF S
<1>3. n \in S
  <2>1. n \in 0..n
    OBVIOUS
  <2> QED BY <1>1, <1>2, <2>1, CountUp
<1> QED BY <1>3 DEF S, Recurs

\* The remainder of what goes round a ring of n places at most twice.
LEMMA Round ==
    ASSUME NEW n \in Nat \ {0}, NEW i \in 0..2 * n
    PROVE  i % n = IF i < n THEN i ELSE IF i < 2 * n THEN i - n ELSE 0
OBVIOUS

\* Two lists, one behind the other.
LEMMA Joined ==
    ASSUME NEW S, NEW a \in Seq(S), NEW b \in Seq(S)
    PROVE  /\ a \o b \in Seq(S) /\ Len(a \o b) = Len(a) + Len(b)
           /\ \A k \in 1..Len(a) + Len(b) : (a \o b)[k] = IF k <= Len(a) THEN a[k] ELSE b[k - Len(a)]
OBVIOUS

\* A part of a list, from one place to another.
LEMMA Part ==
    ASSUME NEW S, NEW s \in Seq(S), NEW m \in 1..Len(s) + 1, NEW n \in 0..Len(s), m <= n + 1
    PROVE  /\ SubSeq(s, m, n) \in Seq(S) /\ Len(SubSeq(s, m, n)) = n - m + 1
           /\ \A k \in 1..n - m + 1 : SubSeq(s, m, n)[k] = s[m + k - 1]
OBVIOUS

\* c is list s without its element i.
IsCut(c, s, i) == /\ Len(c) = Len(s) - 1
                  /\ \A k \in 1..Len(s) - 1 : c[k] = IF k < i THEN s[k] ELSE s[k + 1]

\* c is list s with x put behind the first n.
IsPut(c, s, n, x) == /\ Len(c) = Len(s) + 1
                     /\ \A k \in 1..Len(s) + 1 :
                          c[k] = IF k <= n THEN s[k] ELSE IF k = n + 1 THEN x ELSE s[k - 1]

\* c is list s without its first n.
IsRest(c, s, n) == Len(c) = Len(s) - n /\ \A k \in 1..Len(s) - n : c[k] = s[n + k]

\* A list from which one element is taken.
LEMMA Cut ==
    ASSUME NEW S, NEW s \in Seq(S), NEW i \in 1..Len(s)
    PROVE  /\ SubSeq(s, 1, i - 1) \o SubSeq(s, i + 1, Len(s)) \in Seq(S)
           /\ IsCut(SubSeq(s, 1, i - 1) \o SubSeq(s, i + 1, Len(s)), s, i)
<1>1. ASSUME NEW front \in Seq(S), NEW back \in Seq(S),
             Len(front) = i - 1, \A k \in 1..i - 1 : front[k] = s[k],
             Len(back) = Len(s) - i, \A k \in 1..Len(s) - i : back[k] = s[i + k]
      PROVE  front \o back \in Seq(S) /\ IsCut(front \o back, s, i)
  <2>1. front \o back \in Seq(S) /\ Len(front \o back) = Len(s) - 1
    BY <1>1
  <2>2. ASSUME NEW k \in 1..Len(s) - 1
        PROVE  (front \o back)[k] = IF k < i THEN s[k] ELSE s[k + 1]
    <3>1. CASE k < i
      BY <1>1, <3>1
    <3>2. CASE ~(k < i)
      <4>1. k >= i /\ k - (i - 1) \in 1..Len(s) - i
        BY <3>2
      <4>2. (front \o back)[k] = back[k - (i - 1)]
        BY <1>1, <4>1
      <4> QED BY <1>1, <4>1, <4>2
    <3> QED BY <3>1, <3>2, Zenon
  <2> QED BY <2>1, <2>2 DEF IsCut
<1> DEFINE front == SubSeq(s, 1, i - 1)
           back == SubSeq(s, i + 1, Len(s))
<1>2. front \in Seq(S) /\ Len(front) = i - 1 /\ \A k \in 1..i - 1 : front[k] = s[k]
  OBVIOUS
<1>3. back \in Seq(S) /\ Len(back) = Len(s) - i /\ \A k \in 1..Len(s) - i : back[k] = s[i + k]
  OBVIOUS
<1> HIDE DEF front, back
<1>4. front \o back \in Seq(S) /\ IsCut(front \o back, s, i)
  BY <1>1, <1>2, <1>3
<1> QED BY <1>4, Zenon DEF front, back

\* A list in which one element is put behind the first n.
LEMMA PutIn ==
    ASSUME NEW S, NEW s \in Seq(S), NEW n \in 0..Len(s), NEW x \in S
    PROVE  /\ SubSeq(s, 1, n) \o <<x>> \o SubSeq(s, n + 1, Len(s)) \in Seq(S)
           /\ IsPut(SubSeq(s, 1, n) \o <<x>> \o SubSeq(s, n + 1, Len(s)), s, n, x)
<1>1. ASSUME NEW front \in Seq(S), NEW back \in Seq(S),
             Len(front) = n + 1, \A k \in 1..n + 1 : front[k] = IF k <= n THEN s[k] ELSE x,
             Len(back) = Len(s) - n, \A k \in 1..Len(s) - n : back[k] = s[n + k]
      PROVE  front \o back \in Seq(S) /\ IsPut(front \o back, s, n, x)
  <2>1. front \o back \in Seq(S) /\ Len(front \o back) = Len(front) + Len(back)
    BY ConcatProperties, Zenon
  <2>2. ASSUME NEW k \in 1..Len(s) + 1
        PROVE  (front \o back)[k] = IF k <= n THEN s[k] ELSE IF k = n + 1 THEN x ELSE s[k - 1]
    <3>1. CASE k <= n + 1
      BY <1>1, <3>1
    <3>2. CASE ~(k <= n + 1)
      <4>1. (front \o back)[k] = back[k - (n + 1)] /\ k - (n + 1) \in 1..Len(s) - n
        BY <1>1, <3>2
      <4>2. n + (k - (n + 1)) = k - 1
        OBVIOUS
      <4>3. back[k - (n + 1)] = s[k - 1]
        BY <1>1, <4>1, <4>2, Zenon
      <4> QED BY <3>2, <4>1, <4>3
    <3> QED BY <3>1, <3>2, Zenon
  <2> QED BY <1>1, <2>1, <2>2 DEF IsPut
<1> DEFINE front == SubSeq(s, 1, n) \o <<x>>
           back == SubSeq(s, n + 1, Len(s))
<1>2. /\ front \in Seq(S) /\ Len(front) = n + 1
      /\ \A k \in 1..n + 1 : front[k] = IF k <= n THEN s[k] ELSE x
  OBVIOUS
<1>3. back \in Seq(S) /\ Len(back) = Len(s) - n /\ \A k \in 1..Len(s) - n : back[k] = s[n + k]
  OBVIOUS
<1> HIDE DEF front, back
<1>4. front \o back \in Seq(S) /\ IsPut(front \o back, s, n, x)
  BY <1>1, <1>2, <1>3
<1> QED BY <1>4, Zenon DEF front, back

\* A list from which the first are taken.
LEMMA Rest ==
    ASSUME NEW S, NEW s \in Seq(S), NEW n \in 0..Len(s)
    PROVE  SubSeq(s, n + 1, Len(s)) \in Seq(S) /\ IsRest(SubSeq(s, n + 1, Len(s)), s, n)
BY DEF IsRest

LEMMA TailIsCut ==
    ASSUME NEW S, NEW s \in Seq(S), s # <<>>
    PROVE  Tail(s) \in Seq(S) /\ IsCut(Tail(s), s, 1) /\ Head(s) = s[1] /\ 1 \in 1..Len(s)
BY DEF IsCut

==============================================================================
