---------------------------- MODULE SequenceFacts ----------------------------
(***************************************************************************)
(* What the operators on sequences that the models are built from compute, *)
(* for sequences of any length: FlattenSeq, the folds and sums over finite *)
(* sets, with the arithmetic the proofs share.  Their                      *)
(* definitions are recursive functions, so each fact is an induction over  *)
(* the natural numbers, in the form of LeastNatural.                       *)
(***************************************************************************)
EXTENDS Loops, FiniteSetTheorems, WellFoundedInduction, TLAPS

-----------------------------------------------------------------------------
(* Induction *)

(* Every non-empty set of natural numbers has a least element. *)
LEMMA LeastNatural ==
  ASSUME NEW S, S \subseteq Nat, S # {}
  PROVE  \E x \in S : \A y \in S : x <= y
<1>1. \E x \in S : \A y \in S : ~ (<<y, x>> \in OpToRel(<, Nat))
  BY NatLessThanWellFounded, WFMin
<1>2. PICK x \in S : \A y \in S : ~ (<<y, x>> \in OpToRel(<, Nat))
  BY <1>1
<1>3. \A y \in S : ~ (y < x)
  BY <1>2 DEF OpToRel
<1>4. QED
  BY <1>3

(* A set of naturals that holds 0 and, below n, the successor of each of   *)
(* its elements holds everything up to n.                                  *)
LEMMA UpTo ==
  ASSUME NEW n \in Nat, NEW T, 0 \in T, \A i \in 0 .. n - 1 : i \in T => i + 1 \in T
  PROVE  0 .. n \subseteq T
<1> DEFINE Missing == {i \in 0 .. n : i \notin T}
<1>1. SUFFICES ASSUME Missing # {} PROVE FALSE
  OBVIOUS
<1>2. Missing \subseteq Nat
  OBVIOUS
<1>3. PICK x \in Missing : \A y \in Missing : x <= y
  <2> HIDE DEF Missing
  <2> QED BY <1>1, <1>2, LeastNatural
<1>4. x \in Nat /\ x # 0 /\ x - 1 \in 0 .. n - 1 /\ (x - 1) + 1 = x
  OBVIOUS
<1>5. x - 1 \in T
  BY <1>3, <1>4
<1>6. QED
  BY <1>4, <1>5

(* A non-empty bounded set of natural numbers has a greatest element. *)
LEMMA MaxProperties ==
  ASSUME NEW S, S \subseteq Nat, S # {}, NEW b \in Nat, \A x \in S : x <= b
  PROVE  Max(S) \in S /\ \A x \in S : x <= Max(S)
<1> DEFINE T == {n \in 0 .. b : b - n \in S}
<1>1. T \subseteq Nat
  OBVIOUS
<1>2. PICK x \in S : TRUE
  OBVIOUS
<1>3. x \in Nat /\ x <= b /\ b - (b - x) = x /\ b - x \in 0 .. b
  OBVIOUS
<1>4. b - x \in T
  BY <1>3
<1>5. PICK n \in T : \A k \in T : n <= k
  <2> HIDE DEF T
  <2> QED BY <1>1, <1>4, LeastNatural
<1>6. b - n \in S
  OBVIOUS
<1>7. \A y \in S : y <= b - n
  <2>1. TAKE y \in S
  <2>2. y \in Nat /\ y <= b /\ b - (b - y) = y /\ b - y \in 0 .. b
    OBVIOUS
  <2>3. b - y \in T
    BY <2>2
  <2>4. n <= b - y
    BY <1>5, <2>3
  <2>5. QED
    BY <2>2, <2>4
<1>8. \E m \in S : \A y \in S : m >= y
  BY <1>6, <1>7
<1>9. QED
  BY <1>8 DEF Max

-----------------------------------------------------------------------------
(* Flattening *)

(* FlattenSeq joins the pieces one after the other. *)
LEMMA FlattenStepwise ==
  ASSUME NEW S, NEW n \in Nat, NEW pieces \in [1 .. n -> Seq(S)]
  PROVE  \E f \in [0 .. n -> Seq(S)] :
           /\ f[0] = <<>>
           /\ \A i \in 1 .. n : f[i] = f[i - 1] \o pieces[i]
           /\ FlattenSeq(pieces) = f[n]
<1> DEFINE Step(f, m) == /\ f \in [0 .. m -> Seq(S)]
                         /\ f[0] = <<>>
                         /\ \A i \in 1 .. m : f[i] = f[i - 1] \o pieces[i]
           T == {m \in 0 .. n : \E f : Step(f, m)}
<1>1. 0 \in T
  <2> DEFINE f == [i \in 0 .. 0 |-> <<>>]
  <2>1. f \in [0 .. 0 -> Seq(S)] /\ f[0] = <<>>
    OBVIOUS
  <2>2. Step(f, 0)
    BY <2>1
  <2>3. \E h : Step(h, 0)
    <3> HIDE DEF Step, f
    <3> QED BY <2>2
  <2>4. QED
    <3> HIDE DEF Step
    <3> QED BY <2>3
<1>2. ASSUME NEW m \in 0 .. n - 1, m \in T PROVE m + 1 \in T
  <2>1. PICK f : Step(f, m)
    BY <1>2
  <2> DEFINE g == [i \in 0 .. m + 1 |-> IF i = m + 1 THEN f[m] \o pieces[m + 1] ELSE f[i]]
  <2>2. f[m] \in Seq(S) /\ pieces[m + 1] \in Seq(S) /\ m + 1 \in 0 .. n
    BY <2>1
  <2>3. g \in [0 .. m + 1 -> Seq(S)]
    BY <2>1, <2>2
  <2>4. g[0] = <<>>
    BY <2>1
  <2>5. ASSUME NEW i \in 1 .. m + 1 PROVE g[i] = g[i - 1] \o pieces[i]
    <3>1. i - 1 \in 0 .. m /\ i \in 0 .. m + 1 /\ i - 1 # m + 1 /\ i - 1 \in 0 .. m + 1
      BY <1>2
    <3>2. g[i - 1] = f[i - 1]
      BY <3>1
    <3>3. CASE i = m + 1
      <4>1. i - 1 = m
        BY <3>3
      <4>2. g[i] = f[m] \o pieces[m + 1]
        BY <3>1, <3>3
      <4>3. QED
        BY <4>1, <4>2, <3>2, <3>3
    <3>4. CASE i # m + 1
      <4>1. i \in 1 .. m /\ g[i] = f[i]
        BY <3>1, <3>4
      <4>2. QED
        BY <4>1, <3>2, <2>1
    <3>5. QED
      BY <3>3, <3>4
  <2>6. QED
    BY <2>2, <2>3, <2>4, <2>5
<1>3. n \in T
  <2> HIDE DEF T
  <2>1. \A m \in 0 .. n - 1 : m \in T => m + 1 \in T
    BY <1>2
  <2>2. 0 .. n \subseteq T
    BY <1>1, <2>1, UpTo
  <2>3. QED
    BY <2>2
<1>4. PICK f : Step(f, n)
  BY <1>3
<1>5. Len(pieces) = n
  OBVIOUS
<1>6. CASE n = 0
  <2>1. pieces = <<>>
    BY <1>6
  <2>2. FlattenSeq(pieces) = pieces
    BY <1>5, <1>6 DEF FlattenSeq
  <2>3. QED
    BY <1>4, <1>6, <2>1, <2>2
<1>7. CASE n # 0
  <2> DEFINE Eq(h) == h = [i \in 1 .. Len(pieces) |-> IF i = 1 THEN pieces[i] ELSE h[i - 1] \o pieces[i]]
             F == CHOOSE h : Eq(h)
             g == [i \in 1 .. n |-> f[i]]
  <2>1. g = [i \in 1 .. n |-> IF i = 1 THEN pieces[i] ELSE g[i - 1] \o pieces[i]]
    <3>1. ASSUME NEW i \in 1 .. n
          PROVE  g[i] = IF i = 1 THEN pieces[i] ELSE g[i - 1] \o pieces[i]
      <4>1. f[i] = f[i - 1] \o pieces[i] /\ g[i] = f[i]
        BY <1>4
      <4>2. CASE i = 1
        <5>1. f[i - 1] = <<>> /\ pieces[i] \in Seq(S)
          BY <1>4, <4>2
        <5>2. QED
          BY <4>1, <4>2, <5>1
      <4>3. CASE i # 1
        <5>1. i - 1 \in 1 .. n
          BY <4>3
        <5>2. QED
          BY <4>1, <4>3, <5>1
      <4>4. QED
        BY <4>2, <4>3
    <3>2. QED
      BY <3>1
  <2>2. Eq(F)
    BY <2>1, <1>5
  <2>3. FlattenSeq(pieces) = F[n]
    BY <1>5, <1>7 DEF FlattenSeq
  <2> DEFINE U == {i \in 0 .. n : i = 0 \/ F[i] = g[i]}
  <2>4. n \in U
    <3>1. 0 \in U
      OBVIOUS
    <3>2. ASSUME NEW i \in 0 .. n - 1, i \in U PROVE i + 1 \in U
      <4> DEFINE j == i + 1
      <4>1. j \in 1 .. n /\ j - 1 = i /\ (j = 1 <=> i = 0) /\ j \in 0 .. n
        OBVIOUS
      <4> HIDE DEF j
      <4>2. F[j] = IF j = 1 THEN pieces[j] ELSE F[j - 1] \o pieces[j]
        <5> HIDE DEF F
        <5> QED BY <2>2, <1>5, <4>1
      <4>3. g[j] = IF j = 1 THEN pieces[j] ELSE g[j - 1] \o pieces[j]
        <5> HIDE DEF g
        <5> QED BY <2>1, <4>1
      <4> HIDE DEF F, g
      <4>4. F[j] = g[j]
        BY <3>2, <4>1, <4>2, <4>3
      <4>5. QED
        BY <4>1, <4>4 DEF j
    <3>3. \A i \in 0 .. n - 1 : i \in U => i + 1 \in U
      BY <3>2
    <3>4. 0 .. n \subseteq U
      <4> HIDE DEF U
      <4> QED BY <3>1, <3>3, UpTo
    <3>5. QED
      <4> HIDE DEF U
      <4> QED BY <3>4
  <2>5. F[n] = g[n]
    <3> HIDE DEF F, g
    <3> QED BY <1>7, <2>4
  <2>6. g[n] = f[n]
    BY <1>7
  <2>7. FlattenSeq(pieces) = f[n]
    BY <2>3, <2>5, <2>6
  <2>8. QED
    BY <1>4, <2>7
<1>8. QED
  BY <1>6, <1>7

(* q is R[a + 1], ..., R[b] one after the other; piece t begins after      *)
(* off[t - 1].                                                             *)
Joined(q, a, b, R, off) ==
  /\ off \in [a .. b -> Nat] /\ off[a] = 0 /\ off[b] = Len(q)
  /\ \A t \in a + 1 .. b : /\ Len(R[t]) \in Nat /\ off[t] = off[t - 1] + Len(R[t])
                           /\ \A k \in 1 .. Len(R[t]) : q[off[t - 1] + k] = R[t][k]

LEMMA JoinedNone ==
  ASSUME NEW a \in Int, NEW R
  PROVE  \E off : Joined(<<>>, a, a, R, off)
<1>1. Joined(<<>>, a, a, R, [t \in a .. a |-> 0])
  BY DEF Joined
<1>2. QED
  BY <1>1

LEMMA JoinedOne ==
  ASSUME NEW S, NEW b \in Int, NEW R, R[b] \in Seq(S)
  PROVE  \E off : Joined(R[b], b - 1, b, R, off)
<1> DEFINE off == [t \in b - 1 .. b |-> IF t = b THEN Len(R[b]) ELSE 0]
<1>1. \A t \in (b - 1) + 1 .. b : t = b
  OBVIOUS
<1>2. b \in b - 1 .. b /\ b - 1 \in b - 1 .. b /\ b - 1 # b /\ Len(R[b]) \in Nat
  OBVIOUS
<1>3. Joined(R[b], b - 1, b, R, off)
  BY <1>1, <1>2 DEF Joined
<1>4. QED
  BY <1>3

LEMMA JoinedGrows ==
  ASSUME NEW a \in Int, NEW b \in Int, NEW q, NEW R, NEW off, Joined(q, a, b, R, off),
         NEW s \in a .. b, NEW t \in a .. b, s <= t
  PROVE  off[s] <= off[t]
<1> DEFINE T == {i \in Nat : s + i <= t => off[s] <= off[s + i]}
<1>1. off \in [a .. b -> Nat]
  BY DEF Joined
<1>2. 0 \in T
  BY <1>1
<1>3. ASSUME NEW i \in 0 .. (t - s) - 1, i \in T PROVE i + 1 \in T
  <2>1. s + (i + 1) \in a + 1 .. b /\ (s + (i + 1)) - 1 = s + i /\ s + i \in a .. b
        /\ s + (i + 1) \in a .. b /\ s + i <= t
    OBVIOUS
  <2>2. off[s + (i + 1)] = off[s + i] + Len(R[s + (i + 1)]) /\ Len(R[s + (i + 1)]) \in Nat
    BY <2>1 DEF Joined
  <2>3. off[s] \in Nat /\ off[s + i] \in Nat /\ off[s + (i + 1)] \in Nat
    BY <2>1, <1>1
  <2>4. off[s] <= off[s + (i + 1)]
    BY <1>3, <2>1, <2>2, <2>3
  <2>5. QED
    BY <2>4
<1>4. t - s \in Nat /\ s + (t - s) = t
  OBVIOUS
<1>5. \A i \in 0 .. (t - s) - 1 : i \in T => i + 1 \in T
  BY <1>3
<1>6. 0 .. t - s \subseteq T
  <2> HIDE DEF T
  <2> QED BY <1>2, <1>4, <1>5, UpTo
<1>7. t - s \in T
  <2> HIDE DEF T
  <2> QED BY <1>4, <1>6
<1>8. QED
  BY <1>4, <1>7

LEMMA JoinedConcat ==
  ASSUME NEW S, NEW q \in Seq(S), NEW r \in Seq(S), NEW R, NEW f, NEW g,
         NEW a \in Int, NEW b \in Int, NEW c \in Int, a <= b, b <= c,
         Joined(q, a, b, R, f), Joined(r, b, c, R, g)
  PROVE  \E h : Joined(q \o r, a, c, R, h)
<1> DEFINE h == [t \in a .. c |-> IF t <= b THEN f[t] ELSE Len(q) + g[t]]
<1>1. /\ f \in [a .. b -> Nat] /\ g \in [b .. c -> Nat] /\ f[a] = 0 /\ g[b] = 0
      /\ f[b] = Len(q) /\ g[c] = Len(r) /\ Len(q) \in Nat /\ Len(r) \in Nat
  BY DEF Joined
<1>2. /\ Len(q \o r) = Len(q) + Len(r)
      /\ \A i \in 1 .. Len(q) : (q \o r)[i] = q[i]
      /\ \A i \in 1 .. Len(r) : (q \o r)[Len(q) + i] = r[i]
  OBVIOUS
<1>3. \A t \in a .. b : h[t] = f[t]
  OBVIOUS
<1>4. \A t \in b .. c : h[t] = Len(q) + g[t]
  BY <1>1
<1>5. h \in [a .. c -> Nat]
  BY <1>1
<1> HIDE DEF h
<1>6. h[a] = 0 /\ h[c] = Len(q \o r)
  <2>1. a \in a .. b /\ c \in b .. c
    OBVIOUS
  <2>2. QED
    BY <1>1, <1>2, <1>3, <1>4, <2>1
<1>7. ASSUME NEW t \in a + 1 .. c
      PROVE  /\ Len(R[t]) \in Nat /\ h[t] = h[t - 1] + Len(R[t])
             /\ \A k \in 1 .. Len(R[t]) : (q \o r)[h[t - 1] + k] = R[t][k]
  <2>1. CASE t <= b
    <3>1. t \in a + 1 .. b /\ t \in a .. b /\ t - 1 \in a .. b
      BY <2>1
    <3>2. Len(R[t]) \in Nat /\ f[t] = f[t - 1] + Len(R[t])
          /\ \A k \in 1 .. Len(R[t]) : q[f[t - 1] + k] = R[t][k]
      BY <3>1 DEF Joined
    <3>3. f[t] <= Len(q)
      BY <2>1, <3>1, <1>1, JoinedGrows
    <3>4. \A k \in 1 .. Len(R[t]) : f[t - 1] + k \in 1 .. Len(q)
      BY <3>1, <3>2, <3>3, <1>1
    <3>5. h[t] = f[t] /\ h[t - 1] = f[t - 1]
      BY <3>1, <1>3
    <3>6. QED
      BY <3>2, <3>4, <3>5, <1>2
  <2>2. CASE b < t
    <3>1. t \in b + 1 .. c /\ t \in b .. c /\ t - 1 \in b .. c
      BY <2>2
    <3>2. Len(R[t]) \in Nat /\ g[t] = g[t - 1] + Len(R[t])
          /\ \A k \in 1 .. Len(R[t]) : r[g[t - 1] + k] = R[t][k]
      BY <3>1 DEF Joined
    <3>3. g[t] <= Len(r)
      <4>1. c \in b .. c /\ t <= c
        OBVIOUS
      <4>2. QED
        BY <3>1, <4>1, <1>1, JoinedGrows
    <3>4. \A k \in 1 .. Len(R[t]) : g[t - 1] + k \in 1 .. Len(r)
      BY <3>1, <3>2, <3>3, <1>1
    <3>5. h[t] = Len(q) + g[t] /\ h[t - 1] = Len(q) + g[t - 1] /\ g[t] \in Nat /\ g[t - 1] \in Nat
      BY <3>1, <1>4, <1>1
    <3>6. h[t] = h[t - 1] + Len(R[t])
      <4>1. PICK l \in Nat, m \in Nat, n \in Nat : l = Len(q) /\ m = g[t - 1] /\ n = Len(R[t])
        BY <3>2, <3>5, <1>1
      <4>2. h[t] = l + (m + n) /\ h[t - 1] = l + m
        BY <3>2, <3>5, <4>1
      <4>3. QED
        BY <4>1, <4>2
    <3>7. \A k \in 1 .. Len(R[t]) : h[t - 1] + k = Len(q) + (g[t - 1] + k)
      BY <3>2, <3>5, <1>1
    <3>8. \A k \in 1 .. Len(R[t]) : (q \o r)[h[t - 1] + k] = R[t][k]
      BY <3>2, <3>4, <3>7, <1>2
    <3>9. QED
      BY <3>2, <3>6, <3>8
  <2>3. t <= b \/ b < t
    OBVIOUS
  <2>4. QED
    BY <2>1, <2>2, <2>3, Zenon
<1>8. Joined(q \o r, a, c, R, h)
  BY <1>5, <1>6, <1>7 DEF Joined
<1>9. QED
  BY <1>8

(* Where the pieces begin depends on their lengths alone. *)
LEMMA JoinedSame ==
  ASSUME NEW a \in Int, NEW b \in Int, a <= b, NEW q, NEW r, NEW Q, NEW R, NEW f, NEW g,
         Joined(q, a, b, Q, f), Joined(r, a, b, R, g),
         \A t \in a + 1 .. b : Len(Q[t]) = Len(R[t])
  PROVE  f = g
<1> DEFINE T == {i \in Nat : a + i <= b => f[a + i] = g[a + i]}
<1>1. f \in [a .. b -> Nat] /\ g \in [a .. b -> Nat] /\ f[a] = 0 /\ g[a] = 0
  BY DEF Joined
<1>2. 0 \in T
  BY <1>1
<1>3. ASSUME NEW i \in 0 .. (b - a) - 1, i \in T PROVE i + 1 \in T
  <2>1. a + (i + 1) \in a + 1 .. b /\ (a + (i + 1)) - 1 = a + i /\ a + i <= b
    OBVIOUS
  <2>2. f[a + (i + 1)] = f[a + i] + Len(Q[a + (i + 1)])
    BY <2>1 DEF Joined
  <2>3. g[a + (i + 1)] = g[a + i] + Len(R[a + (i + 1)])
    BY <2>1 DEF Joined
  <2>4. f[a + (i + 1)] = g[a + (i + 1)]
    BY <1>3, <2>1, <2>2, <2>3
  <2>5. QED
    BY <2>4
<1>4. b - a \in Nat
  OBVIOUS
<1>5. \A i \in 0 .. (b - a) - 1 : i \in T => i + 1 \in T
  BY <1>3
<1>6. 0 .. b - a \subseteq T
  <2> HIDE DEF T
  <2> QED BY <1>2, <1>4, <1>5, UpTo
<1>7. ASSUME NEW t \in a .. b PROVE f[t] = g[t]
  <2>1. t - a \in 0 .. b - a /\ a + (t - a) = t /\ t <= b
    OBVIOUS
  <2>2. t - a \in T
    <3> HIDE DEF T
    <3> QED BY <1>6, <2>1
  <2>3. QED
    BY <2>1, <2>2
<1>8. QED
  BY <1>1, <1>7

(* Every position is in one of the pieces. *)
LEMMA JoinedPosition ==
  ASSUME NEW a \in Int, NEW b \in Int, NEW q, NEW R, NEW off, Joined(q, a, b, R, off),
         NEW p \in 1 .. Len(q), a <= b
  PROVE  \E t \in a + 1 .. b : \E k \in 1 .. Len(R[t]) :
            p = off[t - 1] + k /\ q[p] = R[t][k]
<1> DEFINE S == {i \in Nat : a + i <= b /\ p <= off[a + i]}
<1>1. /\ off \in [a .. b -> Nat] /\ off[a] = 0 /\ off[b] = Len(q) /\ Len(q) \in Nat
      /\ a \in a .. b /\ b \in a .. b
  BY DEF Joined
<1>2. b - a \in Nat /\ a + (b - a) = b
  OBVIOUS
<1>3. b - a \in S
  BY <1>1, <1>2
<1>4. PICK i \in S : \A j \in S : i <= j
  <2>1. S \subseteq Nat /\ S # {}
    BY <1>3
  <2>2. QED
    <3> HIDE DEF S
    <3> QED BY <2>1, LeastNatural
<1>5. i \in Nat /\ a + i <= b /\ p <= off[a + i] /\ p \in Nat /\ 1 <= p
  BY <1>1, <1>4
<1>6. i # 0
  BY <1>1, <1>5
<1> DEFINE t == a + i
<1>7. t \in a + 1 .. b /\ t - 1 = a + (i - 1) /\ i - 1 \in Nat /\ ~ (i <= i - 1)
      /\ t - 1 \in a .. b /\ a + (i - 1) <= b /\ t \in a .. b
  BY <1>5, <1>6
<1>8. ~ (p <= off[t - 1])
  BY <1>4, <1>7
<1> HIDE DEF t
<1>9. Len(R[t]) \in Nat /\ off[t] = off[t - 1] + Len(R[t])
      /\ \A k \in 1 .. Len(R[t]) : q[off[t - 1] + k] = R[t][k]
  BY <1>7 DEF Joined
<1>10. off[t] \in Nat /\ off[t - 1] \in Nat /\ p <= off[t]
  BY <1>1, <1>5, <1>7 DEF t
<1>11. PICK k \in Nat : k = p - off[t - 1]
  BY <1>5, <1>8, <1>10
<1>12. k \in 1 .. Len(R[t]) /\ p = off[t - 1] + k
  BY <1>5, <1>8, <1>9, <1>10, <1>11
<1>13. QED
  BY <1>7, <1>9, <1>12

(* Position p of q is the kth of piece t. *)
InPiece(p, q, n, R, off) ==
  \E t \in 1 .. n : \E k \in 1 .. Len(R[t]) : p = off[t - 1] + k /\ q[p] = R[t][k]

LEMMA JoinedRow ==
  ASSUME NEW n, NEW q, NEW R, NEW off, NEW p, n \in Nat, Joined(q, 0, n, R, off), p \in 1 .. Len(q)
  PROVE  InPiece(p, q, n, R, off)
<1> DEFINE a == 0
<1>1. a \in Int /\ n \in Int /\ a <= n /\ a + 1 = 1
  OBVIOUS
<1>2. Joined(q, a, n, R, off)
  OBVIOUS
<1> HIDE DEF a
<1>3. \E t \in a + 1 .. n : \E k \in 1 .. Len(R[t]) : p = off[t - 1] + k /\ q[p] = R[t][k]
  BY <1>1, <1>2, JoinedPosition
<1>4. QED
  BY <1>1, <1>3 DEF InPiece

(* Conversely, all elements of the pieces are in q, later pieces later. *)
LEMMA JoinedInside ==
  ASSUME NEW a \in Int, NEW b \in Int, NEW q, NEW R, NEW off, Joined(q, a, b, R, off),
         NEW t \in a + 1 .. b
  PROVE  /\ Len(R[t]) \in Nat /\ off[t - 1] \in Nat /\ off[t] \in Nat
         /\ off[t] = off[t - 1] + Len(R[t]) /\ off[t] <= Len(q)
         /\ \A k \in 1 .. Len(R[t]) :
              off[t - 1] + k \in 1 .. Len(q) /\ q[off[t - 1] + k] = R[t][k]
<1>1. off \in [a .. b -> Nat] /\ off[b] = Len(q) /\ Len(q) \in Nat /\ b \in a .. b
  BY DEF Joined
<1>2. t \in a .. b /\ t - 1 \in a .. b /\ t <= b
  OBVIOUS
<1>3. Len(R[t]) \in Nat /\ off[t] = off[t - 1] + Len(R[t])
      /\ \A k \in 1 .. Len(R[t]) : q[off[t - 1] + k] = R[t][k]
  BY DEF Joined
<1>4. off[t] <= Len(q)
  BY <1>1, <1>2, JoinedGrows
<1>5. off[t - 1] \in Nat /\ off[t] \in Nat
  BY <1>1, <1>2
<1>6. \A k \in 1 .. Len(R[t]) : off[t - 1] + k \in 1 .. Len(q)
  BY <1>1, <1>3, <1>4, <1>5
<1>7. QED
  BY <1>3, <1>4, <1>5, <1>6

(* Piece t stands in q after off[t - 1]. *)
PieceAt(t, q, R, off) ==
  /\ Len(R[t]) \in Nat /\ off[t - 1] \in Nat /\ off[t] \in Nat
  /\ off[t] = off[t - 1] + Len(R[t]) /\ off[t] <= Len(q)
  /\ \A k \in 1 .. Len(R[t]) :
       off[t - 1] + k \in 1 .. Len(q) /\ q[off[t - 1] + k] = R[t][k]

LEMMA JoinedPiece ==
  ASSUME NEW n, NEW q, NEW R, NEW off, NEW t, n \in Nat, Joined(q, 0, n, R, off), t \in 1 .. n
  PROVE  PieceAt(t, q, R, off)
<1>1. t \in 0 .. n /\ n \in 0 .. n /\ t - 1 \in 0 .. n /\ t <= n /\ 0 + 1 .. n = 1 .. n
  OBVIOUS
<1>2. off \in [0 .. n -> Nat] /\ off[n] = Len(q)
  BY DEF Joined
<1>3. /\ Len(R[t]) \in Nat /\ off[t] = off[t - 1] + Len(R[t])
      /\ \A k \in 1 .. Len(R[t]) : q[off[t - 1] + k] = R[t][k]
  BY <1>1 DEF Joined
<1>4. off[t] <= off[n]
  <2>1. PICK a, b : a = 0 /\ b = n
    OBVIOUS
  <2>2. Joined(q, a, b, R, off) /\ a \in Int /\ b \in Int /\ t \in a .. b /\ n \in a .. b
    BY <1>1, <2>1
  <2>3. QED
    BY <1>1, <2>2, JoinedGrows
<1>5. off[t - 1] \in Nat /\ off[t] \in Nat /\ off[t] <= Len(q) /\ Len(q) \in Nat
  BY <1>1, <1>2, <1>4
<1>6. \A k \in 1 .. Len(R[t]) : off[t - 1] + k \in 1 .. Len(q)
  BY <1>3, <1>5
<1>7. QED
  BY <1>3, <1>5, <1>6 DEF PieceAt

(* FlattenSeq joins all pieces. *)
LEMMA FlattenJoins ==
  ASSUME NEW S, NEW n \in Nat, NEW pieces \in [1 .. n -> Seq(S)]
  PROVE  /\ FlattenSeq(pieces) \in Seq(S)
         /\ \E off : Joined(FlattenSeq(pieces), 0, n, pieces, off)
<1>1. PICK f \in [0 .. n -> Seq(S)] :
           /\ f[0] = <<>>
           /\ \A i \in 1 .. n : f[i] = f[i - 1] \o pieces[i]
           /\ FlattenSeq(pieces) = f[n]
  BY FlattenStepwise
<1> DEFINE Upto(i) == \E off : Joined(f[i], 0, i, pieces, off)
           T == {i \in 0 .. n : Upto(i)}
<1>2. 0 \in T
  <2>0. 0 \in Int
    OBVIOUS
  <2>1. \E off : Joined(<<>>, 0, 0, pieces, off)
    BY <2>0, JoinedNone, Zenon
  <2>2. Upto(0)
    BY <1>1, <2>1
  <2>3. QED
    <3> HIDE DEF Upto
    <3> QED BY <2>2
<1>3. ASSUME NEW i \in 0 .. n - 1, i \in T PROVE i + 1 \in T
  <2> DEFINE j == i + 1
  <2>1. j \in 1 .. n /\ j - 1 = i /\ i \in Nat /\ j \in Int /\ 0 <= i /\ i <= j /\ i \in Int /\ i \in 0 .. n
        /\ j \in 0 .. n
    OBVIOUS
  <2> HIDE DEF j
  <2>2. PICK g : Joined(f[i], 0, i, pieces, g)
    BY <1>3
  <2>3. pieces[j] \in Seq(S) /\ f[i] \in Seq(S) /\ f[j] = f[i] \o pieces[j]
    BY <1>1, <2>1
  <2>4. \E h : Joined(pieces[j], i, j, pieces, h)
    BY <2>1, <2>3, JoinedOne
  <2>5. PICK h : Joined(pieces[j], i, j, pieces, h)
    BY <2>4
  <2>6. \E k : Joined(f[j], 0, j, pieces, k)
    BY <2>1, <2>2, <2>3, <2>5, JoinedConcat
  <2>7. Upto(j)
    BY <2>6
  <2>8. QED
    <3> HIDE DEF Upto
    <3> QED BY <2>1, <2>7 DEF j
<1>4. \A i \in 0 .. n - 1 : i \in T => i + 1 \in T
  BY <1>3
<1>5. n \in T
  <2> HIDE DEF T
  <2>1. 0 .. n \subseteq T
    BY <1>2, <1>4, UpTo
  <2>2. QED
    BY <2>1
<1>6. Upto(n)
  <2> HIDE DEF Upto
  <2> QED BY <1>5
<1>7. f[n] \in Seq(S)
  OBVIOUS
<1>8. QED
  BY <1>1, <1>6, <1>7

(* Where the pieces are counted from does not matter. *)
LEMMA JoinedShift ==
  ASSUME NEW a \in Int, NEW b \in Int, NEW s \in Int, NEW q, NEW P, NEW R, NEW f,
         a <= b, Joined(q, a, b, P, f), \A t \in a + 1 .. b : R[s + t] = P[t]
  PROVE  \E g : Joined(q, s + a, s + b, R, g)
<1> DEFINE g == [t \in s + a .. s + b |-> f[t - s]]
<1>1. f \in [a .. b -> Nat] /\ f[a] = 0 /\ f[b] = Len(q) /\ a \in a .. b /\ b \in a .. b
  BY DEF Joined
<1>2. \A t \in s + a .. s + b : t - s \in a .. b
  OBVIOUS
<1>3. g \in [s + a .. s + b -> Nat]
  BY <1>1, <1>2
<1>4. \A t \in s + a .. s + b : g[t] = f[t - s]
  OBVIOUS
<1> HIDE DEF g
<1>5. g[s + a] = 0 /\ g[s + b] = Len(q)
  <2>1. s + a \in s + a .. s + b /\ s + b \in s + a .. s + b /\ (s + a) - s = a /\ (s + b) - s = b
    BY <1>1
  <2>2. QED
    BY <1>1, <1>4, <2>1
<1>6. ASSUME NEW t \in (s + a) + 1 .. s + b
      PROVE  /\ Len(R[t]) \in Nat /\ g[t] = g[t - 1] + Len(R[t])
             /\ \A k \in 1 .. Len(R[t]) : q[g[t - 1] + k] = R[t][k]
  <2> DEFINE u == t - s
  <2>1. u \in a + 1 .. b /\ s + u = t /\ t - 1 \in s + a .. s + b /\ t \in s + a .. s + b
        /\ (t - 1) - s = u - 1
    OBVIOUS
  <2>2. g[t] = f[u] /\ g[t - 1] = f[u - 1]
    BY <1>4, <2>1
  <2> HIDE DEF u
  <2>3. R[t] = P[u]
    BY <2>1
  <2>4. /\ Len(P[u]) \in Nat /\ f[u] = f[u - 1] + Len(P[u])
        /\ \A k \in 1 .. Len(P[u]) : q[f[u - 1] + k] = P[u][k]
    BY <2>1 DEF Joined
  <2>5. QED
    BY <2>2, <2>3, <2>4
<1>7. Joined(q, s + a, s + b, R, g)
  BY <1>3, <1>5, <1>6 DEF Joined
<1>8. QED
  BY <1>7

(* c[i - 1] and c[i] delimit the pieces of R that are in the ith sequence. *)
Chunked(seqs, n, c, R) ==
  /\ c \in [0 .. n -> Int] /\ c[0] = 0
  /\ \A i \in 1 .. n : c[i - 1] <= c[i] /\ \E off : Joined(seqs[i], c[i - 1], c[i], R, off)

(* FlattenSeq of sequences that join pieces joins the pieces. *)
LEMMA FlattenChunks ==
  ASSUME NEW S, NEW n \in Nat, NEW seqs \in [1 .. n -> Seq(S)], NEW c, NEW R,
         Chunked(seqs, n, c, R)
  PROVE  \E off : Joined(FlattenSeq(seqs), 0, c[n], R, off)
<1>1. PICK f \in [0 .. n -> Seq(S)] :
           /\ f[0] = <<>>
           /\ \A i \in 1 .. n : f[i] = f[i - 1] \o seqs[i]
           /\ FlattenSeq(seqs) = f[n]
  BY FlattenStepwise
<1> DEFINE Upto(i) == 0 <= c[i] /\ \E off : Joined(f[i], 0, c[i], R, off)
           T == {i \in 0 .. n : Upto(i)}
<1>2. 0 \in T
  <2>0. 0 \in Int /\ 0 <= 0
    OBVIOUS
  <2>1. \E off : Joined(<<>>, 0, 0, R, off)
    BY <2>0, JoinedNone, Zenon
  <2>2. Upto(0)
    BY <1>1, <2>0, <2>1 DEF Chunked
  <2>3. QED
    <3> HIDE DEF Upto
    <3> QED BY <2>2
<1>3. ASSUME NEW i \in 0 .. n - 1, i \in T PROVE i + 1 \in T
  <2> DEFINE j == i + 1
  <2>1. j \in 1 .. n /\ j - 1 = i /\ i \in 0 .. n /\ j \in 0 .. n
    OBVIOUS
  <2> HIDE DEF j
  <2>2. PICK g : Joined(f[i], 0, c[i], R, g)
    BY <1>3
  <2>3. seqs[j] \in Seq(S) /\ f[i] \in Seq(S) /\ f[j] = f[i] \o seqs[j]
    BY <1>1, <2>1
  <2>4. c[i] \in Int /\ c[j] \in Int /\ 0 <= c[i] /\ c[i] <= c[j] /\ 0 \in Int
    BY <1>3, <2>1 DEF Chunked
  <2>5. PICK h : Joined(seqs[j], c[i], c[j], R, h)
    BY <2>1 DEF Chunked
  <2>6. \E k : Joined(f[j], 0, c[j], R, k)
    BY <2>2, <2>3, <2>4, <2>5, JoinedConcat
  <2>7. 0 <= c[j]
    BY <2>4
  <2>8. Upto(j)
    BY <2>6, <2>7
  <2>9. QED
    <3> HIDE DEF Upto
    <3> QED BY <2>1, <2>8 DEF j
<1>4. \A i \in 0 .. n - 1 : i \in T => i + 1 \in T
  BY <1>3
<1>5. n \in T
  <2> HIDE DEF T
  <2>1. 0 .. n \subseteq T
    BY <1>2, <1>4, UpTo
  <2>2. QED
    BY <2>1
<1>6. QED
  BY <1>1, <1>5

(* Pieces of length 1. *)
LEMMA JoinedSingles ==
  ASSUME NEW n \in Nat, NEW q, NEW R, NEW off, Joined(q, 0, n, R, off),
         \A t \in 1 .. n : Len(R[t]) = 1
  PROVE  Len(q) = n /\ \A t \in 1 .. n : q[t] = R[t][1]
<1> DEFINE r == [t \in 1 .. n |-> R[t][1]]
           g == [t \in 0 .. n |-> t]
<1>1. Joined(r, 0, n, R, g)
  <2>1. g \in [0 .. n -> Nat] /\ g[0] = 0 /\ g[n] = Len(r) /\ 0 + 1 = 1
    OBVIOUS
  <2>2. ASSUME NEW t \in 0 + 1 .. n
        PROVE  /\ Len(R[t]) \in Nat /\ g[t] = g[t - 1] + Len(R[t])
               /\ \A k \in 1 .. Len(R[t]) : r[g[t - 1] + k] = R[t][k]
    <3>1. t \in 1 .. n /\ t - 1 \in 0 .. n /\ t \in 0 .. n
      OBVIOUS
    <3>2. Len(R[t]) = 1 /\ g[t] = t /\ g[t - 1] = t - 1 /\ \A k \in 1 .. 1 : k = 1 /\ (t - 1) + k = t
      BY <3>1
    <3>3. r[t] = R[t][1]
      BY <3>1
    <3> HIDE DEF r, g
    <3>4. QED
      BY <3>1, <3>2, <3>3
  <2>3. QED
    <3> HIDE DEF r, g
    <3> QED BY <2>1, <2>2 DEF Joined
<1>2. 0 \in Int /\ n \in Int /\ 0 <= n /\ 0 + 1 = 1
  OBVIOUS
<1>3. off = g
  <2> HIDE DEF r, g
  <2> QED BY <1>1, <1>2, JoinedSame
<1>4. Len(q) = n
  BY <1>3 DEF Joined
<1>5. ASSUME NEW t \in 1 .. n PROVE q[t] = R[t][1]
  <2>1. t - 1 \in 0 .. n /\ (t - 1) + 1 = t /\ t \in 0 + 1 .. n
    OBVIOUS
  <2>2. g[t - 1] = t - 1
    BY <2>1
  <2>3. \A k \in 1 .. Len(R[t]) : q[off[t - 1] + k] = R[t][k]
    BY <2>1 DEF Joined
  <2>4. Len(R[t]) = 1 /\ 1 \in 1 .. 1
    OBVIOUS
  <2>5. q[off[t - 1] + 1] = R[t][1]
    BY <2>3, <2>4
  <2> HIDE DEF g
  <2>6. QED
    BY <1>3, <2>1, <2>2, <2>5
<1>6. QED
  BY <1>4, <1>5

(* Pieces of one length begin at its multiples. *)
Even(off, n, len) == \A t \in 0 .. n : off[t] = t * len

OfLength(R, n, len) == \A t \in 1 .. n : Len(R[t]) = len

(* Pieces of one length begin at its multiples. *)
LEMMA JoinedEven ==
  ASSUME NEW n \in Nat, NEW q, NEW R, NEW off, Joined(q, 0, n, R, off),
         NEW len \in Nat, OfLength(R, n, len)
  PROVE  Even(off, n, len)
<1> DEFINE T == {t \in 0 .. n : off[t] = t * len}
<1>1. 0 \in T
  BY DEF Joined
<1>2. ASSUME NEW t \in 0 .. n - 1, t \in T PROVE t + 1 \in T
  <2>1. t + 1 \in 0 + 1 .. n /\ (t + 1) - 1 = t /\ t + 1 \in 1 .. n /\ t + 1 \in 0 .. n /\ t \in Nat
    OBVIOUS
  <2>2. off[t + 1] = off[t] + Len(R[t + 1])
    BY <2>1 DEF Joined
  <2>3. off[t + 1] = t * len + len
    BY <1>2, <2>1, <2>2 DEF OfLength
  <2>4. t * len + len = (t + 1) * len
    BY <2>1
  <2>5. QED
    BY <2>1, <2>3, <2>4
<1>3. \A t \in 0 .. n - 1 : t \in T => t + 1 \in T
  BY <1>2
<1>4. 0 .. n \subseteq T
  <2> HIDE DEF T
  <2> QED BY <1>1, <1>3, UpTo
<1>5. QED
  BY <1>4 DEF Even

-----------------------------------------------------------------------------
(* Folds *)

(* An operator on pairs (G) carried along 1 .. n, from below (f) and as    *)
(* MapThenFoldSet carries it, over all subsets by their greatest element.  *)
Along(f, n, base, G) ==
  /\ f[0] = base
  /\ \A i \in 1 .. n : f[i] = G[f[i - 1]][i]

OverSubsets(h, n, base, G) ==
  /\ h[{}] = base
  /\ \A s \in SUBSET (1 .. n) : s # {} => h[s] = G[h[s \ {Max(s)}]][Max(s)]

Closed(G, X, n) == \A x \in X, i \in 1 .. n : G[x][i] \in X

Folded(f, h, n, X, base, G) ==
  /\ f \in [0 .. n -> X] /\ h \in [SUBSET (1 .. n) -> X]
  /\ Along(f, n, base, G) /\ OverSubsets(h, n, base, G)
  /\ \A i \in 0 .. n : h[1 .. i] = f[i]

LEMMA FoldExists ==
  ASSUME NEW n \in Nat, NEW X, NEW base \in X, NEW G, Closed(G, X, n)
  PROVE  \E f, h : Folded(f, h, n, X, base, G)
<1> USE DEF Closed
<1> DEFINE Good(m) ==
      \E f \in [0 .. m -> X], h \in [SUBSET (1 .. m) -> X] :
           /\ Along(f, m, base, G) /\ OverSubsets(h, m, base, G)
           /\ \A i \in 0 .. m : h[1 .. i] = f[i]
    T == {m \in 0 .. n : Good(m)}
<1>1. 0 \in T
  <2> DEFINE f == [i \in 0 .. 0 |-> base]
             h == [s \in SUBSET (1 .. 0) |-> base]
  <2>1. f \in [0 .. 0 -> X] /\ h \in [SUBSET (1 .. 0) -> X] /\ 1 .. 0 = {}
    OBVIOUS
  <2>2. Along(f, 0, base, G)
    BY <2>1 DEF Along
  <2>3. OverSubsets(h, 0, base, G)
    <3>1. SUBSET (1 .. 0) = {{}}
      BY <2>1
    <3>2. QED
      BY <3>1 DEF OverSubsets
  <2>4. \A i \in 0 .. 0 : h[1 .. i] = f[i]
    BY <2>1
  <2>5. Good(0)
    <3> HIDE DEF f, h
    <3> QED BY <2>1, <2>2, <2>3, <2>4
  <2>6. QED
    <3> HIDE DEF Good
    <3> QED BY <2>5
<1>2. ASSUME NEW m \in 0 .. n - 1, m \in T PROVE m + 1 \in T
  <2>1. PICK f \in [0 .. m -> X], h \in [SUBSET (1 .. m) -> X] :
           /\ Along(f, m, base, G) /\ OverSubsets(h, m, base, G)
           /\ \A i \in 0 .. m : h[1 .. i] = f[i]
    BY <1>2
  <2> DEFINE k == m + 1
  <2>2. k \in 1 .. n /\ k \in 0 .. n /\ k - 1 = m /\ m \in Nat /\ k \notin 1 .. m
        /\ 1 .. k = (1 .. m) \cup {k} /\ 0 .. k = (0 .. m) \cup {k} /\ k \notin 0 .. m /\ m \in 0 .. m
    OBVIOUS
  <2> HIDE DEF k
  <2> DEFINE f2 == [i \in 0 .. k |-> IF i = k THEN G[f[m]][k] ELSE f[i]]
             h2 == [s \in SUBSET (1 .. k) |-> IF k \in s THEN G[h[s \ {k}]][k] ELSE h[s]]
  <2>3. \A s \in SUBSET (1 .. k) : s \ {k} \in SUBSET (1 .. m) /\ (k \notin s => s \in SUBSET (1 .. m))
    BY <2>2
  <2>4. f2 \in [0 .. k -> X] /\ h2 \in [SUBSET (1 .. k) -> X]
    <3>1. \A i \in 0 .. k : f2[i] \in X
      BY <2>2
    <3>2. \A s \in SUBSET (1 .. k) : h2[s] \in X
      BY <2>2, <2>3
    <3>3. QED
      BY <3>1, <3>2
  <2>5. Along(f2, k, base, G)
    <3>1. f2[0] = base
      BY <2>1, <2>2 DEF Along
    <3>2. ASSUME NEW i \in 1 .. k PROVE f2[i] = G[f2[i - 1]][i]
      <4>1. i - 1 \in 0 .. k /\ i - 1 # k /\ i \in 0 .. k /\ (i # k => i \in 1 .. m) /\ (i = k => i - 1 = m)
        BY <2>2
      <4>2. f2[i - 1] = f[i - 1]
        BY <4>1
      <4>3. CASE i = k
        BY <4>1, <4>2, <4>3
      <4>4. CASE i # k
        BY <4>1, <4>2, <4>4, <2>1 DEF Along
      <4>5. QED
        BY <4>3, <4>4
    <3>3. QED
      <4> HIDE DEF f2
      <4> QED BY <3>1, <3>2 DEF Along
  <2>6. OverSubsets(h2, k, base, G)
    <3>1. h2[{}] = base
      BY <2>1 DEF OverSubsets
    <3>2. ASSUME NEW s \in SUBSET (1 .. k), s # {}
          PROVE  h2[s] = G[h2[s \ {Max(s)}]][Max(s)]
      <4>1. s \subseteq Nat /\ k \in Nat /\ \A x \in s : x <= k
        BY <2>2
      <4>2. Max(s) \in s /\ \A x \in s : x <= Max(s)
        BY <4>1, <3>2, MaxProperties
      <4>3. s \ {Max(s)} \in SUBSET (1 .. k)
        OBVIOUS
      <4>4. CASE k \in s
        <5>1. Max(s) = k
          <6>1. Max(s) \in Nat /\ k <= Max(s) /\ Max(s) <= k
            BY <4>1, <4>2, <4>4
          <6>2. QED
            BY <6>1, <4>1
        <5>2. h2[s \ {k}] = h[s \ {k}]
          BY <4>3, <5>1
        <5>3. QED
          BY <5>1, <5>2, <4>4
      <4>5. CASE k \notin s
        <5>1. s \in SUBSET (1 .. m) /\ k \notin s \ {Max(s)}
          BY <2>3, <4>5
        <5>2. h2[s] = h[s] /\ h2[s \ {Max(s)}] = h[s \ {Max(s)}]
          BY <5>1, <4>5, <4>3
        <5>3. h[s] = G[h[s \ {Max(s)}]][Max(s)]
          BY <2>1, <3>2, <5>1 DEF OverSubsets
        <5>4. QED
          BY <5>2, <5>3
      <4>6. QED
        BY <4>4, <4>5
    <3>3. QED
      <4> HIDE DEF h2
      <4> QED BY <3>1, <3>2 DEF OverSubsets
  <2>7. ASSUME NEW i \in 0 .. k PROVE h2[1 .. i] = f2[i]
    <3>1. 1 .. i \in SUBSET (1 .. k)
      BY <2>2
    <3>2. CASE i = k
      <4>1. k \in 1 .. k /\ (1 .. k) \ {k} = 1 .. m
        BY <2>2
      <4>2. QED
        BY <3>1, <3>2, <4>1, <2>1, <2>2
    <3>3. CASE i # k
      <4>1. k \notin 1 .. i /\ i \in 0 .. m
        BY <2>2, <3>3
      <4>2. QED
        BY <3>1, <4>1, <3>3, <2>1
    <3>4. QED
      BY <3>2, <3>3
  <2>8. Good(k)
    <3> HIDE DEF f2, h2
    <3> QED BY <2>4, <2>5, <2>6, <2>7
  <2>9. QED
    <3> HIDE DEF Good
    <3> QED BY <2>8, <2>2 DEF k
<1>3. \A m \in 0 .. n - 1 : m \in T => m + 1 \in T
  BY <1>2
<1>4. n \in T
  <2> HIDE DEF T
  <2>1. 0 .. n \subseteq T
    BY <1>1, <1>3, UpTo
  <2>2. QED
    BY <2>1
<1>5. QED
  <2> HIDE DEF Good
  <2>1. Good(n)
    BY <1>4
  <2>2. QED
    BY <2>1 DEF Good, Folded

(* Two functions on the subsets of 1 .. n that agree on the empty set and, *)
(* where they agree without the greatest element, also with it, are equal. *)
AgreeUpwards(g, h, n) ==
  /\ g[{}] = h[{}]
  /\ \A s \in SUBSET (1 .. n) :
       s # {} /\ g[s \ {Max(s)}] = h[s \ {Max(s)}] => g[s] = h[s]

LEMMA FoldUnique ==
  ASSUME NEW n \in Nat, NEW g, NEW h, AgreeUpwards(g, h, n)
  PROVE  \A s \in SUBSET (1 .. n) : g[s] = h[s]
<1> USE DEF AgreeUpwards
<1> DEFINE T == {m \in 0 .. n : \A s \in SUBSET (1 .. m) : g[s] = h[s]}
<1>1. 0 \in T
  <2>1. SUBSET (1 .. 0) = {{}}
    OBVIOUS
  <2>2. \A s \in SUBSET (1 .. 0) : g[s] = h[s]
    BY <2>1
  <2>3. QED
    BY <2>2
<1>2. ASSUME NEW m \in 0 .. n - 1, m \in T PROVE m + 1 \in T
  <2>0. m + 1 \in 0 .. n
    OBVIOUS
  <2>1. SUFFICES ASSUME NEW s \in SUBSET (1 .. m + 1) PROVE g[s] = h[s]
    BY <2>0
  <2>2. CASE s = {}
    BY <2>2
  <2>3. CASE s # {}
    <3>1. s \subseteq Nat /\ m + 1 \in Nat /\ \A x \in s : x <= m + 1
      OBVIOUS
    <3>2. Max(s) \in s /\ \A x \in s : x <= Max(s)
      BY <3>1, <2>3, MaxProperties
    <3>3. s \in SUBSET (1 .. n)
      OBVIOUS
    <3>4. s \ {Max(s)} \in SUBSET (1 .. m)
      <4>1. SUFFICES ASSUME NEW x \in s, x # Max(s) PROVE x \in 1 .. m
        OBVIOUS
      <4>2. x \in 1 .. m + 1 /\ Max(s) \in 1 .. m + 1 /\ x <= Max(s)
        BY <3>2
      <4>3. QED
        BY <4>1, <4>2
    <3>5. QED
      BY <1>2, <2>3, <3>3, <3>4
  <2>4. QED
    BY <2>2, <2>3
<1>3. \A m \in 0 .. n - 1 : m \in T => m + 1 \in T
  BY <1>2
<1>4. 0 .. n \subseteq T
  <2> HIDE DEF T
  <2> QED BY <1>1, <1>3, UpTo
<1>5. QED
  BY <1>4

-----------------------------------------------------------------------------
(* Sums along a sequence of integers *)

(* The elements of a concatenation. *)
LEMMA ConcatElements ==
  ASSUME NEW S, NEW a \in Seq(S), NEW b \in Seq(S)
  PROVE  /\ a \o b \in Seq(S) /\ Len(a) \in Nat /\ Len(b) \in Nat
         /\ Len(a \o b) = Len(a) + Len(b)
         /\ (\A k \in 1 .. Len(a) : (a \o b)[k] = a[k])
         /\ \A k \in 1 .. Len(b) : (a \o b)[Len(a) + k] = b[k]
OBVIOUS

SumsAlong(f, q, n) ==
  f \in [0 .. n -> Int] /\ f[0] = 0 /\ \A i \in 1 .. n : f[i] = f[i - 1] + q[i]

(* Sum adds up from the front. *)
LEMMA SumSteps ==
  ASSUME NEW n \in Nat, NEW q \in [1 .. n -> Int]
  PROVE  \E f : SumsAlong(f, q, n) /\ Sum(q) = f[n]
<1> DEFINE G == [x \in Int |-> [i \in 1 .. n |-> x + q[i]]]
           Eq(h) == h = [s \in SUBSET (DOMAIN q) |->
                           IF s = {} THEN 0 ELSE LET x == Max(s) IN h[s \ {x}] + q[x]]
           F == CHOOSE h : Eq(h)
<1>1. \A x \in Int, i \in 1 .. n : G[x][i] \in Int
  OBVIOUS
<1>2. DOMAIN q = 1 .. n /\ 0 \in Int
  OBVIOUS
<1>3. PICK f, h : Folded(f, h, n, Int, 0, G)
  <2> HIDE DEF G
  <2>1. Closed(G, Int, n)
    BY <1>1 DEF Closed
  <2>2. QED
    BY <1>2, <2>1, FoldExists
<1>4. f \in [0 .. n -> Int] /\ h \in [SUBSET (1 .. n) -> Int] /\ h[1 .. n] = f[n]
      /\ OverSubsets(h, n, 0, G) /\ Along(f, n, 0, G)
  BY <1>3 DEF Folded
<1>5. ASSUME NEW s \in SUBSET (1 .. n), s # {}
      PROVE  Max(s) \in s /\ s \ {Max(s)} \in SUBSET (1 .. n) /\ Max(s) \in 1 .. n
  <2>1. s \subseteq Nat /\ \A x \in s : x <= n
    OBVIOUS
  <2>2. QED
    BY <2>1, <1>5, MaxProperties
<1>6. \A s \in SUBSET (1 .. n) : s # {} => h[s] = h[s \ {Max(s)}] + q[Max(s)]
  <2>1. SUFFICES ASSUME NEW s \in SUBSET (1 .. n), s # {}
                 PROVE  h[s] = h[s \ {Max(s)}] + q[Max(s)]
    OBVIOUS
  <2>2. h[s] = G[h[s \ {Max(s)}]][Max(s)]
    BY <1>4, <2>1 DEF OverSubsets
  <2>3. h[s \ {Max(s)}] \in Int /\ Max(s) \in 1 .. n
    BY <1>4, <1>5, <2>1
  <2>4. QED
    BY <2>2, <2>3
<1>7. h[{}] = 0
  BY <1>4 DEF OverSubsets
<1>8. Eq(h)
  BY <1>2, <1>4, <1>6, <1>7
<1>9. Eq(F)
  <2> HIDE DEF Eq
  <2> QED BY <1>8
<1>10. F[1 .. n] = h[1 .. n]
  <2> HIDE DEF F
  <2>1. F[{}] = 0 /\ \A s \in SUBSET (1 .. n) : s # {} => F[s] = F[s \ {Max(s)}] + q[Max(s)]
    BY <1>2, <1>9
  <2>2. AgreeUpwards(F, h, n)
    BY <1>6, <1>7, <2>1 DEF AgreeUpwards
  <2>3. \A s \in SUBSET (1 .. n) : F[s] = h[s]
    BY <2>2, FoldUnique
  <2>4. QED
    BY <2>3
<1>11. Sum(q) = F[DOMAIN q]
  BY DEF Sum, FoldLeft, MapThenFoldSet
<1>12. Sum(q) = f[n]
  <2> HIDE DEF F
  <2> QED BY <1>2, <1>4, <1>10, <1>11
<1>13. f[0] = 0 /\ \A i \in 1 .. n : f[i] = f[i - 1] + q[i]
  <2>1. ASSUME NEW i \in 1 .. n PROVE f[i] = f[i - 1] + q[i]
    <3>1. f[i] = G[f[i - 1]][i]
      <4> HIDE DEF G
      <4> QED BY <1>4 DEF Along
    <3>2. f[i - 1] \in Int
      BY <1>4
    <3>3. QED
      BY <3>1, <3>2
  <2>2. QED
    BY <2>1, <1>4 DEF Along
<1>14. QED
  BY <1>4, <1>12, <1>13 DEF SumsAlong

(* Whatever adds up along q ends with its sum. *)
LEMMA SumIs ==
  ASSUME NEW n \in Nat, NEW q \in [1 .. n -> Int], NEW g, SumsAlong(g, q, n)
  PROVE  Sum(q) = g[n]
<1>1. PICK f : SumsAlong(f, q, n) /\ Sum(q) = f[n]
  BY SumSteps
<1> DEFINE T == {i \in 0 .. n : f[i] = g[i]}
<1>2. 0 \in T
  BY <1>1 DEF SumsAlong
<1>3. ASSUME NEW i \in 0 .. n - 1, i \in T PROVE i + 1 \in T
  <2>1. i + 1 \in 1 .. n /\ (i + 1) - 1 = i
    OBVIOUS
  <2>2. f[i + 1] = f[i] + q[i + 1] /\ g[i + 1] = g[i] + q[i + 1]
    BY <1>1, <2>1 DEF SumsAlong
  <2>3. QED
    BY <1>3, <2>1, <2>2
<1>4. \A i \in 0 .. n - 1 : i \in T => i + 1 \in T
  BY <1>3
<1>5. 0 .. n \subseteq T
  <2> HIDE DEF T
  <2> QED BY <1>2, <1>4, UpTo
<1>6. QED
  BY <1>1, <1>5

LEMMA SumNone == Sum(<<>>) = 0
<1> DEFINE q == <<>>
           f == [i \in 0 .. 0 |-> 0]
<1>1. q \in [1 .. 0 -> Int]
  OBVIOUS
<1>2. SumsAlong(f, q, 0) /\ f[0] = 0
  BY DEF SumsAlong
<1> HIDE DEF q, f
<1>3. Sum(q) = 0
  BY <1>1, <1>2, SumIs
<1>4. QED
  BY <1>3 DEF q

LEMMA SumConcat ==
  ASSUME NEW p \in Seq(Int), NEW q \in Seq(Int)
  PROVE  /\ Sum(p) \in Int /\ Sum(q) \in Int
         /\ Sum(p \o q) = Sum(p) + Sum(q)
<1> DEFINE m == Len(p)
           n == Len(q)
           r == p \o q
<1>1. /\ m \in Nat /\ n \in Nat /\ p \in [1 .. m -> Int] /\ q \in [1 .. n -> Int]
      /\ r \in [1 .. m + n -> Int] /\ m + n \in Nat
      /\ \A i \in 1 .. m : r[i] = p[i]
      /\ \A i \in m + 1 .. m + n : r[i] = q[i - m]
  <2>1. m \in Nat /\ n \in Nat /\ p \in [1 .. m -> Int] /\ q \in [1 .. n -> Int] /\ m + n \in Nat
    OBVIOUS
  <2>2. r \in Seq(Int) /\ Len(r) = m + n /\ (\A i \in 1 .. m : r[i] = p[i])
        /\ \A i \in 1 .. n : r[m + i] = q[i]
    OBVIOUS
  <2> HIDE DEF r, m, n
  <2>3. \A i \in m + 1 .. m + n : i - m \in 1 .. n /\ m + (i - m) = i
    BY <2>1
  <2>4. \A i \in m + 1 .. m + n : r[i] = q[i - m]
    BY <2>2, <2>3
  <2>5. r \in [1 .. m + n -> Int]
    BY <2>2
  <2>6. QED
    BY <2>1, <2>2, <2>4, <2>5
<1>2. PICK f : SumsAlong(f, p, m) /\ Sum(p) = f[m]
  <2> HIDE DEF m, n, r
  <2> QED BY <1>1, SumSteps
<1>3. PICK g : SumsAlong(g, q, n) /\ Sum(q) = g[n]
  <2> HIDE DEF m, n, r
  <2> QED BY <1>1, SumSteps
<1> DEFINE h == [i \in 0 .. m + n |-> IF i <= m THEN f[i] ELSE f[m] + g[i - m]]
<1> HIDE DEF m, n, r
<1>4. SumsAlong(h, r, m + n)
  <2>1. \A i \in 0 .. m + n : h[i] \in Int
    <3>1. SUFFICES ASSUME NEW i \in 0 .. m + n PROVE h[i] \in Int
      OBVIOUS
    <3>2. i <= m => i \in 0 .. m
      BY <1>1
    <3>3. ~ (i <= m) => i - m \in 0 .. n
      BY <1>1
    <3>4. m \in 0 .. m
      BY <1>1
    <3>5. f \in [0 .. m -> Int] /\ g \in [0 .. n -> Int]
      BY <1>2, <1>3 DEF SumsAlong
    <3>6. CASE i <= m
      BY <3>1, <3>2, <3>5, <3>6
    <3>7. CASE ~ (i <= m)
      <4>1. f[m] \in Int /\ g[i - m] \in Int
        BY <3>3, <3>4, <3>5, <3>7
      <4>2. h[i] = f[m] + g[i - m]
        BY <3>7
      <4>3. QED
        BY <4>1, <4>2
    <3>8. QED
      BY <3>6, <3>7
  <2>2. h[0] = 0
    BY <1>1, <1>2 DEF SumsAlong
  <2>3. ASSUME NEW i \in 1 .. m + n PROVE h[i] = h[i - 1] + r[i]
    <3>1. i - 1 \in 0 .. m + n /\ i \in 0 .. m + n
      BY <1>1
    <3>2. CASE i <= m
      <4>1. i \in 1 .. m /\ i - 1 <= m
        BY <1>1, <3>2
      <4>2. QED
        BY <1>1, <1>2, <3>1, <3>2, <4>1 DEF SumsAlong
    <3>3. CASE i = m + 1
      <4>1. 1 \in 1 .. n /\ i - m = 1 /\ i - 1 = m /\ i \in m + 1 .. m + n /\ ~ (i <= m)
        BY <1>1, <3>3
      <4>2. g[1] = q[1] /\ q[1] \in Int
        BY <1>1, <1>3, <4>1 DEF SumsAlong
      <4>3. h[i] = f[m] + g[1] /\ h[i - 1] = f[m] /\ r[i] = q[1]
        BY <1>1, <3>1, <4>1
      <4>4. QED
        BY <4>2, <4>3
    <3>4. CASE i > m + 1
      <4>1. i - m \in 1 .. n /\ (i - m) - 1 = (i - 1) - m /\ ~ (i <= m) /\ ~ (i - 1 <= m)
            /\ i \in m + 1 .. m + n
        BY <1>1, <3>4
      <4>2. g[i - m] = g[(i - 1) - m] + q[i - m]
        BY <1>3, <4>1 DEF SumsAlong
      <4>3. h[i] = f[m] + g[i - m] /\ h[i - 1] = f[m] + g[(i - 1) - m] /\ r[i] = q[i - m]
        BY <1>1, <3>1, <4>1
      <4>4. f[m] \in Int /\ g[(i - 1) - m] \in Int /\ q[i - m] \in Int
        <5>1. (i - 1) - m \in 0 .. n /\ m \in 0 .. m
          BY <1>1, <4>1
        <5>2. QED
          BY <1>1, <1>2, <1>3, <4>1, <5>1 DEF SumsAlong
      <4>5. QED
        BY <4>2, <4>3, <4>4
    <3>5. QED
      BY <1>1, <3>2, <3>3, <3>4
  <2>4. h \in [0 .. m + n -> Int]
    BY <2>1
  <2>5. QED
    BY <2>2, <2>3, <2>4 DEF SumsAlong
<1>5. Sum(r) = h[m + n]
  <2> HIDE DEF h
  <2> QED BY <1>1, <1>4, SumIs
<1>6. h[m + n] = f[m] + g[n]
  <2>1. CASE n = 0
    BY <1>1, <1>2, <1>3, <2>1 DEF SumsAlong
  <2>2. CASE n > 0
    BY <1>1, <2>2
  <2>3. QED
    BY <1>1, <2>1, <2>2
<1>7. f[m] \in Int /\ g[n] \in Int
  BY <1>1, <1>2, <1>3 DEF SumsAlong
<1>8. QED
  BY <1>2, <1>3, <1>5, <1>6, <1>7 DEF r

LEMMA SumAppend ==
  ASSUME NEW q \in Seq(Int), NEW x \in Int
  PROVE  Sum(q) \in Int /\ Sum(Append(q, x)) = Sum(q) + x
<1> DEFINE one == <<x>>
           f == [i \in 0 .. 1 |-> IF i = 0 THEN 0 ELSE x]
<1>1. one \in Seq(Int) /\ one \in [1 .. 1 -> Int] /\ one[1] = x /\ Append(q, x) = q \o one
  OBVIOUS
<1>2. SumsAlong(f, one, 1) /\ f[1] = x
  BY <1>1 DEF SumsAlong
<1> HIDE DEF one, f
<1>3. Sum(one) = x
  BY <1>1, <1>2, SumIs
<1>4. QED
  BY <1>1, <1>3, SumConcat

(* One element less than another, the others alike. *)
LEMMA SumUpdate ==
  ASSUME NEW n \in Nat, NEW q \in [1 .. n -> Int], NEW r \in [1 .. n -> Int],
         NEW k \in 1 .. n, \A i \in 1 .. n : i # k => r[i] = q[i]
  PROVE  Sum(q) \in Int /\ Sum(r) = (Sum(q) - q[k]) + r[k]
<1>1. PICK f : SumsAlong(f, q, n) /\ Sum(q) = f[n]
  BY SumSteps
<1> DEFINE g == [i \in 0 .. n |-> IF i < k THEN f[i] ELSE (f[i] - q[k]) + r[k]]
<1>2. /\ f \in [0 .. n -> Int] /\ f[0] = 0 /\ \A i \in 1 .. n : f[i] = f[i - 1] + q[i]
      /\ q[k] \in Int /\ r[k] \in Int /\ n \in 0 .. n /\ k \in Nat
  BY <1>1 DEF SumsAlong
<1>3. SumsAlong(g, r, n)
  <2>1. g \in [0 .. n -> Int] /\ g[0] = 0
    <3>1. \A i \in 0 .. n : f[i] \in Int
      BY <1>2
    <3>2. \A i \in 0 .. n : g[i] \in Int
      BY <1>2, <3>1
    <3>3. 0 \in 0 .. n /\ 0 < k
      BY <1>2
    <3>4. QED
      BY <1>2, <3>2, <3>3
  <2>2. ASSUME NEW i \in 1 .. n PROVE g[i] = g[i - 1] + r[i]
    <3>1. i \in 0 .. n /\ i - 1 \in 0 .. n /\ f[i] = f[i - 1] + q[i] /\ f[i - 1] \in Int
          /\ q[i] \in Int /\ r[i] \in Int
      BY <1>2
    <3>2. CASE i < k
      BY <1>2, <3>1, <3>2
    <3>3. CASE i = k
      BY <1>2, <3>1, <3>3
    <3>4. CASE i > k
      BY <1>2, <3>1, <3>4
    <3>5. QED
      BY <1>2, <3>2, <3>3, <3>4
  <2>3. QED
    BY <2>1, <2>2 DEF SumsAlong
<1>4. Sum(r) = g[n]
  <2> HIDE DEF g
  <2> QED BY <1>3, SumIs
<1>5. g[n] = (f[n] - q[k]) + r[k]
  BY <1>2
<1>6. QED
  BY <1>1, <1>2, <1>4, <1>5

LEMMA SumMonotone ==
  ASSUME NEW n \in Nat, NEW q \in [1 .. n -> Int], NEW r \in [1 .. n -> Int],
         \A i \in 1 .. n : q[i] <= r[i]
  PROVE  Sum(q) \in Int /\ Sum(r) \in Int /\ Sum(q) <= Sum(r)
<1>1. PICK f : SumsAlong(f, q, n) /\ Sum(q) = f[n]
  BY SumSteps
<1>2. PICK g : SumsAlong(g, r, n) /\ Sum(r) = g[n]
  BY SumSteps
<1>3. f \in [0 .. n -> Int] /\ g \in [0 .. n -> Int]
  BY <1>1, <1>2 DEF SumsAlong
<1> DEFINE T == {i \in 0 .. n : f[i] <= g[i]}
<1>4. 0 \in T
  BY <1>1, <1>2 DEF SumsAlong
<1>5. ASSUME NEW i \in 0 .. n - 1, i \in T PROVE i + 1 \in T
  <2>1. i + 1 \in 1 .. n /\ i + 1 \in 0 .. n /\ i \in 0 .. n /\ (i + 1) - 1 = i
    OBVIOUS
  <2>2. f[i + 1] = f[i] + q[i + 1] /\ g[i + 1] = g[i] + r[i + 1]
    BY <1>1, <1>2, <2>1 DEF SumsAlong
  <2>3. f[i] \in Int /\ g[i] \in Int /\ q[i + 1] \in Int /\ r[i + 1] \in Int
        /\ q[i + 1] <= r[i + 1] /\ f[i] <= g[i]
    BY <1>3, <1>5, <2>1
  <2>4. QED
    BY <2>1, <2>2, <2>3
<1>6. \A i \in 0 .. n - 1 : i \in T => i + 1 \in T
  BY <1>5
<1>7. 0 .. n \subseteq T
  <2> HIDE DEF T
  <2> QED BY <1>4, <1>6, UpTo
<1>8. n \in 0 .. n
  OBVIOUS
<1>9. QED
  BY <1>1, <1>2, <1>3, <1>7, <1>8

-----------------------------------------------------------------------------
(* A search that goes on with smaller and smaller numbers until it meets   *)
(* one in S: h[m] is where it ends that begins with m, g the next number.  *)
Shrinks(g, n, S) == \A m \in 0 .. n : m \notin S => g[m] \in 0 .. m - 1

ShrunkTo(h, n, S, g) == \A m \in 0 .. n : h[m] = IF m \in S THEN m ELSE h[g[m]]

LEMMA ShrinkExists ==
  ASSUME NEW n \in Nat, NEW S, NEW g, Shrinks(g, n, S)
  PROVE  \E h \in [0 .. n -> Nat] : ShrunkTo(h, n, S, g)
<1> DEFINE T == {k \in 0 .. n : \E h \in [0 .. k -> Nat] : ShrunkTo(h, k, S, g)}
<1>1. 0 \in T
  <2> DEFINE h == [m \in 0 .. 0 |-> m]
  <2>1. 0 \in S
    BY DEF Shrinks
  <2>2. h \in [0 .. 0 -> Nat] /\ ShrunkTo(h, 0, S, g)
    BY <2>1 DEF ShrunkTo
  <2>3. QED
    BY <2>2
<1>2. ASSUME NEW k \in 0 .. n - 1, k \in T PROVE k + 1 \in T
  <2>1. PICK h \in [0 .. k -> Nat] : ShrunkTo(h, k, S, g)
    BY <1>2
  <2>2. k + 1 \in 0 .. n /\ k \in Nat
    BY <1>2
  <2> DEFINE f == [m \in 0 .. k + 1 |-> IF m <= k THEN h[m] ELSE IF m \in S THEN m ELSE h[g[m]]]
  <2>3. \A m \in 0 .. k : m \in 0 .. n /\ m \in 0 .. k + 1 /\ m <= k
    BY <2>2
  <2>4. k + 1 \notin S => g[k + 1] \in 0 .. k
    BY <2>2 DEF Shrinks
  <2>5. f \in [0 .. k + 1 -> Nat]
    <3>1. ASSUME NEW m \in 0 .. k + 1
          PROVE  (IF m <= k THEN h[m] ELSE IF m \in S THEN m ELSE h[g[m]]) \in Nat
      <4>1. m \in 0 .. k \/ m = k + 1
        BY <2>2
      <4>2. QED
        BY <2>2, <2>4, <4>1
    <3>2. QED
      BY <3>1
  <2>6. \A m \in 0 .. k : f[m] = h[m]
    BY <2>3
  <2>7. f[k + 1] = IF k + 1 \in S THEN k + 1 ELSE h[g[k + 1]]
    BY <2>2
  <2> HIDE DEF f
  <2>8. ASSUME NEW m \in 0 .. k + 1 PROVE f[m] = IF m \in S THEN m ELSE f[g[m]]
    <3>1. CASE m \in 0 .. k
      <4>1. m \notin S => g[m] \in 0 .. k
        BY <2>2, <2>3, <3>1 DEF Shrinks
      <4>2. h[m] = IF m \in S THEN m ELSE h[g[m]]
        BY <2>1, <3>1 DEF ShrunkTo
      <4>3. QED
        BY <2>6, <3>1, <4>1, <4>2
    <3>2. CASE m = k + 1
      BY <2>4, <2>6, <2>7, <3>2
    <3>3. QED
      BY <2>2, <3>1, <3>2
  <2>9. ShrunkTo(f, k + 1, S, g)
    BY <2>8 DEF ShrunkTo
  <2>10. QED
    BY <2>2, <2>5, <2>9
<1>3. 0 .. n \subseteq T
  <2> HIDE DEF T
  <2> QED BY <1>1, <1>2, UpTo
<1>4. QED
  BY <1>3

LEMMA ShrinkEnds ==
  ASSUME NEW n \in Nat, NEW S, NEW g, Shrinks(g, n, S), NEW h, ShrunkTo(h, n, S, g)
  PROVE  \A m \in 0 .. n : h[m] \in S /\ h[m] \in 0 .. n
<1> DEFINE T == {k \in 0 .. n : \A m \in 0 .. k : h[m] \in S /\ h[m] \in 0 .. n}
<1>1. 0 \in T
  <2>1. 0 \in S
    BY DEF Shrinks
  <2>2. h[0] = 0
    BY <2>1 DEF ShrunkTo
  <2>3. \A m \in 0 .. 0 : m = 0
    OBVIOUS
  <2>4. QED
    BY <2>1, <2>2, <2>3
<1>2. ASSUME NEW k \in 0 .. n - 1, k \in T PROVE k + 1 \in T
  <2>1. k + 1 \in 0 .. n /\ k \in Nat /\ \A m \in 0 .. k : h[m] \in S /\ h[m] \in 0 .. n
    BY <1>2
  <2>2. k + 1 \notin S => g[k + 1] \in 0 .. k
    BY <2>1 DEF Shrinks
  <2>3. h[k + 1] = IF k + 1 \in S THEN k + 1 ELSE h[g[k + 1]]
    BY <2>1 DEF ShrunkTo
  <2>4. h[k + 1] \in S /\ h[k + 1] \in 0 .. n
    BY <2>1, <2>2, <2>3
  <2>5. \A m \in 0 .. k + 1 : m \in 0 .. k \/ m = k + 1
    BY <2>1
  <2>6. QED
    BY <2>1, <2>4, <2>5
<1>3. 0 .. n \subseteq T
  <2> HIDE DEF T
  <2> QED BY <1>1, <1>2, UpTo
<1>4. \A m \in 0 .. n : m \in T
  BY <1>3
<1>5. QED
  BY <1>4

-----------------------------------------------------------------------------
(* Quotients, least elements and single facts on sequences *)

(* The quotient and the remainder of m * n + s. *)
LEMMA DivMod ==
  ASSUME NEW n \in Nat \ {0}, NEW m \in Nat, NEW s \in 0 .. n - 1
  PROVE  (m * n + s) \div n = m /\ (m * n + s) % n = s
<1> DEFINE x == m * n + s
           q == x \div n
           r == x % n
<1>1. x \in Nat
  <2>1. m * n \in Nat
    OBVIOUS
  <2>2. QED
    BY <2>1
<1>2. q \in Nat /\ r \in 0 .. n - 1 /\ x = n * q + r
  <2> HIDE DEF x
  <2> QED BY <1>1
<1> HIDE DEF q, r
<1>3. n * m + s = n * q + r
  BY <1>2
<1>4. ~ (q < m)
  <2>1. SUFFICES ASSUME q < m PROVE FALSE
    OBVIOUS
  <2>2. PICK j \in Nat : m = q + 1 + j
    <3>1. m - (q + 1) \in Nat /\ m = q + 1 + (m - (q + 1))
      BY <1>2, <2>1
    <3>2. QED
      BY <3>1
  <2>3. n * m = n * q + n + n * j /\ n * j \in Nat /\ n * q \in Nat
    BY <1>2, <2>2
  <2>4. QED
    BY <1>2, <1>3, <2>3
<1>5. ~ (m < q)
  <2>1. SUFFICES ASSUME m < q PROVE FALSE
    OBVIOUS
  <2>2. PICK j \in Nat : q = m + 1 + j
    <3>1. q - (m + 1) \in Nat /\ q = m + 1 + (q - (m + 1))
      BY <1>2, <2>1
    <3>2. QED
      BY <3>1
  <2>3. n * q = n * m + n + n * j /\ n * j \in Nat /\ n * m \in Nat
    BY <1>2, <2>2
  <2>4. QED
    BY <1>2, <1>3, <2>3
<1>6. q = m
  BY <1>2, <1>4, <1>5
<1>7. r = s
  BY <1>2, <1>3, <1>6
<1>8. QED
  BY <1>6, <1>7 DEF q, r

(* The least element of a set is one of its elements. *)
LEMMA LeastIsMin ==
  ASSUME NEW S, S \subseteq Nat, S # {}
  PROVE  Min(S) \in S
<1>1. PICK x \in S : \A y \in S : x <= y
  BY LeastNatural
<1>2. QED
  BY <1>1 DEF Min

(* The smaller of two integers. *)
LEMMA SmallerOf ==
  ASSUME NEW a \in Int, NEW b \in Int
  PROVE  Min({a, b}) = IF a <= b THEN a ELSE b
<1> DEFINE x == IF a <= b THEN a ELSE b
<1>1. x \in {a, b} /\ \A y \in {a, b} : x <= y
  OBVIOUS
<1>2. \A z \in {a, b} : (\A y \in {a, b} : z <= y) => z = x
  OBVIOUS
<1>3. QED
  BY <1>1, <1>2 DEF Min

(* The elements of a sequence. *)
LEMMA SeqElements ==
  ASSUME NEW S, NEW s \in Seq(S)
  PROVE  \A k \in 1 .. Len(s) : s[k] \in S
OBVIOUS

(* The part of q behind its first a elements. *)
LEMMA SubSeqIs ==
  ASSUME NEW S, NEW q \in Seq(S), NEW a \in Nat, NEW s \in Nat, a + s <= Len(q)
  PROVE  SubSeq(q, a + 1, a + s) = [p \in 1 .. s |-> q[a + p]]
<1>1. a + 1 \in Int /\ a + s \in Int /\ Len(q) \in Nat /\ (1 + (a + s)) - (a + 1) = s
  OBVIOUS
<1>2. SubSeq(q, a + 1, a + s) = [p \in 1 .. (1 + (a + s)) - (a + 1) |-> q[(p + (a + 1)) - 1]]
  BY <1>1
<1>3. \A p \in 1 .. s : (p + (a + 1)) - 1 = a + p
  OBVIOUS
<1>4. QED
  BY <1>1, <1>2, <1>3

-----------------------------------------------------------------------------
(* Sums over finite sets *)

(* Sums over the subsets of S, whatever the order of their elements. *)
Total(t, S, v) ==
  /\ (\A x \in S : v[x] \in Nat) /\ t \in [SUBSET S -> Nat] /\ t[{}] = 0
  /\ \A s \in SUBSET S : \A x \in s : t[s] = v[x] + t[s \ {x}]

(* Such sums exist over 1 .. n. *)
LEMMA TotalExists ==
  ASSUME NEW n \in Nat, NEW w \in [1 .. n -> Nat]
  PROVE  \E t : Total(t, 1 .. n, w)
<1> DEFINE G == [a \in Nat |-> [i \in 1 .. n |-> w[i] + a]]
           X == Nat
<1>1. Closed(G, X, n) /\ 0 \in X
  BY DEF Closed
<1>2. PICK f, h : Folded(f, h, n, X, 0, G)
  <2> HIDE DEF G, X
  <2> QED BY <1>1, FoldExists
<1>3. h \in [SUBSET (1 .. n) -> Nat] /\ h[{}] = 0
      /\ \A s \in SUBSET (1 .. n) : s # {} => h[s] = G[h[s \ {Max(s)}]][Max(s)]
  BY <1>2 DEF Folded, OverSubsets
<1>4. ASSUME NEW s \in SUBSET (1 .. n), s # {}
      PROVE  /\ Max(s) \in s /\ (\A x \in s : x <= Max(s)) /\ s \ {Max(s)} \in SUBSET (1 .. n)
             /\ h[s] = w[Max(s)] + h[s \ {Max(s)}]
  <2>1. s \subseteq Nat /\ \A x \in s : x <= n
    OBVIOUS
  <2>2. Max(s) \in s /\ \A x \in s : x <= Max(s)
    BY <1>4, <2>1, MaxProperties
  <2>3. h[s \ {Max(s)}] \in Nat /\ Max(s) \in 1 .. n
    BY <1>3, <2>2
  <2>4. G[h[s \ {Max(s)}]][Max(s)] = w[Max(s)] + h[s \ {Max(s)}]
    BY <2>3
  <2>5. QED
    BY <1>3, <1>4, <2>2, <2>4
<1> HIDE DEF G
<1> DEFINE T == {m \in 0 .. n : \A s \in SUBSET (1 .. m) : \A x \in s : h[s] = w[x] + h[s \ {x}]}
<1>5. 0 \in T
  <2>1. \A s \in SUBSET (1 .. 0) : s = {}
    OBVIOUS
  <2>2. QED
    BY <2>1
<1>6. ASSUME NEW m \in 0 .. n - 1, m \in T PROVE m + 1 \in T
  <2>0. m + 1 \in 0 .. n
    OBVIOUS
  <2>1. SUFFICES ASSUME NEW s \in SUBSET (1 .. m + 1), NEW x \in s PROVE h[s] = w[x] + h[s \ {x}]
    BY <2>0
  <2>2. s \in SUBSET (1 .. n) /\ s \ {x} \in SUBSET (1 .. n) /\ m + 1 \in Nat /\ x \in 1 .. n
    OBVIOUS
  <2>3. CASE m + 1 \notin s
    <3>1. s \in SUBSET (1 .. m)
      BY <2>3
    <3>2. QED
      BY <1>6, <3>1
  <2>4. CASE m + 1 \in s
    <3> DEFINE y == m + 1
               a == s \ {y}
               b == s \ {x}
    <3>1. Max(s) = y
      <4>1. Max(s) \in 1 .. m + 1 /\ y <= Max(s)
        BY <1>4, <2>2, <2>4
      <4>2. QED
        BY <4>1
    <3>2. h[s] = w[y] + h[a]
      BY <1>4, <2>2, <2>4, <3>1
    <3>3. CASE x = y
      BY <3>2, <3>3
    <3>4. CASE x # y
      <4>1. x \in a /\ a \in SUBSET (1 .. m)
        BY <3>4
      <4>2. h[a] = w[x] + h[a \ {x}]
        BY <1>6, <4>1
      <4>3. y \in b /\ b \in SUBSET (1 .. n)
        BY <2>2, <2>4, <3>4
      <4>4. Max(b) = y
        <5>1. Max(b) \in b /\ y <= Max(b)
          BY <1>4, <4>3
        <5>2. Max(b) \in 1 .. m + 1
          BY <5>1
        <5>3. QED
          BY <5>1, <5>2
      <4>5. h[b] = w[y] + h[b \ {y}]
        BY <1>4, <4>3, <4>4
      <4>6. a \ {x} = b \ {y}
        OBVIOUS
      <4>7. h[a \ {x}] \in Nat /\ w[x] \in Nat /\ w[y] \in Nat
        <5>1. a \ {x} \in SUBSET (1 .. n) /\ y \in 1 .. n
          BY <2>2
        <5>2. QED
          BY <1>3, <2>2, <5>1
      <4> DEFINE ab == h[a \ {x}]
      <4>8. ab \in Nat /\ h[a] = w[x] + ab /\ h[b] = w[y] + ab
        BY <4>2, <4>5, <4>6, <4>7
      <4> HIDE DEF y, a, b, ab
      <4>9. h[s] = w[x] + h[b]
        BY <3>2, <4>7, <4>8
      <4>10. QED
        BY <4>9 DEF b
    <3>5. QED
      BY <3>3, <3>4
  <2>5. QED
    BY <2>3, <2>4
<1>7. \A m \in 0 .. n - 1 : m \in T => m + 1 \in T
  BY <1>6
<1>8. 0 .. n \subseteq T
  <2> HIDE DEF T
  <2> QED BY <1>5, <1>7, UpTo
<1>9. Total(h, 1 .. n, w)
  <2>1. n \in 0 .. n
    OBVIOUS
  <2>2. \A s \in SUBSET (1 .. n) : \A x \in s : h[s] = w[x] + h[s \ {x}]
    BY <1>8, <2>1
  <2>3. QED
    BY <1>3, <2>2 DEF Total
<1>10. QED
  BY <1>9

(* Adding up a finite set element by element, in any order. *)
AddsUp(g, S, v) ==
  /\ g[{}] = 0
  /\ \A s \in SUBSET S :
       s # {} => \E x \in s : g[s] = v[x] + g[s \ {x}] \/ g[s] = g[s \ {x}] + v[x]

LEMMA TotalIsSum ==
  ASSUME NEW S, IsFiniteSet(S), NEW v, NEW t, Total(t, S, v), NEW g, AddsUp(g, S, v)
  PROVE  g[S] = t[S]
<1> DEFINE n == Cardinality(S)
           T == {k \in 0 .. n : \A s \in SUBSET S : Cardinality(s) = k => g[s] = t[s]}
<1>1. n \in Nat /\ \A s \in SUBSET S : IsFiniteSet(s) /\ Cardinality(s) \in Nat
  BY FS_CardinalityType, FS_Subset
<1> HIDE DEF n
<1>2. 0 \in T
  <2>1. \A s \in SUBSET S : Cardinality(s) = 0 => s = {}
    BY <1>1, FS_EmptySet
  <2>2. g[{}] = t[{}] /\ 0 \in 0 .. n
    BY <1>1 DEF Total, AddsUp
  <2>3. \A s \in SUBSET S : Cardinality(s) = 0 => g[s] = t[s]
    BY <2>1, <2>2
  <2>4. QED
    BY <2>2, <2>3
<1>3. ASSUME NEW k \in 0 .. n - 1, k \in T PROVE k + 1 \in T
  <2>1. k + 1 \in 0 .. n
    BY <1>1
  <2>2. SUFFICES ASSUME NEW s \in SUBSET S, Cardinality(s) = k + 1 PROVE g[s] = t[s]
    BY <2>1
  <2>3. s # {}
    BY <1>1, <2>2, FS_EmptySet
  <2>4. PICK x \in s : g[s] = v[x] + g[s \ {x}] \/ g[s] = g[s \ {x}] + v[x]
    BY <2>3 DEF AddsUp
  <2>5. Cardinality(s \ {x}) = k /\ s \ {x} \in SUBSET S
    <3>1. IsFiniteSet(s) /\ x \in s
      BY <1>1
    <3>2. Cardinality(s \ {x}) = (k + 1) - 1
      BY <2>2, <3>1, FS_RemoveElement
    <3>3. (k + 1) - 1 = k
      OBVIOUS
    <3>4. QED
      BY <3>2, <3>3
  <2>6. g[s \ {x}] = t[s \ {x}]
    BY <1>3, <2>5
  <2>7. t[s \ {x}] \in Nat /\ v[x] \in Nat /\ t[s] = v[x] + t[s \ {x}]
    BY <2>5 DEF Total
  <2>8. QED
    BY <2>4, <2>6, <2>7
<1>4. \A k \in 0 .. n - 1 : k \in T => k + 1 \in T
  BY <1>3
<1>5. 0 .. n \subseteq T
  <2> HIDE DEF T
  <2> QED BY <1>1, <1>2, <1>4, UpTo
<1>6. QED
  BY <1>1, <1>5 DEF n

(* The elements of S named 1 .. n by h are those of M, the others add      *)
(* nothing: the sum over S is the sum over 1 .. n.                         *)
Names(h, S, M, n, v, w) ==
  /\ M \subseteq S /\ h \in [M -> 1 .. n]
  /\ \A x, y \in M : h[x] = h[y] => x = y
  /\ \A i \in 1 .. n : \E x \in M : h[x] = i
  /\ \A x \in M : v[x] = w[h[x]]
  /\ \A x \in S \ M : v[x] = 0

LEMMA TotalRenamed ==
  ASSUME NEW n \in Nat, NEW w, NEW t, Total(t, 1 .. n, w),
         NEW S, NEW M, NEW h, NEW v, Names(h, S, M, n, v, w)
  PROVE  \E u : Total(u, S, v) /\ u[S] = t[1 .. n]
<1> DEFINE I(s) == {h[x] : x \in s \cap M}
           u == [s \in SUBSET S |-> t[I(s)]]
<1>1. \A s \in SUBSET S : I(s) \in SUBSET (1 .. n)
  BY DEF Names
<1>2. u \in [SUBSET S -> Nat]
  BY <1>1 DEF Total
<1>3. u[{}] = 0
  <2>1. I({}) = {}
    OBVIOUS
  <2>2. QED
    BY <2>1 DEF Total
<1>4. ASSUME NEW s \in SUBSET S, NEW x \in s PROVE u[s] = v[x] + u[s \ {x}]
  <2>1. u[s] = t[I(s)] /\ u[s \ {x}] = t[I(s \ {x})] /\ t[I(s)] \in Nat /\ s \ {x} \in SUBSET S
    BY <1>1 DEF Total
  <2>2. CASE x \in M
    <3>1. h[x] \in I(s) /\ v[x] = w[h[x]]
      BY <2>2 DEF Names
    <3>2. I(s \ {x}) = I(s) \ {h[x]}
      BY <2>2 DEF Names
    <3>3. t[I(s)] = w[h[x]] + t[I(s) \ {h[x]}]
      BY <1>1, <3>1 DEF Total
    <3> HIDE DEF I, u
    <3>4. QED
      BY <2>1, <3>1, <3>2, <3>3
  <2>3. CASE x \notin M
    <3>1. v[x] = 0
      BY <2>3 DEF Names
    <3>2. I(s \ {x}) = I(s)
      BY <2>3
    <3> HIDE DEF I, u
    <3>3. QED
      BY <2>1, <3>1, <3>2
  <2>4. QED
    BY <2>2, <2>3
<1>5. u[S] = t[1 .. n]
  <2>1. I(S) = 1 .. n
    BY DEF Names
  <2>2. QED
    BY <2>1
<1>6. Total(u, S, v)
  <2>1. \A x \in S : v[x] \in Nat
    BY DEF Names, Total
  <2> HIDE DEF u
  <2>2. QED
    BY <1>2, <1>3, <1>4, <2>1 DEF Total
<1>7. QED
  BY <1>5, <1>6

(* The names make M as large as 1 .. n. *)
LEMMA NamesCount ==
  ASSUME NEW n \in Nat, NEW w, NEW S, NEW M, NEW h, NEW v, Names(h, S, M, n, v, w)
  PROVE  Cardinality(M) = n
<1> DEFINE I == 1 .. n
           g == [i \in I |-> CHOOSE x \in M : h[x] = i]
<1>1. \A i \in I : g[i] \in M /\ h[g[i]] = i
  BY DEF Names
<1>2. \A x \in M : h[x] \in I /\ g[h[x]] = x
  <2>1. TAKE x \in M
  <2>2. h[x] \in I
    BY DEF Names
  <2>3. QED
    BY <1>1, <2>2 DEF Names
<1> HIDE DEF I
<1>3. g \in [I -> M]
  BY <1>1
<1> HIDE DEF g
<1>4. g \in Injection(I, M)
  BY <1>1, <1>3 DEF Injection, IsInjective
<1>5. g \in Surjection(I, M)
  BY <1>2, <1>3 DEF Surjection
<1>6. ExistsBijection(1 .. n, M)
  BY <1>4, <1>5 DEF Bijection, ExistsBijection, I
<1>7. QED
  BY <1>6, FS_CountingElements

-----------------------------------------------------------------------------
(* Lists without repetitions *)

(* What a list holds with one more element. *)
LEMMA AppendRange ==
  ASSUME NEW S, NEW s \in Seq(S), NEW x \in S
  PROVE  Append(s, x) \in Seq(S) /\ Range(Append(s, x)) = Range(s) \union {x}
<1> DEFINE t == Append(s, x)
<1>1. /\ t \in Seq(S) /\ Len(s) \in Nat /\ DOMAIN s = 1 .. Len(s)
      /\ DOMAIN t = 1 .. Len(s) + 1
      /\ \A k \in DOMAIN s : t[k] = s[k]
      /\ t[Len(s) + 1] = x
  OBVIOUS
<1>2. \A k \in DOMAIN t : k \in DOMAIN s \/ k = Len(s) + 1
  BY <1>1
<1>3. DOMAIN s \subseteq DOMAIN t /\ Len(s) + 1 \in DOMAIN t
  BY <1>1
<1>4. Range(t) = Range(s) \union {x}
  <2> HIDE DEF t
  <2> QED BY <1>1, <1>2, <1>3 DEF Range
<1>5. QED
  BY <1>1, <1>4

(* Appending a new element keeps a sequence without repetitions. *)
LEMMA AppendNew ==
  ASSUME NEW S, NEW s \in Seq(S), NEW x \in S, IsInjective(s), x \notin Range(s)
  PROVE  /\ Append(s, x) \in Seq(S)
         /\ IsInjective(Append(s, x))
         /\ Range(Append(s, x)) = Range(s) \union {x}
<1> DEFINE t == Append(s, x)
<1>1. /\ t \in Seq(S) /\ Len(s) \in Nat /\ DOMAIN s = 1 .. Len(s)
      /\ DOMAIN t = 1 .. Len(s) + 1
      /\ \A k \in DOMAIN s : t[k] = s[k]
      /\ t[Len(s) + 1] = x
  OBVIOUS
<1>2. Range(t) = Range(s) \union {x}
  BY AppendRange
<1>3. IsInjective(t)
  <2>1. SUFFICES ASSUME NEW a \in DOMAIN t, NEW b \in DOMAIN t, t[a] = t[b]
                 PROVE  a = b
    BY DEF IsInjective
  <2>2. \A k \in DOMAIN s : s[k] # x
    BY DEF Range
  <2>3. CASE a \in DOMAIN s /\ b \in DOMAIN s
    BY <1>1, <2>1, <2>3 DEF IsInjective
  <2>4. CASE a \in DOMAIN s /\ b = Len(s) + 1
    BY <1>1, <2>1, <2>2, <2>4
  <2>5. CASE a = Len(s) + 1 /\ b \in DOMAIN s
    BY <1>1, <2>1, <2>2, <2>5
  <2>6. CASE a = Len(s) + 1 /\ b = Len(s) + 1
    BY <2>6
  <2>7. QED
    BY <1>1, <2>3, <2>4, <2>5, <2>6
<1>4. QED
  BY <1>1, <1>2, <1>3

(* What a loop picks out of a list. *)
LEMMA AmongFacts ==
  ASSUME NEW P, NEW s \in Seq(P), NEW S
  PROVE  /\ Among(s, S) \in Seq(P) /\ Range(Among(s, S)) = Range(s) \cap S
         /\ IsInjective(s) => IsInjective(Among(s, S))
<1> DEFINE n == Len(s)
           X == Seq(P)
           G == [x \in X |-> [i \in 1 .. n |-> IF s[i] \in S THEN Append(x, s[i]) ELSE x]]
           Eq(h) == h = [i \in 0 .. Len(s) |->
                           IF i = 0 THEN <<>>
                           ELSE IF s[i] \in S THEN Append(h[i - 1], s[i]) ELSE h[i - 1]]
           F == CHOOSE h : Eq(h)
<1>1. n \in Nat /\ DOMAIN s = 1 .. n /\ \A i \in 1 .. n : s[i] \in P
  OBVIOUS
<1>2. <<>> \in X /\ Closed(G, X, n)
  <2>1. <<>> \in X
    OBVIOUS
  <2>2. ASSUME NEW x \in X, NEW i \in 1 .. n PROVE G[x][i] \in X
    <3>1. Append(x, s[i]) \in X
      BY <1>1
    <3>2. G[x][i] = IF s[i] \in S THEN Append(x, s[i]) ELSE x
      <4> HIDE DEF X, n
      <4> QED OBVIOUS
    <3>3. QED
      <4> HIDE DEF X, G
      <4> QED BY <3>1, <3>2
  <2>3. QED
    <3> HIDE DEF X, G
    <3> QED BY <2>1, <2>2 DEF Closed
<1>3. PICK f, h : Folded(f, h, n, X, <<>>, G)
  <2> HIDE DEF X, G, n
  <2> QED BY <1>1, <1>2, FoldExists
<1>4. /\ f \in [0 .. n -> X] /\ f[0] = <<>>
      /\ \A i \in 1 .. n : f[i] = IF s[i] \in S THEN Append(f[i - 1], s[i]) ELSE f[i - 1]
  <2>1. f \in [0 .. n -> X] /\ Along(f, n, <<>>, G)
    BY <1>3 DEF Folded
  <2>2. ASSUME NEW i \in 1 .. n
        PROVE  f[i] = IF s[i] \in S THEN Append(f[i - 1], s[i]) ELSE f[i - 1]
    <3>1. f[i - 1] \in X
      <4> HIDE DEF X, G, n
      <4> QED BY <1>1, <2>1
    <3>2. f[i] = G[f[i - 1]][i]
      <4> HIDE DEF X, G, n
      <4> QED BY <2>1 DEF Along
    <3>3. QED
      <4> HIDE DEF X, n
      <4> QED BY <3>1, <3>2
  <2>3. f[0] = <<>>
    BY <2>1 DEF Along
  <2>4. QED
    BY <2>1, <2>2, <2>3
<1>5. Eq(f)
  <2>1. \A i \in 0 .. n : f[i] = IF i = 0 THEN <<>>
                           ELSE IF s[i] \in S THEN Append(f[i - 1], s[i]) ELSE f[i - 1]
    <3>1. SUFFICES ASSUME NEW i \in 0 .. n
                   PROVE  f[i] = IF i = 0 THEN <<>>
                           ELSE IF s[i] \in S THEN Append(f[i - 1], s[i]) ELSE f[i - 1]
      OBVIOUS
    <3> HIDE DEF X, n
    <3>2. i = 0 \/ i \in 1 .. n
      BY <1>1
    <3>3. QED
      BY <1>4, <3>2
  <2>2. f = [i \in 0 .. n |-> f[i]]
    <3> HIDE DEF X, n
    <3> QED BY <1>4
  <2>3. QED
    BY <2>1, <2>2
<1>6. Eq(F)
  <2> HIDE DEF Eq
  <2> QED BY <1>5
<1>7. Among(s, S) = F[n]
  BY DEF Among
<1>8. \A i \in 0 .. n : F[i] = IF i = 0 THEN <<>>
                           ELSE IF s[i] \in S THEN Append(F[i - 1], s[i]) ELSE F[i - 1]
  <2> HIDE DEF F
  <2> QED BY <1>6
<1> HIDE DEF F, n, X, G, Eq
<1> DEFINE Taken(i) == {s[j] : j \in 1 .. i} \cap S
           T == {i \in 0 .. n : /\ F[i] \in Seq(P) /\ Range(F[i]) = Taken(i)
                                /\ IsInjective(s) => IsInjective(F[i])}
<1>9. 0 \in T
  <2>1. F[0] = <<>> /\ 0 \in 0 .. n
    BY <1>1, <1>8
  <2>2. <<>> \in Seq(P) /\ IsInjective(<<>>) /\ Range(<<>>) = {}
    BY DEF IsInjective, Range
  <2>3. Taken(0) = {}
    OBVIOUS
  <2>4. QED
    BY <2>1, <2>2, <2>3
<1>10. ASSUME NEW i \in 0 .. n - 1, i \in T PROVE i + 1 \in T
  <2>1. i + 1 \in 0 .. n /\ i + 1 \in 1 .. n /\ i + 1 # 0 /\ (i + 1) - 1 = i
    BY <1>1
  <2>2. F[i + 1] = IF s[i + 1] \in S THEN Append(F[i], s[i + 1]) ELSE F[i]
    BY <1>8, <2>1
  <2>3. /\ F[i] \in Seq(P) /\ Range(F[i]) = Taken(i) /\ s[i + 1] \in P
        /\ IsInjective(s) => IsInjective(F[i])
    BY <1>1, <1>10, <2>1
  <2>4. 1 .. i + 1 = (1 .. i) \cup {i + 1} /\ \A j \in 1 .. i : j \in 1 .. n /\ j # i + 1
    BY <1>1
  <2>5. Taken(i + 1) = Taken(i) \cup ({s[i + 1]} \cap S)
    BY <2>4
  <2>6. IsInjective(s) => s[i + 1] \notin Taken(i)
    BY <1>1, <2>1, <2>4 DEF IsInjective
  <2> HIDE DEF Taken
  <2>7. CASE s[i + 1] \in S
    <3>1. Append(F[i], s[i + 1]) \in Seq(P) /\ Range(Append(F[i], s[i + 1])) = Range(F[i]) \cup {s[i + 1]}
      BY <2>3, AppendRange
    <3>2. IsInjective(s) => IsInjective(Append(F[i], s[i + 1]))
      BY <2>3, <2>6, AppendNew
    <3>3. Taken(i + 1) = Taken(i) \cup {s[i + 1]}
      BY <2>5, <2>7
    <3>4. QED
      BY <2>1, <2>2, <2>3, <2>7, <3>1, <3>2, <3>3
  <2>8. CASE s[i + 1] \notin S
    <3>1. Taken(i + 1) = Taken(i) /\ F[i + 1] = F[i]
      BY <2>2, <2>5, <2>8
    <3>2. QED
      BY <2>1, <2>3, <3>1
  <2>9. QED
    BY <2>7, <2>8
<1>11. \A i \in 0 .. n - 1 : i \in T => i + 1 \in T
  BY <1>10
<1>12. n \in T
  <2>1. 0 .. n \subseteq T
    <3> HIDE DEF T
    <3> QED BY <1>1, <1>9, <1>11, UpTo
  <2>2. n \in 0 .. n
    BY <1>1
  <2>3. QED
    BY <2>1, <2>2
<1>13. Taken(n) = Range(s) \cap S
  BY <1>1 DEF Range
<1>14. QED
  BY <1>7, <1>12, <1>13

(* The nth piece holds the elements of S with key n, without repetitions. *)
Keyed(pieces, S, m, key) ==
  /\ \A x \in S : key[x] \in 1 .. m
  /\ \A n \in 1 .. m : Range(pieces[n]) = {x \in S : key[x] = n} /\ IsInjective(pieces[n])

OrderedBy(s, key) == \A i, k \in DOMAIN s : i < k => key[s[i]] <= key[s[k]]

(* One piece after the other, the elements are sorted by their keys. *)
LEMMA KeyedSorted ==
  ASSUME NEW P, NEW m \in Nat, NEW pieces \in [1 .. m -> Seq(P)], NEW S, NEW key,
         Keyed(pieces, S, m, key)
  PROVE  /\ FlattenSeq(pieces) \in Seq(P) /\ Range(FlattenSeq(pieces)) = S
         /\ IsInjective(FlattenSeq(pieces)) /\ OrderedBy(FlattenSeq(pieces), key)
<1>1. FlattenSeq(pieces) \in Seq(P) /\ \E g : Joined(FlattenSeq(pieces), 0, m, pieces, g)
  BY FlattenJoins
<1>2. PICK q : q = FlattenSeq(pieces)
  OBVIOUS
<1>3. PICK off : Joined(q, 0, m, pieces, off)
  BY <1>1, <1>2
<1>4. q \in Seq(P) /\ Len(q) \in Nat /\ DOMAIN q = 1 .. Len(q)
  BY <1>1, <1>2
<1>5. \A n \in 1 .. m : Len(pieces[n]) \in Nat /\ DOMAIN pieces[n] = 1 .. Len(pieces[n])
  OBVIOUS
<1>6. \A n \in 1 .. m :
        /\ off[n - 1] \in Nat /\ off[n] \in Nat /\ off[n] = off[n - 1] + Len(pieces[n])
        /\ \A k \in 1 .. Len(pieces[n]) :
             off[n - 1] + k \in 1 .. Len(q) /\ q[off[n - 1] + k] = pieces[n][k]
  <2>1. TAKE n \in 1 .. m
  <2>2. PieceAt(n, q, pieces, off)
    BY <1>3, JoinedPiece
  <2>3. QED
    BY <2>2 DEF PieceAt
<1>7. ASSUME NEW p \in 1 .. Len(q)
      PROVE  \E n \in 1 .. m : \E k \in 1 .. Len(pieces[n]) :
               p = off[n - 1] + k /\ q[p] = pieces[n][k] /\ q[p] \in S /\ key[q[p]] = n
  <2>1. InPiece(p, q, m, pieces, off)
    BY <1>3, JoinedRow
  <2>2. PICK n \in 1 .. m : \E k \in 1 .. Len(pieces[n]) : p = off[n - 1] + k /\ q[p] = pieces[n][k]
    BY <2>1 DEF InPiece
  <2>3. PICK k \in 1 .. Len(pieces[n]) : p = off[n - 1] + k /\ q[p] = pieces[n][k]
    BY <2>2
  <2>4. q[p] \in Range(pieces[n])
    BY <1>5, <2>3 DEF Range
  <2>5. q[p] \in S /\ key[q[p]] = n
    BY <2>4 DEF Keyed
  <2>6. QED
    BY <2>3, <2>5
<1>8. Range(q) = S
  <2>1. Range(q) \subseteq S
    BY <1>4, <1>7 DEF Range
  <2>2. ASSUME NEW x \in S PROVE x \in Range(q)
    <3>1. PICK n \in 1 .. m : n = key[x]
      BY DEF Keyed
    <3>2. x \in Range(pieces[n])
      BY <3>1 DEF Keyed
    <3>3. PICK k \in 1 .. Len(pieces[n]) : x = pieces[n][k]
      BY <1>5, <3>2 DEF Range
    <3>4. off[n - 1] + k \in DOMAIN q /\ q[off[n - 1] + k] = x
      BY <1>4, <1>6, <3>3
    <3>5. QED
      BY <3>4 DEF Range
  <2>3. QED
    BY <2>1, <2>2
<1>9. IsInjective(q)
  <2>1. SUFFICES ASSUME NEW i \in 1 .. Len(q), NEW j \in 1 .. Len(q), q[i] = q[j]
                 PROVE  i = j
    BY <1>4 DEF IsInjective
  <2>2. PICK n \in 1 .. m : \E k \in 1 .. Len(pieces[n]) :
               i = off[n - 1] + k /\ q[i] = pieces[n][k] /\ key[q[i]] = n
    BY <1>7
  <2>3. PICK k \in 1 .. Len(pieces[n]) : i = off[n - 1] + k /\ q[i] = pieces[n][k] /\ key[q[i]] = n
    BY <2>2
  <2>4. PICK l \in 1 .. Len(pieces[n]) : j = off[n - 1] + l /\ q[j] = pieces[n][l]
    <3>1. PICK o \in 1 .. m : \E l \in 1 .. Len(pieces[o]) :
               j = off[o - 1] + l /\ q[j] = pieces[o][l] /\ key[q[j]] = o
      BY <1>7
    <3>2. o = n
      BY <2>1, <2>3, <3>1
    <3>3. QED
      BY <3>1, <3>2
  <2>5. pieces[n][k] = pieces[n][l] /\ IsInjective(pieces[n])
    BY <2>1, <2>3, <2>4 DEF Keyed
  <2>6. k = l
    BY <1>5, <2>5 DEF IsInjective
  <2>7. QED
    BY <2>3, <2>4, <2>6
<1>10. OrderedBy(q, key)
  <2>1. SUFFICES ASSUME NEW i \in 1 .. Len(q), NEW j \in 1 .. Len(q), i < j
                 PROVE  key[q[i]] <= key[q[j]]
    BY <1>4 DEF OrderedBy
  <2>2. PICK n \in 1 .. m : \E k \in 1 .. Len(pieces[n]) : i = off[n - 1] + k /\ key[q[i]] = n
    BY <1>7
  <2>3. PICK o \in 1 .. m : \E k \in 1 .. Len(pieces[o]) : j = off[o - 1] + k /\ key[q[j]] = o
    BY <1>7
  <2>4. PICK k \in 1 .. Len(pieces[n]) : i = off[n - 1] + k
    BY <2>2
  <2>5. PICK l \in 1 .. Len(pieces[o]) : j = off[o - 1] + l
    BY <2>3
  <2>6. ASSUME o < n PROVE FALSE
    <3>1. o \in 0 .. m /\ n - 1 \in 0 .. m /\ o <= n - 1 /\ 0 \in Int /\ m \in Int
      BY <2>6
    <3>2. off[o] <= off[n - 1]
      BY <1>3, <3>1, JoinedGrows
    <3>3. off[n - 1] \in Nat /\ off[o - 1] \in Nat /\ off[o] \in Nat
          /\ off[o] = off[o - 1] + Len(pieces[o])
      BY <1>6
    <3>4. PICK a, b, c, d, e : /\ a = off[n - 1] /\ b = off[o - 1] /\ c = off[o]
                               /\ d = Len(pieces[o]) /\ e = Len(pieces[n])
      OBVIOUS
    <3>5. d \in Nat /\ e \in Nat
      BY <1>5, <3>4
    <3>6. i = a + k /\ k \in 1 .. e /\ j = b + l /\ l \in 1 .. d /\ c = b + d /\ c <= a
      BY <2>4, <2>5, <3>2, <3>3, <3>4
    <3>7. a \in Nat /\ b \in Nat /\ i < j
      BY <2>1, <3>3, <3>4
    <3>8. QED
      BY <3>5, <3>6, <3>7
  <2>7. QED
    BY <2>2, <2>3, <2>6
<1>11. QED
  BY <1>2, <1>4, <1>8, <1>9, <1>10

-----------------------------------------------------------------------------
(* Sums of a function over a finite set *)

(* What holds of the empty set, and of a subset with one element more,     *)
(* holds of the whole set.                                                 *)
LEMMA SubsetsGrow ==
  ASSUME NEW S, IsFiniteSet(S), NEW T, {} \in T,
         \A s \in SUBSET S : \A k \in S \ s : s \in T => s \cup {k} \in T
  PROVE  S \in T
<1> DEFINE N == {n \in 0 .. Cardinality(S) :
                   \A s \in SUBSET S : Cardinality(s) = n => s \in T}
<1>1. Cardinality(S) \in Nat /\ \A s \in SUBSET S : IsFiniteSet(s) /\ Cardinality(s) \in Nat
  BY FS_CardinalityType, FS_Subset
<1>2. 0 \in N
  <2>1. \A s \in SUBSET S : Cardinality(s) = 0 => s = {}
    BY <1>1, FS_EmptySet
  <2>2. 0 \in 0 .. Cardinality(S)
    BY <1>1
  <2>3. QED
    BY <2>1, <2>2
<1>3. ASSUME NEW n \in 0 .. Cardinality(S) - 1, n \in N PROVE n + 1 \in N
  <2>1. n + 1 \in 0 .. Cardinality(S) /\ n \in Nat /\ n + 1 # 0 /\ (n + 1) - 1 = n
    BY <1>1
  <2>2. ASSUME NEW s \in SUBSET S, Cardinality(s) = n + 1 PROVE s \in T
    <3>1. s # {}
      BY <2>1, <2>2, FS_EmptySet
    <3>2. PICK k \in s : TRUE
      BY <3>1
    <3>3. Cardinality(s \ {k}) = n
      BY <1>1, <2>1, <2>2, <3>2, FS_RemoveElement
    <3>4. s \ {k} \in T
      BY <1>3, <3>3
    <3>5. s = (s \ {k}) \cup {k} /\ k \in S \ (s \ {k})
      BY <3>2
    <3>6. QED
      BY <3>4, <3>5
  <2>3. QED
    BY <2>1, <2>2
<1>4. 0 .. Cardinality(S) \subseteq N
  <2> HIDE DEF N
  <2> QED BY <1>1, <1>2, <1>3, UpTo
<1>5. Cardinality(S) \in N
  BY <1>1, <1>4
<1>6. QED
  BY <1>5

(* The sums over the subsets of S, whatever the order of their elements. *)
SumsOver(t, S, x) ==
  /\ t \in [SUBSET S -> Int] /\ t[{}] = 0
  /\ \A s \in SUBSET S : \A k \in s : t[s] = x[k] + t[s \ {k}]

(* There are such sums. *)
LEMMA SumsExist ==
  ASSUME NEW S, IsFiniteSet(S), NEW x, \A k \in S : x[k] \in Int
  PROVE  \E t : SumsOver(t, S, x)
<1> DEFINE T == {s \in SUBSET S : \E t : SumsOver(t, s, x)}
<1>1. {} \in T
  <2> DEFINE t == [s \in SUBSET {} |-> 0]
  <2>1. t \in [SUBSET {} -> Int] /\ t[{}] = 0
    OBVIOUS
  <2>2. \A s \in SUBSET {} : \A k \in s : FALSE
    OBVIOUS
  <2>3. SumsOver(t, {}, x)
    BY <2>1, <2>2 DEF SumsOver
  <2>4. QED
    BY <2>3
<1>2. ASSUME NEW s \in SUBSET S, NEW a \in S \ s, s \in T PROVE s \cup {a} \in T
  <2>1. PICK t : SumsOver(t, s, x)
    BY <1>2
  <2> DEFINE f == [u \in SUBSET (s \cup {a}) |-> IF a \in u THEN x[a] + t[u \ {a}] ELSE t[u]]
  <2>2. t \in [SUBSET s -> Int] /\ x[a] \in Int
    BY <2>1 DEF SumsOver
  <2>3. \A u \in SUBSET (s \cup {a}) : u \ {a} \in SUBSET s /\ (a \notin u => u \in SUBSET s)
    OBVIOUS
  <2>4. f \in [SUBSET (s \cup {a}) -> Int]
    <3>1. \A u \in SUBSET (s \cup {a}) : (IF a \in u THEN x[a] + t[u \ {a}] ELSE t[u]) \in Int
      BY <2>2, <2>3
    <3>2. QED
      BY <3>1
  <2>5. f[{}] = 0
    <3>1. {} \in SUBSET (s \cup {a}) /\ t[{}] = 0
      BY <2>1 DEF SumsOver
    <3>2. QED
      BY <3>1
  <2>6. ASSUME NEW u \in SUBSET (s \cup {a}), NEW k \in u PROVE f[u] = x[k] + f[u \ {k}]
    <3>0. u \ {k} \in SUBSET (s \cup {a})
      OBVIOUS
    <3>1. f[u] = (IF a \in u THEN x[a] + t[u \ {a}] ELSE t[u])
      OBVIOUS
    <3>2. f[u \ {k}] = (IF a \in u \ {k} THEN x[a] + t[(u \ {k}) \ {a}] ELSE t[u \ {k}])
      BY <3>0
    <3>3. CASE k = a
      BY <3>1, <3>2, <3>3
    <3>4. CASE k # a /\ a \in u
      <4>1. u \ {a} \in SUBSET s /\ k \in u \ {a} /\ (u \ {k}) \ {a} = (u \ {a}) \ {k}
        BY <3>4
      <4>2. t[u \ {a}] = x[k] + t[(u \ {a}) \ {k}]
        BY <2>1, <4>1 DEF SumsOver
      <4>3. x[k] \in Int /\ t[(u \ {a}) \ {k}] \in Int
        <5>1. k \in S /\ (u \ {a}) \ {k} \in SUBSET s
          BY <4>1
        <5>2. QED
          BY <2>2, <5>1
      <4>4. f[u] = x[a] + (x[k] + t[(u \ {a}) \ {k}])
        BY <3>1, <3>4, <4>2
      <4>5. f[u \ {k}] = x[a] + t[(u \ {a}) \ {k}]
        BY <3>2, <3>4, <4>1
      <4>6. QED
        BY <2>2, <4>3, <4>4, <4>5
    <3>5. CASE a \notin u
      <4>1. u \in SUBSET s /\ t[u] = x[k] + t[u \ {k}]
        BY <2>1, <3>5 DEF SumsOver
      <4>2. QED
        BY <3>1, <3>2, <3>5, <4>1
    <3>6. QED
      BY <3>3, <3>4, <3>5
  <2>7. SumsOver(f, s \cup {a}, x)
    <3> HIDE DEF f
    <3> QED BY <2>4, <2>5, <2>6 DEF SumsOver
  <2>8. QED
    BY <2>7
<1>3. S \in T
  <2> HIDE DEF T
  <2> QED BY <1>1, <1>2, SubsetsGrow
<1>4. QED
  BY <1>3

(* The sum of the community modules is one of them. *)
LEMMA SumIsOver ==
  ASSUME NEW S, IsFiniteSet(S), NEW x, NEW t, SumsOver(t, S, x)
  PROVE  SumFunctionOnSet(x, S) = t[S]
<1> DEFINE Pick(s) == CHOOSE k \in s : TRUE
           F(g) == [s \in SUBSET S |-> IF s = {} THEN 0 ELSE x[Pick(s)] + g[s \ {Pick(s)}]]
           iter == CHOOSE g : g = F(g)
<1>1. SumFunctionOnSet(x, S) = iter[S]
  BY DEF SumFunctionOnSet, FoldFunctionOnSet, MapThenFoldSet
<1>2. t = F(t)
  <2>1. \A s \in SUBSET S : s # {} => Pick(s) \in s
    OBVIOUS
  <2>2. \A s \in SUBSET S : t[s] = IF s = {} THEN 0 ELSE x[Pick(s)] + t[s \ {Pick(s)}]
    BY <2>1 DEF SumsOver
  <2>3. t \in [SUBSET S -> Int]
    BY DEF SumsOver
  <2>4. QED
    BY <2>2, <2>3
<1>3. iter = F(iter)
  BY <1>2
<1> HIDE DEF iter
<1> DEFINE Bad == {Cardinality(s) : s \in {u \in SUBSET S : iter[u] # t[u]}}
<1>4. \A s \in SUBSET S : IsFiniteSet(s) /\ Cardinality(s) \in Nat
  BY FS_CardinalityType, FS_Subset
<1>5. ASSUME Bad # {} PROVE FALSE
  <2>1. PICK n \in Bad : \A m \in Bad : n <= m
    <3>1. Bad \subseteq Nat
      BY <1>4
    <3> HIDE DEF Bad
    <3> QED BY <1>5, <3>1, LeastNatural
  <2>2. PICK s \in SUBSET S : iter[s] # t[s] /\ Cardinality(s) = n
    BY <2>1
  <2>3. s # {}
    BY <1>3, <2>2 DEF SumsOver
  <2>4. Pick(s) \in s /\ s \ {Pick(s)} \in SUBSET S
    BY <2>3
  <2>5. iter[s] = x[Pick(s)] + iter[s \ {Pick(s)}]
    BY <1>3, <2>3
  <2>6. t[s] = x[Pick(s)] + t[s \ {Pick(s)}]
    BY <2>4 DEF SumsOver
  <2>7. iter[s \ {Pick(s)}] # t[s \ {Pick(s)}]
    BY <2>2, <2>5, <2>6
  <2>8. Cardinality(s \ {Pick(s)}) = n - 1 /\ n \in Nat
    BY <1>4, <2>2, <2>4, FS_RemoveElement
  <2>9. n - 1 \in Bad
    BY <2>4, <2>7, <2>8
  <2>10. QED
    BY <2>1, <2>8, <2>9
<1>6. S \in SUBSET S
  OBVIOUS
<1>7. QED
  BY <1>1, <1>5, <1>6

(* What a sum is, and what it does for one element less. *)
LEMMA SumFacts ==
  ASSUME NEW S, IsFiniteSet(S), NEW x, \A k \in S : x[k] \in Int
  PROVE  /\ SumFunctionOnSet(x, S) \in Int
         /\ S = {} => SumFunctionOnSet(x, S) = 0
         /\ \A k \in S : SumFunctionOnSet(x, S) = x[k] + SumFunctionOnSet(x, S \ {k})
<1>1. PICK t : SumsOver(t, S, x)
  BY SumsExist
<1>2. SumFunctionOnSet(x, S) = t[S] /\ t[S] \in Int /\ (S = {} => t[S] = 0)
  <2>1. SumFunctionOnSet(x, S) = t[S]
    BY <1>1, SumIsOver
  <2>2. t \in [SUBSET S -> Int] /\ t[{}] = 0 /\ S \in SUBSET S
    BY <1>1 DEF SumsOver
  <2>3. QED
    BY <2>1, <2>2
<1>3. ASSUME NEW k \in S PROVE SumFunctionOnSet(x, S) = x[k] + SumFunctionOnSet(x, S \ {k})
  <2> DEFINE R == S \ {k}
             u == [s \in SUBSET R |-> t[s]]
  <2>1. IsFiniteSet(R)
    BY FS_Subset
  <2>2. SumsOver(u, R, x)
    <3>1. \A s \in SUBSET R : s \in SUBSET S /\ \A m \in s : s \ {m} \in SUBSET R
      OBVIOUS
    <3>2. t \in [SUBSET S -> Int] /\ t[{}] = 0
          /\ \A s \in SUBSET S : \A m \in s : t[s] = x[m] + t[s \ {m}]
      BY <1>1 DEF SumsOver
    <3>3. u \in [SUBSET R -> Int] /\ u[{}] = 0
      BY <3>1, <3>2
    <3>4. \A s \in SUBSET R : \A m \in s : u[s] = x[m] + u[s \ {m}]
      BY <3>1, <3>2
    <3> HIDE DEF u, R
    <3> QED BY <3>3, <3>4 DEF SumsOver
  <2>3. SumFunctionOnSet(x, R) = u[R]
    <3> HIDE DEF u, R
    <3> QED BY <2>1, <2>2, SumIsOver
  <2>4. u[R] = t[R] /\ t[S] = x[k] + t[R]
    BY <1>1 DEF SumsOver
  <2>5. QED
    BY <1>2, <2>3, <2>4
<1>4. QED
  BY <1>2, <1>3

(* One element more. *)
LEMMA SumAdd ==
  ASSUME NEW S, IsFiniteSet(S), NEW a, a \notin S, NEW x, \A k \in S \cup {a} : x[k] \in Int
  PROVE  /\ IsFiniteSet(S \cup {a})
         /\ SumFunctionOnSet(x, S \cup {a}) = x[a] + SumFunctionOnSet(x, S)
<1>1. IsFiniteSet(S \cup {a})
  BY FS_AddElement
<1>2. a \in S \cup {a} /\ (S \cup {a}) \ {a} = S
  OBVIOUS
<1>3. QED
  BY <1>1, <1>2, SumFacts

(* One element. *)
LEMMA SumOne ==
  ASSUME NEW a, NEW x, x[a] \in Int
  PROVE  SumFunctionOnSet(x, {a}) = x[a]
<1>1. IsFiniteSet({}) /\ a \notin {} /\ \A k \in {} \cup {a} : x[k] \in Int
  BY FS_EmptySet
<1>2. SumFunctionOnSet(x, {} \cup {a}) = x[a] + SumFunctionOnSet(x, {})
  BY <1>1, SumAdd
<1>3. SumFunctionOnSet(x, {}) = 0
  BY <1>1, SumFacts
<1>4. {} \cup {a} = {a}
  OBVIOUS
<1>5. QED
  BY <1>2, <1>3, <1>4

(* Only the values on the set count. *)
LEMMA SumSame ==
  ASSUME NEW S, IsFiniteSet(S), NEW x, NEW y, \A k \in S : x[k] \in Int /\ y[k] = x[k]
  PROVE  SumFunctionOnSet(y, S) = SumFunctionOnSet(x, S)
<1> DEFINE T == {s \in SUBSET S : SumFunctionOnSet(y, s) = SumFunctionOnSet(x, s)}
<1>1. \A s \in SUBSET S : IsFiniteSet(s) /\ \A k \in s : x[k] \in Int /\ y[k] \in Int
  BY FS_Subset
<1>2. {} \in T
  BY <1>1, SumFacts
<1>3. ASSUME NEW s \in SUBSET S, NEW a \in S \ s, s \in T PROVE s \cup {a} \in T
  <2>1. s \cup {a} \in SUBSET S /\ (s \cup {a}) \ {a} = s
    OBVIOUS
  <2>2. SumFunctionOnSet(y, s \cup {a}) = y[a] + SumFunctionOnSet(y, s)
    <3>1. IsFiniteSet(s) /\ a \notin s /\ \A k \in s \cup {a} : y[k] \in Int
      BY <1>1, <2>1
    <3>2. QED
      BY <3>1, SumAdd
  <2>3. SumFunctionOnSet(x, s \cup {a}) = x[a] + SumFunctionOnSet(x, s)
    <3>1. IsFiniteSet(s) /\ a \notin s /\ \A k \in s \cup {a} : x[k] \in Int
      BY <1>1, <2>1
    <3>2. QED
      BY <3>1, SumAdd
  <2>4. QED
    BY <1>3, <2>1, <2>2, <2>3
<1>4. S \in T
  <2> HIDE DEF T
  <2> QED BY <1>2, <1>3, SubsetsGrow
<1>5. QED
  BY <1>4

(* Sums over disjoint sets add up. *)
LEMMA SumUnion ==
  ASSUME NEW A, NEW B, IsFiniteSet(A), IsFiniteSet(B), A \cap B = {},
         NEW x, \A k \in A \cup B : x[k] \in Int
  PROVE  /\ IsFiniteSet(A \cup B)
         /\ SumFunctionOnSet(x, A \cup B) = SumFunctionOnSet(x, A) + SumFunctionOnSet(x, B)
<1> DEFINE T == {s \in SUBSET B : SumFunctionOnSet(x, A \cup s)
                                    = SumFunctionOnSet(x, A) + SumFunctionOnSet(x, s)}
<1>1. \A s \in SUBSET B : IsFiniteSet(s) /\ IsFiniteSet(A \cup s)
  BY FS_Subset, FS_Union
<1>2. {} \in T
  <2>1. A \cup {} = A /\ SumFunctionOnSet(x, {}) = 0 /\ SumFunctionOnSet(x, A) \in Int
    BY <1>1, SumFacts
  <2>2. QED
    BY <2>1
<1>3. ASSUME NEW s \in SUBSET B, NEW a \in B \ s, s \in T PROVE s \cup {a} \in T
  <2>1. /\ s \cup {a} \in SUBSET B /\ (s \cup {a}) \ {a} = s
        /\ (A \cup (s \cup {a})) \ {a} = A \cup s /\ a \in A \cup (s \cup {a})
    OBVIOUS
  <2>2. SumFunctionOnSet(x, s \cup {a}) = x[a] + SumFunctionOnSet(x, s)
    <3>1. IsFiniteSet(s) /\ a \notin s /\ \A k \in s \cup {a} : x[k] \in Int
      BY <1>1, <2>1
    <3>2. QED
      BY <3>1, SumAdd
  <2>3. SumFunctionOnSet(x, A \cup (s \cup {a})) = x[a] + SumFunctionOnSet(x, A \cup s)
    <3>1. IsFiniteSet(A \cup (s \cup {a})) /\ \A k \in A \cup (s \cup {a}) : x[k] \in Int
      BY <1>1, <2>1
    <3>2. QED
      BY <2>1, <3>1, SumFacts
  <2>4. SumFunctionOnSet(x, A) \in Int /\ SumFunctionOnSet(x, s) \in Int /\ x[a] \in Int
    BY <1>1, SumFacts
  <2>5. QED
    BY <1>3, <2>1, <2>2, <2>3, <2>4
<1>4. B \in T
  <2> HIDE DEF T
  <2> QED BY <1>2, <1>3, SubsetsGrow
<1>5. QED
  BY <1>1, <1>4

(* Elements worth nothing can be left out. *)
LEMMA SumSupport ==
  ASSUME NEW S, IsFiniteSet(S), NEW A \in SUBSET S,
         NEW x, \A k \in S : x[k] \in Int, \A k \in S \ A : x[k] = 0
  PROVE  SumFunctionOnSet(x, S) = SumFunctionOnSet(x, A)
<1> DEFINE T == {s \in SUBSET (S \ A) : SumFunctionOnSet(x, s) = 0}
<1>1. IsFiniteSet(A) /\ IsFiniteSet(S \ A) /\ \A s \in SUBSET (S \ A) : IsFiniteSet(s)
  BY FS_Subset
<1>2. {} \in T
  BY <1>1, SumFacts
<1>3. ASSUME NEW s \in SUBSET (S \ A), NEW a \in (S \ A) \ s, s \in T PROVE s \cup {a} \in T
  <2>1. s \cup {a} \in SUBSET (S \ A) /\ (s \cup {a}) \ {a} = s
    OBVIOUS
  <2>2. SumFunctionOnSet(x, s \cup {a}) = x[a] + SumFunctionOnSet(x, s)
    <3>1. IsFiniteSet(s) /\ a \notin s /\ \A k \in s \cup {a} : x[k] \in Int
      BY <1>1, <2>1
    <3>2. QED
      BY <3>1, SumAdd
  <2>3. QED
    BY <1>3, <2>1, <2>2
<1>4. S \ A \in T
  <2> HIDE DEF T
  <2> QED BY <1>1, <1>2, <1>3, SubsetsGrow
<1>5. S = A \cup (S \ A) /\ A \cap (S \ A) = {}
  OBVIOUS
<1>6. SumFunctionOnSet(x, S) = SumFunctionOnSet(x, A) + SumFunctionOnSet(x, S \ A)
  BY <1>1, <1>5, SumUnion
<1>7. SumFunctionOnSet(x, A) \in Int
  BY <1>1, SumFacts
<1>8. QED
  BY <1>4, <1>6, <1>7

(* A common factor. *)
LEMMA SumScaled ==
  ASSUME NEW S, IsFiniteSet(S), NEW c \in Int, NEW x, NEW y,
         \A k \in S : x[k] \in Int /\ y[k] = c * x[k]
  PROVE  SumFunctionOnSet(y, S) = c * SumFunctionOnSet(x, S)
<1> DEFINE T == {s \in SUBSET S : SumFunctionOnSet(y, s) = c * SumFunctionOnSet(x, s)}
<1>1. \A s \in SUBSET S : IsFiniteSet(s) /\ \A k \in s : x[k] \in Int /\ y[k] \in Int
  BY FS_Subset
<1>2. {} \in T
  <2>1. SumFunctionOnSet(y, {}) = 0 /\ SumFunctionOnSet(x, {}) = 0
    BY <1>1, SumFacts
  <2>2. QED
    BY <2>1
<1>3. ASSUME NEW s \in SUBSET S, NEW a \in S \ s, s \in T PROVE s \cup {a} \in T
  <2>1. s \cup {a} \in SUBSET S /\ (s \cup {a}) \ {a} = s
    OBVIOUS
  <2>2. SumFunctionOnSet(y, s \cup {a}) = c * x[a] + SumFunctionOnSet(y, s)
    <3>1. IsFiniteSet(s) /\ a \notin s /\ \A k \in s \cup {a} : y[k] \in Int
      BY <1>1, <2>1
    <3>2. QED
      BY <3>1, <1>1, SumAdd
  <2>3. SumFunctionOnSet(x, s \cup {a}) = x[a] + SumFunctionOnSet(x, s)
    <3>1. IsFiniteSet(s) /\ a \notin s /\ \A k \in s \cup {a} : x[k] \in Int
      BY <1>1, <2>1
    <3>2. QED
      BY <3>1, SumAdd
  <2>4. SumFunctionOnSet(x, s) \in Int /\ x[a] \in Int
    BY <1>1, SumFacts
  <2>5. \A p, q \in Int : c * p + c * q = c * (p + q)
    OBVIOUS
  <2>6. SumFunctionOnSet(y, s) = c * SumFunctionOnSet(x, s)
    BY <1>3
  <2>7. QED
    BY <2>1, <2>2, <2>3, <2>4, <2>5, <2>6
<1>4. S \in T
  <2> HIDE DEF T
  <2> QED BY <1>2, <1>3, SubsetsGrow
<1>5. QED
  BY <1>4
(* A finite set of natural numbers has a bound. *)
LEMMA FiniteBound ==
  ASSUME NEW S, S \subseteq Nat, IsFiniteSet(S)
  PROVE  \E b \in Nat : \A x \in S : x <= b
<1> DEFINE T == {s \in SUBSET S : \E b \in Nat : \A x \in s : x <= b}
<1>1. {} \in T
  OBVIOUS
<1>2. ASSUME NEW s \in SUBSET S, NEW a \in S \ s, s \in T PROVE s \cup {a} \in T
  <2>1. PICK b \in Nat : \A x \in s : x <= b
    BY <1>2
  <2>2. a \in Nat /\ a + b \in Nat /\ \A x \in s \cup {a} : x <= a + b
    BY <2>1
  <2>3. QED
    BY <2>2
<1>3. S \in T
  <2> HIDE DEF T
  <2> QED BY <1>1, <1>2, SubsetsGrow
<1>4. QED
  BY <1>3

(* S in parts, one for every element of R, and the sum of x over each. *)
InParts(S, R, h, x, y) ==
  /\ IsFiniteSet(S) /\ IsFiniteSet(R) /\ h \in [S -> R]
  /\ \A k \in S : x[k] \in Int
  /\ \A r \in R : y[r] = SumFunctionOnSet(x, {k \in S : h[k] = r})

(* The sum of the sums over the parts. *)
LEMMA SumParts ==
  ASSUME NEW S, NEW R, NEW h, NEW x, NEW y, InParts(S, R, h, x, y)
  PROVE  SumFunctionOnSet(x, S) = SumFunctionOnSet(y, R)
<1> USE DEF InParts
<1> DEFINE Over(s) == {k \in S : h[k] \in s}
           T == {s \in SUBSET R : SumFunctionOnSet(x, Over(s)) = SumFunctionOnSet(y, s)}
<1>1. \A s \in SUBSET R : IsFiniteSet(s) /\ IsFiniteSet(Over(s))
  <2>1. \A s \in SUBSET R : Over(s) \in SUBSET S
    OBVIOUS
  <2>2. QED
    BY <2>1, FS_Subset
<1>2. \A r \in R : {k \in S : h[k] = r} = Over({r}) /\ y[r] \in Int
  <2>1. \A r \in R : {k \in S : h[k] = r} = Over({r}) /\ IsFiniteSet(Over({r}))
    BY <1>1
  <2>2. \A r \in R : SumFunctionOnSet(x, Over({r})) \in Int
    <3>1. TAKE r \in R
    <3>2. IsFiniteSet(Over({r})) /\ \A k \in Over({r}) : x[k] \in Int
      BY <2>1
    <3> HIDE DEF Over
    <3>3. QED
      BY <3>2, SumFacts
  <2>3. QED
    BY <2>1, <2>2
<1>3. {} \in T
  <2>1. Over({}) = {} /\ IsFiniteSet({})
    BY FS_EmptySet
  <2>2. SumFunctionOnSet(x, {}) = 0 /\ SumFunctionOnSet(y, {}) = 0
    BY <2>1, SumFacts
  <2>3. QED
    BY <2>1, <2>2
<1>4. ASSUME NEW s \in SUBSET R, NEW a \in R \ s, s \in T PROVE s \cup {a} \in T
  <2>1. /\ Over(s \cup {a}) = Over({a}) \cup Over(s) /\ Over({a}) \cap Over(s) = {}
        /\ s \cup {a} \in SUBSET R
        /\ IsFiniteSet(Over({a})) /\ IsFiniteSet(Over(s)) /\ IsFiniteSet(s)
        /\ \A k \in Over({a}) \cup Over(s) : x[k] \in Int
    BY <1>1
  <2>2. SumFunctionOnSet(x, Over(s \cup {a}))
          = SumFunctionOnSet(x, Over({a})) + SumFunctionOnSet(x, Over(s))
    <3> DEFINE A == Over({a})
               B == Over(s)
    <3>1. /\ Over(s \cup {a}) = A \cup B /\ A \cap B = {} /\ IsFiniteSet(A) /\ IsFiniteSet(B)
          /\ \A k \in A \cup B : x[k] \in Int
      BY <2>1
    <3> HIDE DEF A, B
    <3>2. SumFunctionOnSet(x, A \cup B) = SumFunctionOnSet(x, A) + SumFunctionOnSet(x, B)
      BY <3>1, SumUnion
    <3>3. QED
      BY <3>1, <3>2 DEF A, B
  <2>3. SumFunctionOnSet(y, s \cup {a}) = y[a] + SumFunctionOnSet(y, s)
    <3>1. a \notin s /\ \A k \in s \cup {a} : y[k] \in Int
      BY <1>2
    <3>2. QED
      BY <2>1, <3>1, SumAdd
  <2>4. y[a] = SumFunctionOnSet(x, Over({a}))
    BY <1>2
  <2>5. QED
    BY <1>4, <2>1, <2>2, <2>3, <2>4
<1>5. R \in T
  <2> HIDE DEF T
  <2> QED BY <1>3, <1>4, SubsetsGrow
<1>6. Over(R) = S
  OBVIOUS
<1>7. QED
  BY <1>5, <1>6

(* Ones are counted. *)
LEMMA SumCounts ==
  ASSUME NEW S, IsFiniteSet(S), NEW x, \A k \in S : x[k] = 1
  PROVE  SumFunctionOnSet(x, S) = Cardinality(S)
<1> DEFINE T == {s \in SUBSET S : SumFunctionOnSet(x, s) = Cardinality(s)}
<1>1. \A s \in SUBSET S : IsFiniteSet(s) /\ Cardinality(s) \in Nat
  BY FS_Subset, FS_CardinalityType
<1>2. {} \in T
  <2>1. SumFunctionOnSet(x, {}) = 0 /\ Cardinality({}) = 0
    BY <1>1, SumFacts, FS_EmptySet
  <2>2. QED
    BY <2>1
<1>3. ASSUME NEW s \in SUBSET S, NEW a \in S \ s, s \in T PROVE s \cup {a} \in T
  <2>1. IsFiniteSet(s) /\ a \notin s /\ \A k \in s \cup {a} : x[k] \in Int
    BY <1>1
  <2>2. SumFunctionOnSet(x, s \cup {a}) = 1 + SumFunctionOnSet(x, s)
    BY <2>1, SumAdd
  <2>3. Cardinality(s \cup {a}) = Cardinality(s) + 1
    BY <2>1, FS_AddElement
  <2>4. s \cup {a} \in SUBSET S /\ Cardinality(s) \in Nat
    BY <1>1
  <2>5. QED
    BY <1>3, <2>2, <2>3, <2>4
<1>4. S \in T
  <2> HIDE DEF T
  <2> QED BY <1>2, <1>3, SubsetsGrow
<1>5. QED
  BY <1>4

(* A multiple is divided without remainder. *)
LEMMA Quotient ==
  ASSUME NEW n \in Nat \ {0}, NEW m \in Int
  PROVE  (n * m) \div n = m
<1> DEFINE x == n * m
           q == x \div n
           r == x % n
<1>1. x \in Int
  OBVIOUS
<1>2. q \in Int /\ r \in 0 .. n - 1 /\ x = n * q + r
  <2> HIDE DEF x
  <2> QED BY <1>1
<1> HIDE DEF q, r
<1>3. n * m = n * q + r
  BY <1>2
<1>4. ~ (q < m)
  <2>1. SUFFICES ASSUME q < m PROVE FALSE
    OBVIOUS
  <2>2. PICK j \in Nat : m = q + 1 + j
    <3>1. m - (q + 1) \in Nat /\ m = q + 1 + (m - (q + 1))
      BY <1>2, <2>1
    <3>2. QED
      BY <3>1
  <2>3. n * m = n * q + n + n * j /\ n * j \in Nat /\ n * q \in Int
    BY <1>2, <2>2
  <2>4. QED
    BY <1>2, <1>3, <2>3
<1>5. ~ (m < q)
  <2>1. SUFFICES ASSUME m < q PROVE FALSE
    OBVIOUS
  <2>2. PICK j \in Nat : q = m + 1 + j
    <3>1. q - (m + 1) \in Nat /\ q = m + 1 + (q - (m + 1))
      BY <1>2, <2>1
    <3>2. QED
      BY <3>1
  <2>3. n * q = n * m + n + n * j /\ n * j \in Nat /\ n * m \in Int
    BY <1>2, <2>2
  <2>4. QED
    BY <1>2, <1>3, <2>3
<1>6. q = m
  BY <1>2, <1>4, <1>5
<1>7. QED
  BY <1>6 DEF q

-----------------------------------------------------------------------------
(* Functions by recursion *)

(* From n down to m, each value from the one above. *)
StepsDown(h, n, D) == h \in [0 .. n - 1 -> [D -> D]]
Downwards(f, m, n, D, e, h) ==
  /\ f \in [m .. n -> D] /\ f[n] = e
  /\ \A s \in m .. n - 1 : f[s] = h[s][f[s + 1]]

(* There is such a function. *)
LEMMA DownExists ==
  ASSUME NEW n \in Nat, NEW D, NEW e \in D, NEW h, StepsDown(h, n, D)
  PROVE  \E f : Downwards(f, 0, n, D, e, h)
<1> DEFINE T == {m \in 0 .. n : \E f : Downwards(f, n - m, n, D, e, h)}
<1>1. 0 \in T
  <2> DEFINE f == [s \in n .. n |-> e]
  <2>1. Downwards(f, n - 0, n, D, e, h)
    BY DEF Downwards
  <2>2. 0 \in 0 .. n
    OBVIOUS
  <2> HIDE DEF f
  <2>3. QED
    BY <2>1, <2>2
<1>2. ASSUME NEW m \in 0 .. n - 1, m \in T PROVE m + 1 \in T
  <2>1. PICK f : Downwards(f, n - m, n, D, e, h)
    BY <1>2
  <2> DEFINE k == n - (m + 1)
             g == [s \in k .. n |-> IF s = k THEN h[k][f[k + 1]] ELSE f[s]]
  <2>2. k \in 0 .. n - 1 /\ k + 1 = n - m /\ k + 1 \in k .. n /\ k # n /\ k # k + 1
        /\ n \in k .. n /\ k \in k .. n
    OBVIOUS
  <2>3. \A s \in k .. n : s = k \/ s \in n - m .. n
    BY <2>2
  <2>4. f \in [n - m .. n -> D] /\ f[n] = e /\ \A s \in n - m .. n - 1 : f[s] = h[s][f[s + 1]]
    BY <2>1 DEF Downwards
  <2>5. f[k + 1] \in D /\ h[k][f[k + 1]] \in D
    <3>1. f[k + 1] \in D
      BY <2>2, <2>4
    <3>2. h[k] \in [D -> D]
      BY <2>2 DEF StepsDown
    <3>3. QED
      BY <3>1, <3>2
  <2> HIDE DEF k
  <2>6. g \in [k .. n -> D]
    BY <2>3, <2>4, <2>5
  <2>7. g[n] = e
    BY <2>2, <2>4
  <2>8. ASSUME NEW s \in k .. n - 1 PROVE g[s] = h[s][g[s + 1]]
    <3>1. s + 1 # k /\ s + 1 \in k .. n /\ s \in k .. n
      BY <2>2
    <3>2. g[s + 1] = f[s + 1]
      BY <3>1
    <3>3. s = k \/ s \in n - m .. n - 1
      BY <2>2
    <3>4. QED
      BY <2>4, <3>1, <3>2, <3>3
  <2>9. Downwards(g, n - (m + 1), n, D, e, h)
    <3> HIDE DEF g
    <3> QED BY <2>6, <2>7, <2>8 DEF k, Downwards
  <2>10. m + 1 \in 0 .. n
    OBVIOUS
  <2>11. QED
    <3> HIDE DEF g
    <3> QED BY <2>9, <2>10
<1>3. n \in T
  <2> HIDE DEF T
  <2>1. 0 .. n \subseteq T
    BY <1>1, <1>2, UpTo
  <2>2. n \in 0 .. n
    OBVIOUS
  <2>3. QED
    BY <2>1, <2>2
<1>4. PICK f : Downwards(f, n - n, n, D, e, h)
  BY <1>3
<1>5. n - n = 0
  OBVIOUS
<1>6. QED
  BY <1>4, <1>5

(* Upwards without end. *)
LEMMA UpExists ==
  ASSUME NEW D, NEW e \in D, NEW h \in [D -> D]
  PROVE  \E f \in [Nat -> D] : f[0] = e /\ \A n \in Nat : f[n + 1] = h[f[n]]
<1> DEFINE Up(f, m) == f \in [0 .. m -> D] /\ f[0] = e /\ \A s \in 0 .. m - 1 : f[s + 1] = h[f[s]]
<1>1. ASSUME NEW n \in Nat PROVE \E f : Up(f, n)
  <2> DEFINE T == {m \in 0 .. n : \E f : Up(f, m)}
  <2>1. 0 \in T
    <3>1. Up([s \in 0 .. 0 |-> e], 0)
      OBVIOUS
    <3>2. 0 \in 0 .. n
      OBVIOUS
    <3> HIDE DEF Up
    <3> QED BY <3>1, <3>2
  <2>2. ASSUME NEW m \in 0 .. n - 1, m \in T PROVE m + 1 \in T
    <3>1. PICK f : Up(f, m)
      BY <2>2
    <3> DEFINE g == [s \in 0 .. m + 1 |-> IF s = m + 1 THEN h[f[m]] ELSE f[s]]
    <3>2. f[m] \in D /\ h[f[m]] \in D /\ m \in 0 .. m
      BY <3>1
    <3>3. g \in [0 .. m + 1 -> D] /\ g[0] = e
      BY <3>1, <3>2
    <3>4. ASSUME NEW s \in 0 .. m PROVE g[s + 1] = h[g[s]]
      <4>1. s \in 0 .. m + 1 /\ s + 1 \in 0 .. m + 1 /\ s # m + 1 /\ g[s] = f[s]
        OBVIOUS
      <4>2. s = m \/ (s \in 0 .. m - 1 /\ s + 1 # m + 1)
        OBVIOUS
      <4>3. QED
        BY <3>1, <4>1, <4>2
    <3>5. Up(g, m + 1)
      <4>1. (m + 1) - 1 = m
        OBVIOUS
      <4> HIDE DEF g
      <4> QED BY <3>3, <3>4, <4>1
    <3>6. m + 1 \in 0 .. n
      OBVIOUS
    <3>7. QED
      <4> HIDE DEF Up, g
      <4> QED BY <3>5, <3>6
  <2>3. 0 .. n \subseteq T
    <3> HIDE DEF T
    <3> QED BY <2>1, <2>2, UpTo
  <2>4. QED
    BY <2>3
<1>2. ASSUME NEW m \in Nat, NEW n \in Nat, NEW f, Up(f, m), NEW g, Up(g, n), NEW b \in 0 .. m, b <= n
      PROVE  f[b] = g[b]
  <2> DEFINE T == {s \in 0 .. b : f[s] = g[s]}
  <2>1. 0 \in T
    BY <1>2
  <2>2. ASSUME NEW s \in 0 .. b - 1, s \in T PROVE s + 1 \in T
    <3>1. s \in 0 .. m - 1 /\ s \in 0 .. n - 1 /\ s + 1 \in 0 .. b
      BY <1>2
    <3>2. f[s + 1] = h[f[s]] /\ g[s + 1] = h[g[s]]
      BY <1>2, <3>1
    <3>3. QED
      BY <2>2, <3>1, <3>2
  <2>3. 0 .. b \subseteq T
    <3> HIDE DEF T
    <3>1. b \in Nat
      OBVIOUS
    <3> QED BY <2>1, <2>2, <3>1, UpTo
  <2>4. QED
    BY <2>3
<1> DEFINE Best(n) == CHOOSE f : Up(f, n)
           r == [n \in Nat |-> Best(n)[n]]
<1>3. \A n \in Nat : Up(Best(n), n)
  <2> HIDE DEF Up
  <2> QED BY <1>1
<1>4. r \in [Nat -> D]
  <2>1. ASSUME NEW n \in Nat PROVE Best(n)[n] \in D
    <3>1. Best(n) \in [0 .. n -> D]
      BY <1>3
    <3>2. QED
      BY <3>1
  <2> HIDE DEF Best
  <2> QED BY <2>1
<1>5. r[0] = e
  <2>1. Best(0)[0] = e
    BY <1>3
  <2> HIDE DEF Best
  <2> QED BY <2>1
<1>6. ASSUME NEW n \in Nat PROVE r[n + 1] = h[r[n]]
  <2>1. Up(Best(n), n) /\ Up(Best(n + 1), n + 1) /\ n + 1 \in Nat /\ n \in 0 .. n /\ n \in 0 .. n + 1
    <3>1. n + 1 \in Nat /\ n \in 0 .. n /\ n \in 0 .. n + 1
      OBVIOUS
    <3> HIDE DEF Best, Up
    <3> QED BY <1>3, <3>1
  <2>2. Best(n)[n] = Best(n + 1)[n]
    <3> HIDE DEF Best, Up
    <3> QED BY <1>2, <2>1
  <2>3. Best(n + 1)[n + 1] = h[Best(n + 1)[n]]
    <3>1. n \in 0 .. (n + 1) - 1
      OBVIOUS
    <3> HIDE DEF Best
    <3> QED BY <2>1, <3>1
  <2>4. r[n + 1] = Best(n + 1)[n + 1] /\ r[n] = Best(n)[n]
    BY <2>1
  <2> HIDE DEF Best, r
  <2> QED BY <2>2, <2>3, <2>4
<1>7. QED
  <2> HIDE DEF r
  <2> QED BY <1>4, <1>5, <1>6

(* Offsets grow by the widths W[1], ..., W[n]. *)
Offsets(W, off, n) ==
  /\ n \in Nat /\ off[0] = 0 /\ \A t \in 0 .. n : off[t] \in Nat
  /\ \A t \in 1 .. n : W[t] \in Nat /\ off[t] = off[t - 1] + W[t]

(* They are the sums of the widths so far. *)
LEMMA PrefixSums ==
  ASSUME NEW W, NEW off, NEW n, Offsets(W, off, n)
  PROVE  \A t \in 0 .. n : SumFunctionOnSet(W, 1 .. t) = off[t]
<1> DEFINE T == {t \in 0 .. n : SumFunctionOnSet(W, 1 .. t) = off[t]}
<1>1. n \in Nat /\ off[0] = 0 /\ \A t \in 1 .. n : W[t] \in Nat /\ off[t] = off[t - 1] + W[t]
  BY DEF Offsets
<1>2. 0 \in T
  <2>1. 1 .. 0 = {} /\ IsFiniteSet({})
    BY FS_EmptySet
  <2>2. SumFunctionOnSet(W, {}) = 0
    BY <2>1, SumFacts
  <2>3. QED
    BY <1>1, <2>1, <2>2
<1>3. ASSUME NEW t \in 0 .. n - 1, t \in T PROVE t + 1 \in T
  <2> DEFINE S == 1 .. t
             a == t + 1
  <2>1. /\ S \cup {a} = 1 .. t + 1 /\ a \notin S /\ IsFiniteSet(S)
        /\ a \in 1 .. n /\ a - 1 = t /\ a \in 0 .. n
    <3>1. t \in Nat /\ IsFiniteSet(S)
      BY <1>1, FS_Interval
    <3>2. S \cup {a} = 1 .. t + 1 /\ a \notin S
      BY <3>1
    <3>3. a \in 1 .. n /\ a - 1 = t /\ a \in 0 .. n
      BY <1>1
    <3>4. QED
      BY <3>1, <3>2, <3>3
  <2>2. \A k \in S \cup {a} : W[k] \in Int
    BY <1>1, <2>1
  <2>3. SumFunctionOnSet(W, S) = off[t]
    BY <1>3
  <2> HIDE DEF S
  <2>4. SumFunctionOnSet(W, S \cup {a}) = W[a] + SumFunctionOnSet(W, S)
    BY <2>1, <2>2, SumAdd
  <2>5. off[a] = off[t] + W[a] /\ W[a] \in Nat /\ off[t] \in Nat
    BY <1>1, <2>1 DEF Offsets
  <2>6. SumFunctionOnSet(W, 1 .. a) = off[a]
    <3>1. SumFunctionOnSet(W, 1 .. a) = SumFunctionOnSet(W, S \cup {a})
      BY <2>1
    <3> HIDE DEF a
    <3>2. QED
      BY <2>3, <2>4, <2>5, <3>1
  <2>7. QED
    BY <2>1, <2>6
<1>4. 0 .. n \subseteq T
  <2> HIDE DEF T
  <2> QED BY <1>1, <1>2, <1>3, UpTo
<1>5. QED
  BY <1>4

(* The greater of two integers. *)
LEMMA GreaterOf ==
  ASSUME NEW a \in Int, NEW b \in Int
  PROVE  Max({a, b}) = IF a <= b THEN b ELSE a
<1> DEFINE x == IF a <= b THEN b ELSE a
<1>1. x \in {a, b} /\ \A y \in {a, b} : x >= y
  OBVIOUS
<1>2. \A z \in {a, b} : (\A y \in {a, b} : z >= y) => z = x
  OBVIOUS
<1>3. QED
  BY <1>1, <1>2 DEF Max
=============================================================================
