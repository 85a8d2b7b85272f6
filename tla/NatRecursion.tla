--------------------------- MODULE NatRecursion ---------------------------
(***************************************************************************)
(* Induction and recursion over the natural numbers, in the form the other *)
(* proof modules use them.  A property is the set of numbers that have it, *)
(* and a recursive definition is a step function on a set of values, so no *)
(* statement has an operator for a parameter.                              *)
(***************************************************************************)
EXTENDS Integers, SequencesExt, WellFoundedInduction, TLAPS

\* Every set of natural numbers that is not empty has a least element.
LEMMA LeastNumber ==
  ASSUME NEW T, T \subseteq Nat, T # {}
  PROVE  \E n \in T : \A m \in T : n <= m
<1>1. PICK R : R = OpToRel(<, Nat)
  OBVIOUS
<1>2. IsWellFoundedOn(R, Nat)
  BY <1>1, NatLessThanWellFounded
<1>3. PICK n \in T : \A m \in T : <<m, n>> \notin R
  BY <1>2, WFMin
<1>4. \A m \in T : ~(m < n)
  <2> TAKE m \in T
  <2>1. m \in Nat /\ n \in Nat
    OBVIOUS
  <2>2. m < n => <<m, n>> \in R
    BY <2>1, <1>1 DEF OpToRel
  <2> QED BY <2>2, <1>3
<1> QED BY <1>3, <1>4

\* A set that holds 0 and the successor of each of its numbers holds all.
LEMMA Induction ==
  ASSUME NEW T, 0 \in T, \A n \in Nat : n \in T => n + 1 \in T
  PROVE  Nat \subseteq T
<1> SUFFICES ASSUME Nat \ T # {} PROVE FALSE
  OBVIOUS
<1>1. PICK n \in Nat \ T : \A m \in Nat \ T : n <= m
  BY LeastNumber
<1> QED BY <1>1

\* The same up to a bound.
LEMMA BoundedInduction ==
  ASSUME NEW N \in Nat, NEW T, 0 \in T, \A n \in 0..(N - 1) : n \in T => n + 1 \in T
  PROVE  0..N \subseteq T
<1> DEFINE U == {n \in Nat : n <= N => n \in T}
<1>1. 0 \in U
  OBVIOUS
<1>2. ASSUME NEW n \in Nat, n \in U PROVE n + 1 \in U
  BY <1>2
<1>3. Nat \subseteq U
  <2> HIDE DEF U
  <2> QED BY <1>1, <1>2, Induction
<1> QED BY <1>3

\* The same downward: a number has it if all above it up to N do.
LEMMA Descent ==
  ASSUME NEW N \in Nat, NEW T,
         \A q \in 1..N : (\A r \in (q + 1)..N : r \in T) => q \in T
  PROVE  1..N \subseteq T
<1> DEFINE U == {m \in Nat : \A r \in 1..N : r > N - m => r \in T}
<1>1. 0 \in U
  OBVIOUS
<1>2. ASSUME NEW m \in Nat, m \in U PROVE m + 1 \in U
  <2>1. ASSUME NEW r \in 1..N, r > N - (m + 1) PROVE r \in T
    <3>1. \A k \in (r + 1)..N : k \in T
      <4> TAKE k \in (r + 1)..N
      <4>1. k \in 1..N /\ k > N - m
        BY <2>1
      <4> QED BY <1>2, <4>1
    <3> QED BY <3>1
  <2> QED BY <2>1
<1>3. N \in U
  <2> HIDE DEF U
  <2> QED BY <1>1, <1>2, Induction
<1>4. \A r \in 1..N : r > N - N
  OBVIOUS
<1> QED BY <1>3, <1>4

\* G holds a step function on S for each place from 1 to N, c is where to start.
Steps(N, S, c, G) == N \in Nat /\ c \in S /\ G \in [1..N -> [S -> S]]

\* f starts with c and takes each value from the one before by a step.
Unfolds(f, N, S, c, G) ==
  f \in [0..N -> S] /\ f[0] = c /\ \A i \in 1..N : f[i] = G[i][f[i - 1]]

\* A recursive definition of that form has a solution.
LEMMA RecursiveFunction ==
  ASSUME NEW N, NEW S, NEW c, NEW G, Steps(N, S, c, G)
  PROVE  \E f : Unfolds(f, N, S, c, G)
<1> USE DEF Steps
<1> DEFINE Good(f, m) == f[0] = c /\ \A i \in 1..m : f[i] = G[i][f[i - 1]]
           T == {m \in Nat : \E f \in [0..m -> S] : Good(f, m)}
<1>1. 0 \in T
  <2>1. [i \in 0..0 |-> c] \in [0..0 -> S] /\ Good([i \in 0..0 |-> c], 0)
    OBVIOUS
  <2> QED BY <2>1
<1>2. ASSUME NEW m \in 0..(N - 1), m \in T PROVE m + 1 \in T
  <2>1. PICK f \in [0..m -> S] : Good(f, m)
    BY <1>2
  <2>2. f[m] \in S /\ m + 1 \in 1..N
    OBVIOUS
  <2>3. PICK v \in S : v = G[m + 1][f[m]]
    BY <2>2
  <2>4. PICK g : g = [i \in 0..(m + 1) |-> IF i = m + 1 THEN v ELSE f[i]]
    OBVIOUS
  <2>5. g \in [0..(m + 1) -> S]
    BY <2>4
  <2>6. g[0] = c
    BY <2>1, <2>4
  <2>7. ASSUME NEW i \in 1..(m + 1) PROVE g[i] = G[i][g[i - 1]]
    <3>1. CASE i = m + 1
      <4>1. g[i] = v /\ g[i - 1] = f[m]
        BY <2>4, <3>1
      <4> QED BY <4>1, <2>3, <3>1
    <3>2. CASE i # m + 1
      <4>1. i \in 1..m /\ g[i] = f[i] /\ g[i - 1] = f[i - 1]
        BY <2>4, <3>2
      <4> QED BY <4>1, <2>1
    <3> QED BY <3>1, <3>2
  <2>8. Good(g, m + 1)
    BY <2>6, <2>7
  <2> QED BY SMTT(20), <2>5, <2>8
<1>3. 0..N \subseteq T
  <2> HIDE DEF T
  <2> QED BY <1>1, <1>2, BoundedInduction
<1>4. N \in T
  <2> HIDE DEF T
  <2> QED BY <1>3
<1> QED BY <1>4 DEF Unfolds

\* A function that takes each value in S to the next one by a step stays in S.
LEMMA StepsStay ==
  ASSUME NEW N, NEW S, NEW c, NEW G, Steps(N, S, c, G),
         NEW f, f[0] = c, \A i \in 1..N : f[i - 1] \in S => f[i] = G[i][f[i - 1]]
  PROVE  \A i \in 0..N : f[i] \in S
<1> DEFINE T == {i \in Nat : i <= N => f[i] \in S}
<1>1. N \in Nat /\ c \in S /\ G \in [1..N -> [S -> S]]
  BY DEF Steps
<1>2. 0 \in T
  BY <1>1
<1>3. ASSUME NEW n \in 0..(N - 1), n \in T PROVE n + 1 \in T
  <2>1. n + 1 \in 1..N /\ (n + 1) - 1 = n /\ n <= N
    BY <1>1
  <2>2. f[n] \in S
    BY <1>3, <2>1
  <2>3. f[n + 1] = G[n + 1][f[n]]
    BY <2>1, <2>2
  <2>4. G[n + 1] \in [S -> S]
    BY <1>1, <2>1
  <2>5. f[n + 1] \in S
    BY <2>2, <2>3, <2>4
  <2> QED BY <2>5
<1>4. 0..N \subseteq T
  <2> HIDE DEF T
  <2> QED BY <1>1, <1>2, <1>3, BoundedInduction
<1> QED BY <1>1, <1>4

\* What sequences of C are put together to is in C if C allows it.
LEMMA FlattenStays ==
  ASSUME NEW C, <<>> \in C, \A a, b \in C : a \o b \in C, NEW s \in Seq(C)
  PROVE  FlattenSeq(s) \in C
<1>1. PICK N \in Nat : N = Len(s) /\ DOMAIN s = 1..N
  OBVIOUS
<1>2. CASE N = 0
  <2>1. s = <<>>
    BY <1>1, <1>2
  <2>2. FlattenSeq(s) = <<>>
    BY <1>1, <1>2, <2>1 DEF FlattenSeq
  <2> QED BY <2>2
<1>3. CASE N # 0
  <2> DEFINE Next0(u, i) == IF i = 1 THEN s[i] ELSE u[i - 1] \o s[i]
  <2>1. PICK M \in Nat : M = N - 1
    BY <1>3
  <2>2. PICK G : G = [i \in 1..M |-> [r \in C |-> r \o s[i + 1]]]
    OBVIOUS
  <2>3. \A i \in 1..N : s[i] \in C
    BY <1>1
  <2>4. Steps(M, C, s[1], G)
    <3>1. ASSUME NEW i \in 1..M PROVE [r \in C |-> r \o s[i + 1]] \in [C -> C]
      <4>1. i + 1 \in 1..N
        BY <2>1
      <4>2. s[i + 1] \in C
        BY <2>3, <4>1
      <4> QED BY <4>2
    <3>2. G \in [1..M -> [C -> C]]
      BY <2>2, <3>1
    <3>3. 1 \in 1..N
      BY <1>3
    <3> QED BY <2>3, <3>2, <3>3 DEF Steps
  <2>5. PICK f : Unfolds(f, M, C, s[1], G)
    BY <2>4, RecursiveFunction
  <2>6. f \in [0..M -> C] /\ f[0] = s[1] /\ \A i \in 1..M : f[i] = f[i - 1] \o s[i + 1]
    <3>1. f \in [0..M -> C] /\ f[0] = s[1] /\ \A i \in 1..M : f[i] = G[i][f[i - 1]]
      BY <2>5 DEF Unfolds
    <3>2. ASSUME NEW i \in 1..M PROVE f[i] = f[i - 1] \o s[i + 1]
      <4>1. i - 1 \in 0..M
        OBVIOUS
      <4>2. f[i - 1] \in C
        BY <3>1, <4>1
      <4> QED BY <2>2, <3>1, <4>2
    <3> QED BY <3>1, <3>2
  <2>7. PICK h : h = [i \in 1..N |-> f[i - 1]]
    OBVIOUS
  <2>8. h = [i \in 1..N |-> Next0(h, i)]
    <3>1. ASSUME NEW i \in 1..N PROVE h[i] = Next0(h, i)
      <4>1. CASE i = 1
        BY <2>6, <2>7, <4>1
      <4>2. CASE i # 1
        <5>1. PICK j \in 1..M : j = i - 1 /\ i = j + 1
          BY <2>1, <4>2
        <5>2. h[i] = f[j] /\ h[i - 1] = f[j - 1]
          BY <2>1, <2>7, <5>1
        <5>3. f[j] = f[j - 1] \o s[j + 1]
          BY <2>6
        <5> QED BY <4>2, <5>1, <5>2, <5>3
      <4> QED BY <4>1, <4>2
    <3>2. h = [i \in 1..N |-> h[i]]
      BY <2>7
    <3> HIDE DEF Next0
    <3> QED BY <3>1, <3>2
  <2>9. PICK u : u = CHOOSE g : g = [i \in 1..N |-> Next0(g, i)]
    OBVIOUS
  <2>10. u = [i \in 1..N |-> Next0(u, i)]
    <3> HIDE DEF Next0
    <3> QED BY <2>8, <2>9
  <2>11. \A i \in 1..N : u[i] = Next0(u, i)
    <3> HIDE DEF Next0
    <3> QED BY <2>10
  <2> DEFINE T == {i \in 0..M : u[i + 1] \in C}
  <2>12. 0 \in T
    <3>1. 1 \in 1..N /\ 0 \in 0..M /\ 0 + 1 = 1
      BY <1>3, <2>1
    <3>2. u[1] = s[1]
      BY <2>11, <3>1
    <3> QED BY <2>3, <3>1, <3>2
  <2>13. ASSUME NEW n \in 0..(M - 1), n \in T PROVE n + 1 \in T
    <3>1. PICK i \in 1..N : i = (n + 1) + 1 /\ i - 1 = n + 1 /\ i # 1
      BY <2>1
    <3>2. u[i - 1] \in C
      BY <2>13, <3>1
    <3>3. u[i] = u[i - 1] \o s[i]
      BY <2>11, <3>1
    <3>4. u[i] \in C
      BY <2>3, <3>2, <3>3
    <3>5. n + 1 \in 0..M
      OBVIOUS
    <3> QED BY <3>1, <3>4, <3>5
  <2>14. 0..M \subseteq T
    <3> HIDE DEF T
    <3> QED BY <2>12, <2>13, BoundedInduction
  <2>15. u[N] \in C
    <3>1. M \in 0..M /\ M + 1 = N
      BY <2>1
    <3> QED BY <2>14, <3>1
  <2>16. FlattenSeq(s) = u[N]
    BY <1>1, <1>3, <2>9 DEF FlattenSeq
  <2> QED BY <2>15, <2>16
<1> QED BY <1>2, <1>3
=============================================================================
