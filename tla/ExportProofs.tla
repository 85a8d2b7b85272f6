---------------------------- MODULE ExportProofs ----------------------------
(***************************************************************************)
(* Proofs about the output formats, for output of every size and for pages *)
(* and records of every size.                                              *)
(***************************************************************************)
EXTENDS Export, NatRecursion, TLAPS

----------------------------------------------------------------------------
(***************************************************************************)
(* Bytes and addresses.                                                    *)
(***************************************************************************)
LEMMA Bytes ==
  /\ \A x \in Byte : x \in Nat /\ x <= 255
  /\ \A x \in Nat : x <= 255 => x \in Byte
BY DEF Byte

LEMMA Addresses ==
  /\ \A x \in Address : x \in Nat /\ x <= 65535
  /\ \A x \in Nat : x <= 65535 => x \in Address
<1>1. PICK m \in Nat : m = 65535
  OBVIOUS
<1>2. Address = 0..m
  BY <1>1 DEF Address
<1>3. ASSUME NEW x \in Nat, x <= 65535 PROVE x \in Address
  <2>1. x <= m
    BY <1>1, <1>3
  <2> QED BY <1>2, <2>1
<1>4. ASSUME NEW x \in Address PROVE x \in Nat /\ x <= 65535
  <2>1. x \in Nat /\ x <= m
    BY <1>2
  <2> QED BY <1>1, <2>1
<1> QED BY <1>3, <1>4

LEMMA ByteSequences == Seq(Byte) \subseteq Seq(Nat)
<1> SUFFICES ASSUME NEW s \in Seq(Byte) PROVE s \in Seq(Nat)
  OBVIOUS
<1>1. /\ Len(s) \in Nat /\ s = [i \in 1..Len(s) |-> s[i]]
      /\ \A i \in 1..Len(s) : s[i] \in Byte
  OBVIOUS
<1>2. \A i \in 1..Len(s) : s[i] \in Nat
  BY <1>1, Bytes
<1>3. [i \in 1..Len(s) |-> s[i]] \in Seq(Nat)
  BY <1>1, <1>2
<1> QED BY <1>1, <1>3

----------------------------------------------------------------------------
(***************************************************************************)
(* Sums.  Total adds up half by half; P[i], the sum of the first i, is     *)
(* what it is compared with.                                               *)
(***************************************************************************)
Sums(P, s) ==
  P \in [0..Len(s) -> Nat] /\ P[0] = 0 /\ \A i \in 1..Len(s) : P[i] = P[i - 1] + s[i]

Between(f, s, r) ==
  IF r[1] >= r[2] THEN 0 ELSE IF r[1] + 1 = r[2] THEN s[r[2]]
  ELSE f[<<r[1], (r[1] + r[2]) \div 2>>] + f[<<(r[1] + r[2]) \div 2, r[2]>>]

Halves(f, s) == f = [r \in (0..Len(s)) \X (0..Len(s)) |-> Between(f, s, r)]

LEMMA SumsExist ==
  ASSUME NEW s \in Seq(Nat)
  PROVE  \E P : Sums(P, s)
<1> DEFINE G == [i \in 1..Len(s) |-> [x \in Nat |-> x + s[i]]]
<1>1. Len(s) \in Nat /\ \A i \in 1..Len(s) : s[i] \in Nat
  OBVIOUS
<1>2. Steps(Len(s), Nat, 0, G)
  <2>1. \A i \in 1..Len(s) : [x \in Nat |-> x + s[i]] \in [Nat -> Nat]
    BY <1>1
  <2> QED BY <1>1, <2>1 DEF Steps
<1>3. PICK P : Unfolds(P, Len(s), Nat, 0, G)
  <2> HIDE DEF G
  <2> QED BY <1>2, RecursiveFunction
<1>4. P \in [0..Len(s) -> Nat] /\ P[0] = 0 /\ \A i \in 1..Len(s) : P[i] = G[i][P[i - 1]]
  <2> HIDE DEF G
  <2> QED BY <1>3 DEF Unfolds
<1>5. \A i \in 1..Len(s) : P[i] = P[i - 1] + s[i]
  <2> TAKE i \in 1..Len(s)
  <2>1. i - 1 \in 0..Len(s)
    BY <1>1
  <2>2. PICK x \in Nat : x = P[i - 1]
    BY <1>4, <2>1
  <2>3. G[i][x] = x + s[i]
    OBVIOUS
  <2> HIDE DEF G
  <2> QED BY <1>4, <2>2, <2>3
<1> QED BY <1>4, <1>5 DEF Sums

LEMMA TotalIs ==
  ASSUME NEW s \in Seq(Nat), NEW P, Sums(P, s)
  PROVE  Total(s) = P[Len(s)]
<1> DEFINE N == Len(s)
           g == [r \in (0..N) \X (0..N) |-> IF r[1] >= r[2] THEN 0 ELSE P[r[2]] - P[r[1]]]
<1>1. N \in Nat /\ P \in [0..N -> Nat] /\ P[0] = 0 /\ \A i \in 1..N : P[i] = P[i - 1] + s[i]
  BY DEF Sums
<1> HIDE DEF N
<1>2. \A a, b \in 0..N : g[<<a, b>>] = IF a >= b THEN 0 ELSE P[b] - P[a]
  OBVIOUS
<1>3. ASSUME NEW a \in 0..N, NEW b \in 0..N, a + 1 < b
      PROVE  /\ (a + b) \div 2 \in 0..N
             /\ a < (a + b) \div 2 /\ (a + b) \div 2 < b
  BY <1>1, <1>3
<1>4. \A r \in (0..N) \X (0..N) : g[r] = Between(g, s, r)
  <2> TAKE r \in (0..N) \X (0..N)
  <2>1. PICK a \in 0..N, b \in 0..N : r = <<a, b>>
    OBVIOUS
  <2>2. g[<<a, b>>] = Between(g, s, <<a, b>>)
    <3> HIDE DEF g
    <3>1. CASE a >= b
      BY <1>2, <3>1 DEF Between
    <3>2. CASE a + 1 = b
      <4>1. b \in 1..N /\ b - 1 = a /\ ~(a >= b)
        BY <1>1, <3>2
      <4>2. P[b] - P[a] = s[b]
        <5>1. P[b] = P[a] + s[b] /\ P[a] \in Nat /\ P[b] \in Nat
          BY <1>1, <4>1
        <5>2. s[b] \in Nat
          BY <4>1 DEF N
        <5> QED BY <5>1, <5>2
      <4> QED BY <1>2, <3>2, <4>1, <4>2 DEF Between
    <3>3. CASE a + 1 < b
      <4>1. PICK m \in 0..N : m = (a + b) \div 2 /\ a < m /\ m < b
        BY <1>3, <3>3
      <4>2. g[<<a, b>>] = P[b] - P[a] /\ g[<<a, m>>] = P[m] - P[a] /\ g[<<m, b>>] = P[b] - P[m]
        BY <1>1, <1>2, <4>1
      <4>3. P[a] \in Nat /\ P[b] \in Nat /\ P[m] \in Nat
        BY <1>1
      <4>4. Between(g, s, <<a, b>>) = g[<<a, m>>] + g[<<m, b>>]
        BY <1>1, <3>3, <4>1 DEF Between
      <4> QED BY <4>2, <4>3, <4>4
    <3> QED BY <1>1, <3>1, <3>2, <3>3
  <2> HIDE DEF g
  <2> QED BY <2>1, <2>2
<1>5. Halves(g, s)
  <2>1. g = [r \in (0..N) \X (0..N) |-> g[r]]
    OBVIOUS
  <2> HIDE DEF g
  <2>2. [r \in (0..N) \X (0..N) |-> g[r]] = [r \in (0..N) \X (0..N) |-> Between(g, s, r)]
    BY <1>4
  <2> QED BY <2>1, <2>2 DEF Halves, N
<1>6. PICK f : f = CHOOSE h : Halves(h, s)
  OBVIOUS
<1>7. Halves(f, s)
  <2> HIDE DEF g
  <2> QED BY <1>5, <1>6
<1>8. \A a, b \in 0..N : f[<<a, b>>] = Between(f, s, <<a, b>>)
  <2>1. f = [r \in (0..N) \X (0..N) |-> Between(f, s, r)]
    BY <1>7 DEF Halves, N
  <2>2. \A r \in (0..N) \X (0..N) : f[r] = Between(f, s, r)
    BY <2>1
  <2> QED BY <2>2
<1>b. ASSUME NEW a \in 0..N, NEW b \in 0..N
      PROVE  /\ a >= b => f[<<a, b>>] = 0
             /\ a + 1 = b => f[<<a, b>>] = s[b]
  <2>1. f[<<a, b>>] = IF a >= b THEN 0 ELSE IF a + 1 = b THEN s[b]
          ELSE f[<<a, (a + b) \div 2>>] + f[<<(a + b) \div 2, b>>]
    BY <1>8 DEF Between
  <2>2. a + 1 = b => ~(a >= b)
    BY <1>1
  <2> QED BY <2>1, <2>2
<1> DEFINE T == {d \in Nat : \A a, b \in 0..N : b - a <= d => f[<<a, b>>] = g[<<a, b>>]}
<1>9. 0 \in T
  <2> HIDE DEF g
  <2>1. ASSUME NEW a \in 0..N, NEW b \in 0..N, b - a <= 0 PROVE f[<<a, b>>] = g[<<a, b>>]
    <3>1. a >= b
      BY <1>1, <2>1
    <3> QED BY <1>2, <1>b, <3>1
  <2> QED BY <2>1
<1>10. ASSUME NEW d \in Nat, d \in T PROVE d + 1 \in T
  <2> HIDE DEF g
  <2>1. ASSUME NEW a \in 0..N, NEW b \in 0..N, b - a <= d + 1 PROVE f[<<a, b>>] = g[<<a, b>>]
    <3>1. CASE a >= b
      BY <1>2, <1>b, <3>1
    <3>2. CASE a + 1 = b
      <4>1. ~(a >= b)
        BY <1>1, <3>2
      <4>2. f[<<a, b>>] = s[b]
        BY <1>b, <3>2
      <4>3. g[<<a, b>>] = Between(g, s, <<a, b>>)
        BY <1>4
      <4> QED BY <3>2, <4>1, <4>2, <4>3 DEF Between
    <3>3. CASE a + 1 < b
      <4>1. PICK m \in 0..N : m = (a + b) \div 2 /\ a < m /\ m < b
        BY <1>3, <3>3
      <4>2. m - a <= d /\ b - m <= d
        BY <1>1, <2>1, <4>1
      <4>3. f[<<a, m>>] = g[<<a, m>>] /\ f[<<m, b>>] = g[<<m, b>>]
        BY <1>10, <4>2
      <4>4. ~(a >= b) /\ a + 1 # b
        BY <1>1, <3>3
      <4>5. f[<<a, b>>] = f[<<a, m>>] + f[<<m, b>>]
        BY <1>8, <4>1, <4>4 DEF Between
      <4>6. g[<<a, b>>] = Between(g, s, <<a, b>>)
        BY <1>4
      <4>7. g[<<a, b>>] = g[<<a, m>>] + g[<<m, b>>]
        BY <4>1, <4>4, <4>6 DEF Between
      <4> QED BY <4>3, <4>5, <4>7
    <3> QED BY <1>1, <3>1, <3>2, <3>3
  <2> QED BY <2>1
<1>11. N \in T
  <2> HIDE DEF T
  <2> QED BY <1>1, <1>9, <1>10, Induction
<1>12. f[<<0, N>>] = g[<<0, N>>]
  <2>1. 0 \in 0..N /\ N \in 0..N /\ N - 0 <= N
    BY <1>1
  <2> HIDE DEF g
  <2> QED BY <1>11, <2>1
<1>13. g[<<0, N>>] = P[N]
  <2>1. 0 \in 0..N /\ N \in 0..N /\ (0 >= N <=> N = 0) /\ P[N] \in Nat
    BY <1>1
  <2>2. g[<<0, N>>] = IF 0 >= N THEN 0 ELSE P[N] - P[0]
    BY <1>2, <2>1
  <2> HIDE DEF g
  <2> QED BY <1>1, <2>1, <2>2
<1>14. Total(s) = f[<<0, N>>]
  BY <1>6 DEF Total, Halves, Between, N
<1> QED BY <1>12, <1>13, <1>14 DEF N

LEMMA TotalNat ==
  ASSUME NEW s \in Seq(Nat)
  PROVE  Total(s) \in Nat
<1>1. PICK P : Sums(P, s)
  BY SumsExist
<1>2. Total(s) = P[Len(s)]
  BY <1>1, TotalIs
<1>3. Len(s) \in 0..Len(s)
  OBVIOUS
<1> QED BY <1>1, <1>2, <1>3 DEF Sums

LEMMA TotalAppend ==
  ASSUME NEW s \in Seq(Nat), NEW x \in Nat
  PROVE  Total(Append(s, x)) = Total(s) + x
<1>1. PICK P : Sums(P, s)
  BY SumsExist
<1>2. PICK N \in Nat : N = Len(s)
  OBVIOUS
<1>3. PICK t \in Seq(Nat) : t = Append(s, x)
  <2>1. Append(s, x) \in Seq(Nat)
    OBVIOUS
  <2> QED BY <2>1
<1>4. Len(t) = N + 1 /\ t[N + 1] = x /\ \A i \in 1..N : t[i] = s[i]
  BY <1>2, <1>3
<1>5. P \in [0..N -> Nat] /\ P[0] = 0 /\ P[N] \in Nat /\ \A i \in 1..N : P[i] = P[i - 1] + s[i]
  <2>1. P \in [0..N -> Nat] /\ P[0] = 0 /\ \A i \in 1..N : P[i] = P[i - 1] + s[i]
    BY <1>1, <1>2 DEF Sums
  <2>2. N \in 0..N
    OBVIOUS
  <2> QED BY <2>1, <2>2
<1>6. PICK Q : Q = [i \in 0..(N + 1) |-> IF i = N + 1 THEN P[N] + x ELSE P[i]]
  OBVIOUS
<1>7. /\ Q \in [0..(N + 1) -> Nat] /\ Q[N + 1] = P[N] + x
      /\ \A i \in 0..N : Q[i] = P[i]
  BY <1>5, <1>6
<1>8. ASSUME NEW i \in 1..(N + 1) PROVE Q[i] = Q[i - 1] + t[i]
  <2>1. CASE i = N + 1
    <3>1. i - 1 = N /\ N \in 0..N
      BY <2>1
    <3> QED BY <1>4, <1>7, <2>1, <3>1
  <2>2. CASE i # N + 1
    <3>1. i \in 1..N /\ i - 1 \in 0..N /\ i \in 0..N
      BY <2>2
    <3> QED BY <1>4, <1>5, <1>7, <3>1
  <2> QED BY <2>1, <2>2
<1>9. Sums(Q, t)
  <2>1. Q[0] = 0
    BY <1>5, <1>7
  <2> QED BY <1>4, <1>7, <1>8, <2>1 DEF Sums
<1>10. Total(t) = Q[N + 1] /\ Total(s) = P[N]
  <2>1. Total(t) = Q[Len(t)] /\ Total(s) = P[Len(s)]
    BY <1>1, <1>9, TotalIs
  <2> QED BY <1>2, <1>4, <2>1
<1> QED BY <1>3, <1>7, <1>10

LEMMA TotalEmpty == Total(<<>>) = 0
<1>1. <<>> \in Seq(Nat) /\ Len(<<>>) = 0
  OBVIOUS
<1>2. PICK P : Sums(P, <<>>)
  BY <1>1, SumsExist
<1>3. Total(<<>>) = P[Len(<<>>)]
  BY <1>1, <1>2, TotalIs
<1> QED BY <1>1, <1>2, <1>3 DEF Sums

LEMMA TotalPair ==
  ASSUME NEW a \in Nat, NEW b \in Nat
  PROVE  Total(<<a, b>>) = a + b
<1>1. <<>> \in Seq(Nat) /\ <<a>> \in Seq(Nat)
  OBVIOUS
<1>2. PICK t \in Seq(Nat) : t = <<a>>
  BY <1>1
<1>3. t = Append(<<>>, a) /\ <<a, b>> = Append(t, b)
  BY <1>2
<1>4. Total(Append(<<>>, a)) = Total(<<>>) + a
  BY <1>1, TotalAppend
<1>5. Total(t) = a
  BY <1>3, <1>4, TotalEmpty
<1>6. Total(Append(t, b)) = Total(t) + b
  BY TotalAppend
<1> QED BY <1>3, <1>5, <1>6

----------------------------------------------------------------------------
(***************************************************************************)
(* What a loader makes of the records, record by record.                   *)
(***************************************************************************)
\* n fits in k pieces of d bytes, and not in fewer.
Covers(k, d, n) == (k - 1) * d < n /\ n <= k * d

GoodRecord ==
  {r \in [len : Nat, address : Address, type : 0..2, data : Seq(Byte), chksum : Byte] :
     r.len = Len(r.data) /\ (r.type = 2 => r.len = 2)}

Memory == [page : Int, bytes : SUBSET (Int \X Int \X Byte)]

Blank == [page |-> -1, bytes |-> {}]

LEMMA GoodFields ==
  ASSUME NEW r \in GoodRecord
  PROVE  /\ r.type \in 0..2 /\ r.address \in Address /\ r.data \in Seq(Byte)
         /\ r.len = Len(r.data) /\ (r.type = 2 => r.len = 2) /\ r.chksum \in Byte
<1>1. r \in [len : Nat, address : Address, type : 0..2, data : Seq(Byte), chksum : Byte]
  BY DEF GoodRecord
<1>2. r.len = Len(r.data) /\ (r.type = 2 => r.len = 2)
  BY DEF GoodRecord
<1> HIDE DEF GoodRecord
<1>3. r.type \in 0..2 /\ r.address \in Address
  BY <1>1
<1>4. r.data \in Seq(Byte) /\ r.chksum \in Byte
  BY <1>1
<1> QED BY <1>2, <1>3, <1>4

LEMMA LoadTyped ==
  ASSUME NEW s \in Memory, NEW r \in GoodRecord
  PROVE  Load(s, r) \in Memory
<1>1. /\ r.type \in 0..2 /\ r.address \in Address /\ r.data \in Seq(Byte)
      /\ r.len = Len(r.data) /\ (r.type = 2 => r.len = 2)
  BY GoodFields
<1>2. s = [page |-> s.page, bytes |-> s.bytes] /\ s.page \in Int
      /\ s.bytes \in SUBSET (Int \X Int \X Byte)
  BY DEF Memory
<1>d. PICK d \in Seq(Byte) : d = r.data
  BY <1>1
<1>3. CASE r.type = 2
  <2>1. Len(d) = 2
    BY <1>1, <1>3, <1>d
  <2>2. PICK x \in Nat, y \in Nat : x = d[1] /\ y = d[2]
    <3>1. 1 \in 1..Len(d) /\ 2 \in 1..Len(d)
      BY <2>1
    <3>2. d[1] \in Byte /\ d[2] \in Byte
      BY <3>1
    <3> QED BY <3>2, Bytes
  <2>3. PICK p \in Int : p = 256 * r.data[1] + r.data[2]
    <3>1. 256 * x + y \in Int
      OBVIOUS
    <3> QED BY <1>d, <2>2, <3>1
  <2>4. Load(s, r) = [s EXCEPT !.page = p]
    BY <1>3, <2>3 DEF Load
  <2> QED BY <1>2, <2>3, <2>4 DEF Memory
<1>4. CASE r.type = 0
  <2>1. PICK B : B = {<<s.page, r.address + k - 1, r.data[k]>> : k \in DOMAIN r.data}
    OBVIOUS
  <2>2. B \subseteq Int \X Int \X Byte
    <3>1. \A k \in DOMAIN r.data : r.data[k] \in Byte /\ k \in Int
      <4>1. \A k \in DOMAIN d : d[k] \in Byte /\ k \in Int
        OBVIOUS
      <4> QED BY <1>d, <4>1
    <3>2. \A k \in DOMAIN r.data : <<s.page, r.address + k - 1, r.data[k]>> \in Int \X Int \X Byte
      <4> TAKE k \in DOMAIN r.data
      <4>1. r.address \in Int /\ k \in Int
        BY <1>1, <3>1, Addresses
      <4> QED BY <1>2, <3>1, <4>1
    <3> QED BY <2>1, <3>2
  <2>3. Load(s, r) = [s EXCEPT !.bytes = @ \cup B]
    BY <1>4, <2>1 DEF Load
  <2> QED BY <1>2, <2>2, <2>3 DEF Memory
<1>5. CASE r.type = 1
  BY <1>5 DEF Load
<1> QED BY <1>1, <1>3, <1>4, <1>5

\* f holds what is loaded after each number of records.
Loading(f, rs) ==
  f = [i \in 0..Len(rs) |-> IF i = 0 THEN Blank ELSE Load(f[i - 1], rs[i])]

LEMMA LoadingExists ==
  ASSUME NEW rs \in Seq(GoodRecord)
  PROVE  \E f \in [0..Len(rs) -> Memory] : Loading(f, rs)
<1> DEFINE N == Len(rs)
           G == [i \in 1..N |-> [s \in Memory |-> Load(s, rs[i])]]
<1>1. N \in Nat /\ Blank \in Memory /\ \A i \in 1..N : rs[i] \in GoodRecord
  BY DEF Blank, Memory
<1> HIDE DEF N
<1>2. Steps(N, Memory, Blank, G)
  <2>1. \A i \in 1..N : [s \in Memory |-> Load(s, rs[i])] \in [Memory -> Memory]
    BY <1>1, LoadTyped
  <2> QED BY <1>1, <2>1 DEF Steps
<1>3. PICK f : Unfolds(f, N, Memory, Blank, G)
  <2> HIDE DEF G
  <2> QED BY <1>2, RecursiveFunction
<1>4. f \in [0..N -> Memory] /\ f[0] = Blank /\ \A i \in 1..N : f[i] = G[i][f[i - 1]]
  <2> HIDE DEF G
  <2> QED BY <1>3 DEF Unfolds
<1>5. \A i \in 1..N : f[i] = Load(f[i - 1], rs[i])
  <2> TAKE i \in 1..N
  <2>1. i - 1 \in 0..N
    BY <1>1
  <2>2. PICK x \in Memory : x = f[i - 1]
    BY <1>4, <2>1
  <2>3. G[i][x] = Load(x, rs[i])
    OBVIOUS
  <2> HIDE DEF G
  <2> QED BY <1>4, <2>2, <2>3
<1>6. \A i \in 0..N : f[i] = IF i = 0 THEN Blank ELSE Load(f[i - 1], rs[i])
  <2> TAKE i \in 0..N
  <2>1. i = 0 \/ i \in 1..N
    BY <1>1
  <2>2. i \in 1..N => i # 0
    BY <1>1
  <2> QED BY <1>4, <1>5, <2>1, <2>2
<1>7. f = [i \in 0..N |-> f[i]]
  BY <1>4
<1>8. f = [i \in 0..N |-> IF i = 0 THEN Blank ELSE Load(f[i - 1], rs[i])]
  BY <1>6, <1>7
<1> QED BY <1>4, <1>8 DEF Loading, N

\* Two such functions agree as far as their records do.
LEMMA LoadingAgrees ==
  ASSUME NEW n \in Nat, NEW rs, NEW f, Loading(f, rs), n <= Len(rs), Len(rs) \in Nat,
         NEW qs, NEW g, Loading(g, qs), n <= Len(qs), Len(qs) \in Nat,
         \A i \in 1..n : rs[i] = qs[i]
  PROVE  f[n] = g[n]
<1> DEFINE T == {i \in 0..n : f[i] = g[i]}
<1>1. /\ \A i \in 0..n : f[i] = IF i = 0 THEN Blank ELSE Load(f[i - 1], rs[i])
      /\ \A i \in 0..n : g[i] = IF i = 0 THEN Blank ELSE Load(g[i - 1], qs[i])
  <2>1. \A i \in 0..Len(rs) : f[i] = IF i = 0 THEN Blank ELSE Load(f[i - 1], rs[i])
    BY DEF Loading
  <2>2. \A i \in 0..Len(qs) : g[i] = IF i = 0 THEN Blank ELSE Load(g[i - 1], qs[i])
    BY DEF Loading
  <2>3. \A i \in 0..n : i \in 0..Len(rs) /\ i \in 0..Len(qs)
    OBVIOUS
  <2> QED BY <2>1, <2>2, <2>3
<1>2. 0 \in T
  BY <1>1
<1>3. ASSUME NEW i \in 0..(n - 1), i \in T PROVE i + 1 \in T
  <2>1. i + 1 \in 0..n /\ i + 1 # 0 /\ (i + 1) - 1 = i /\ i + 1 \in 1..n
    OBVIOUS
  <2>2. f[i + 1] = Load(f[i], rs[i + 1]) /\ g[i + 1] = Load(g[i], qs[i + 1])
    BY <1>1, <2>1
  <2> QED BY <1>3, <2>1, <2>2
<1>4. n \in T
  <2>1. 0..n \subseteq T
    <3> HIDE DEF T
    <3> QED BY <1>2, <1>3, BoundedInduction
  <2> QED BY <2>1
<1> QED BY <1>4

LEMMA LoadedIs ==
  ASSUME NEW rs, NEW f, Loading(f, rs), Len(rs) \in Nat
  PROVE  LoadedFrom(rs) = f[Len(rs)]
<1>1. PICK g : g = CHOOSE h : Loading(h, rs)
  OBVIOUS
<1>2. Loading(g, rs)
  BY <1>1
<1>3. LoadedFrom(rs) = g[Len(rs)]
  BY <1>1 DEF LoadedFrom, Loading, Blank
<1>4. g[Len(rs)] = f[Len(rs)]
  BY <1>2, LoadingAgrees
<1> QED BY <1>3, <1>4

LEMMA LoadedEmpty == LoadedFrom(<<>>) = Blank
<1>1. <<>> \in Seq(GoodRecord) /\ Len(<<>>) = 0
  OBVIOUS
<1>2. PICK f : Loading(f, <<>>)
  BY <1>1, LoadingExists
<1>3. LoadedFrom(<<>>) = f[0]
  BY <1>1, <1>2, LoadedIs
<1>4. f = [i \in 0..0 |-> IF i = 0 THEN Blank ELSE Load(f[i - 1], <<>>[i])]
  BY <1>1, <1>2 DEF Loading
<1> QED BY <1>3, <1>4

LEMMA LoadedAppend ==
  ASSUME NEW rs \in Seq(GoodRecord), NEW r \in GoodRecord
  PROVE  LoadedFrom(rs) \in Memory /\ LoadedFrom(Append(rs, r)) = Load(LoadedFrom(rs), r)
<1>1. PICK qs \in Seq(GoodRecord) : qs = Append(rs, r)
  <2>1. Append(rs, r) \in Seq(GoodRecord)
    OBVIOUS
  <2> QED BY <2>1
<1>2. PICK n \in Nat : n = Len(rs)
  OBVIOUS
<1>3. Len(qs) = n + 1 /\ qs[n + 1] = r /\ \A i \in 1..n : qs[i] = rs[i]
  BY <1>1, <1>2
<1>4. PICK f \in [0..n -> Memory] : Loading(f, rs)
  BY <1>2, LoadingExists
<1>5. PICK g : Loading(g, qs)
  BY LoadingExists
<1>6. f[n] = g[n]
  <2>1. Len(rs) \in Nat /\ n <= Len(rs) /\ Len(qs) \in Nat /\ n <= Len(qs) /\ \A i \in 1..n : rs[i] = qs[i]
    BY <1>2, <1>3
  <2> QED BY <1>4, <1>5, <2>1, LoadingAgrees
<1>7. LoadedFrom(rs) = f[n] /\ LoadedFrom(qs) = g[n + 1]
  <2>1. Len(rs) \in Nat /\ Len(qs) \in Nat
    OBVIOUS
  <2>2. LoadedFrom(rs) = f[Len(rs)] /\ LoadedFrom(qs) = g[Len(qs)]
    BY <1>4, <1>5, <2>1, LoadedIs
  <2> QED BY <1>2, <1>3, <2>2
<1>8. g[n + 1] = Load(g[n], qs[n + 1])
  <2>1. g = [i \in 0..(n + 1) |-> IF i = 0 THEN Blank ELSE Load(g[i - 1], qs[i])]
    BY <1>3, <1>5 DEF Loading
  <2>2. n + 1 \in 0..(n + 1) /\ n + 1 # 0 /\ (n + 1) - 1 = n
    OBVIOUS
  <2> QED BY <2>1, <2>2
<1>9. n \in 0..n
  OBVIOUS
<1> QED BY <1>1, <1>3, <1>4, <1>6, <1>7, <1>8, <1>9

----------------------------------------------------------------------------
(***************************************************************************)
(* Counting pieces.                                                        *)
(***************************************************************************)
LEMMA Sizes ==
  /\ PageRecords \in Nat \ {0} /\ RecordBytes \in Nat \ {0} /\ RecordBytes <= 255
  /\ BaseAddress \in Nat /\ PageSize \in Nat \ {0} /\ BaseAddress + PageSize <= 65536
  /\ SigLength \in Nat \ {0} /\ SigLength < PageSize
<1>1. PageRecords \in Nat \ {0} /\ RecordBytes \in Nat \ {0} /\ RecordBytes <= 255 /\ BaseAddress \in Nat
  BY ExportAssumption
<1>2. PageRecords * RecordBytes \in Nat
  BY <1>1
<1>3. SigLength \in 1..PageSize - 1 /\ BaseAddress + PageSize <= 65536
  BY ExportAssumption
<1>4. PageSize \in Nat
  BY <1>2 DEF PageSize
<1> QED BY <1>1, <1>3, <1>4

\* Multiples of a size are in the order of their factors.
LEMMA Multiples ==
  ASSUME NEW a \in Int, NEW b \in Int, NEW d \in Nat \ {0}
  PROVE  /\ a * d \in Int /\ b * d \in Int
         /\ (a + 1) * d = a * d + d /\ (a - 1) * d = a * d - d
         /\ a <= b => a * d <= b * d
         /\ a * d < b * d => a < b
<1>1. a * d \in Int /\ b * d \in Int /\ (a + 1) * d = a * d + d /\ (a - 1) * d = a * d - d
  OBVIOUS
<1>2. ASSUME a <= b PROVE a * d <= b * d
  <2>1. PICK c \in Nat : b = a + c
    <3>1. b - a \in Nat /\ b = a + (b - a)
      BY <1>2
    <3> QED BY <3>1
  <2>2. b * d = a * d + c * d /\ c * d \in Nat
    BY <2>1
  <2> QED BY <1>1, <2>2
<1>3. ASSUME a * d < b * d PROVE a < b
  <2>1. CASE b <= a
    <3>1. PICK c \in Nat : a = b + c
      <4>1. a - b \in Nat /\ a = b + (a - b)
        BY <2>1
      <4> QED BY <4>1
    <3>2. a * d = b * d + c * d /\ c * d \in Nat
      BY <3>1
    <3> QED BY <1>1, <1>3, <3>2
  <2> QED BY <2>1
<1> QED BY <1>1, <1>2, <1>3

\* The number of pieces is determined by what they hold.
LEMMA CoversOnce ==
  ASSUME NEW k \in Int, NEW j \in Int, NEW d \in Nat \ {0}, NEW n \in Int,
         Covers(k, d, n), Covers(j, d, n)
  PROVE  k = j
<1>1. (k - 1) * d < n /\ n <= k * d /\ (j - 1) * d < n /\ n <= j * d
  BY DEF Covers
<1>2. (k - 1) * d \in Int /\ (j - 1) * d \in Int /\ k * d \in Int /\ j * d \in Int
  OBVIOUS
<1>3. (k - 1) * d < j * d /\ (j - 1) * d < k * d
  <2> HIDE <1>1
  <2> QED BY <1>1, <1>2
<1>4. k - 1 < j /\ j - 1 < k
  <2>1. k - 1 \in Int /\ j - 1 \in Int
    OBVIOUS
  <2> QED BY <1>3, <2>1, Multiples
<1> QED BY <1>4

\* Division is what it says.
LEMMA Divides ==
  ASSUME NEW q \in Int, NEW r \in Int, NEW d \in Nat \ {0}, 0 <= r, r < d, NEW n \in Int, n = q * d + r
  PROVE  n \div d = q /\ n % d = r
OBVIOUS

LEMMA Division ==
  ASSUME NEW n \in Nat, NEW d \in Nat \ {0}
  PROVE  /\ n \div d \in Nat /\ n % d \in Nat /\ n % d < d
         /\ n = (n \div d) * d + (n % d)
OBVIOUS

----------------------------------------------------------------------------
(***************************************************************************)
(* Programs: the bytes of their section.                                   *)
(***************************************************************************)
LEMMA LowHigh ==
  ASSUME NEW n \in Int
  PROVE  /\ Lo(n) \in Byte /\ Hi(n) \in Byte
         /\ n >= 0 /\ n < 65536 => Lo(n) + 256 * Hi(n) = n
<1>1. n % 256 \in Nat /\ n % 256 <= 255 /\ n \div 256 \in Int
  OBVIOUS
<1>2. (n \div 256) % 256 \in Nat /\ (n \div 256) % 256 <= 255
  BY <1>1
<1>3. ASSUME n >= 0, n < 65536 PROVE (n % 256) + 256 * ((n \div 256) % 256) = n
  BY <1>3
<1>4. Lo(n) \in Byte /\ Hi(n) \in Byte
  BY <1>1, <1>2, Bytes DEF Lo, Hi
<1> QED BY <1>3, <1>4 DEF Lo, Hi

----------------------------------------------------------------------------
(***************************************************************************)
(* Types and the places where records begin.                               *)
(***************************************************************************)
Hex == job.type \in {"8XK", "HEX"}

\* Where the writing of records is: on the border of a page, or m records into it.
Place ==
  /\ ~Hex \/ phase \in {"start", "refused"} =>
       phase \notin {"pages", "records"} /\ buffer = <<>> /\ records = <<>> /\ page = 0 /\ bpnt = 0
  /\ phase = "pages" => bpnt = Len(buffer) \/ bpnt = page * PageSize
  /\ phase = "done" => bpnt = Len(buffer)
  /\ phase # "records" => Covers(page, PageSize, bpnt)
  /\ phase = "records" =>
       /\ page >= 1 /\ page <= 65536 /\ bpnt < Len(buffer)
       /\ \E m \in 0..PageRecords - 1 :
            address = BaseAddress + m * RecordBytes /\ bpnt = (page - 1) * PageSize + m * RecordBytes
  /\ Len(buffer) <= 65536 * PageSize

Typed ==
  /\ job.type \in Types
  /\ phase \in {"start", "pages", "records", "done", "refused"}
  /\ buffer \in Seq(Byte) /\ bpnt \in 0..Len(buffer)
  /\ page \in Nat /\ address \in Nat
  /\ records \in Seq(GoodRecord)

Inv == job \in Jobs /\ Typed /\ Place

LEMMA Begins == Init => Inv
<1> SUFFICES ASSUME Init PROVE Inv
  OBVIOUS
<1>1. job \in Jobs /\ phase = "start" /\ buffer = <<>> /\ page = 0 /\ bpnt = 0 /\ address = 0 /\ records = <<>>
  BY DEF Init
<1>2. job.type \in Types
  BY <1>1, JobsAssumption
<1>3. Typed
  <2>1. <<>> \in Seq(Byte) /\ Len(<<>>) = 0 /\ <<>> \in Seq(GoodRecord)
    OBVIOUS
  <2> QED BY <1>1, <1>2, <2>1 DEF Typed
<1>4. Covers(0, PageSize, 0)
  <2>1. (0 - 1) * PageSize < 0 /\ 0 <= 0 * PageSize
    BY Sizes
  <2> QED BY <2>1 DEF Covers
<1>5. 65536 * PageSize >= 0 /\ Len(<<>>) = 0
  BY Sizes
<1> QED BY <1>1, <1>3, <1>4, <1>5 DEF Inv, Place

\* Output that starts to be written.
LEMMA Starts ==
  ASSUME Inv, phase = "start", phase' = "pages", Hex,
         buffer' \in Seq(Byte), Len(buffer') <= 65536 * PageSize,
         UNCHANGED <<job, page, bpnt, address, records>>
  PROVE  Inv'
<1>1. page = 0 /\ bpnt = 0 /\ Covers(page, PageSize, bpnt)
  BY DEF Inv, Place
<1>2. Typed'
  <2>1. Len(buffer') \in Nat
    OBVIOUS
  <2>2. bpnt' \in 0..Len(buffer')
    BY <1>1, <2>1
  <2> QED BY <2>2 DEF Inv, Typed
<1>3. 0 * PageSize = 0
  BY Sizes
<1>4. Place'
  BY <1>1, <1>3 DEF Place, Covers, Hex
<1> QED BY <1>2, <1>4 DEF Inv

LEMMA StartsApp ==
  ASSUME Inv, MakeApp
  PROVE  Inv'
<1>1. phase = "start" /\ job.type = "8XK" /\ UNCHANGED <<job, page, bpnt, address, records>>
  BY DEF MakeApp
<1>2. CASE phase' = "pages"
  <2>1. buffer' = job.contents \o [i \in 1..SigLength |-> 255]
    BY <1>2 DEF MakeApp
  <2>2. job.contents \in Seq(Byte) /\ Len(job.contents) + SigLength <= 65536 * PageSize
    BY JobsAssumption DEF Inv, PagesAtMost
  <2>3. /\ [i \in 1..SigLength |-> 255] \in Seq(Byte)
        /\ Len([i \in 1..SigLength |-> 255]) = SigLength
    <3>1. 255 \in Byte /\ SigLength \in Nat
      BY Bytes, Sizes
    <3> QED BY <3>1
  <2>4. buffer' \in Seq(Byte) /\ Len(buffer') = Len(job.contents) + SigLength
    <3> HIDE <1>1, <1>2
    <3>1. PICK c \in Seq(Byte), t \in Seq(Byte) : c = job.contents /\ t = [i \in 1..SigLength |-> 255]
      BY <2>2, <2>3
    <3>2. c \o t \in Seq(Byte) /\ Len(c \o t) = Len(c) + Len(t)
      OBVIOUS
    <3> QED BY <2>1, <2>3, <3>1, <3>2
  <2> QED BY <1>1, <1>2, <2>2, <2>4, Starts DEF Hex
<1>3. CASE phase' # "pages"
  <2>1. phase' = "refused" /\ UNCHANGED buffer
    BY <1>3 DEF MakeApp
  <2> QED BY <1>1, <2>1 DEF Inv, Typed, Place, Hex, Covers
<1> QED BY <1>2, <1>3

LEMMA StartsHex ==
  ASSUME Inv, MakeHex
  PROVE  Inv'
<1>1. /\ phase = "start" /\ job.type = "HEX" /\ UNCHANGED <<job, page, bpnt, address, records>>
      /\ phase' = "pages" /\ buffer' = job.contents
  BY DEF MakeHex
<1>2. job.contents \in Seq(Byte) /\ Len(job.contents) + SigLength <= 65536 * PageSize
  BY JobsAssumption DEF Inv, PagesAtMost
<1>3. Len(job.contents) <= 65536 * PageSize
  <2>1. Len(job.contents) \in Nat
    BY <1>2
  <2>2. PICK b \in Nat : b = 65536 * PageSize
    BY Sizes
  <2> QED BY <1>2, <2>1, <2>2, Sizes
<1> QED BY <1>1, <1>2, <1>3, Starts DEF Hex

\* A page starts where a page ends, before the last number of a page.
LEMMA PageStarts ==
  ASSUME Inv, StartPage
  PROVE  bpnt = page * PageSize /\ page < 65536
<1>1. /\ page \in Nat /\ bpnt = page * PageSize /\ bpnt < Len(buffer) /\ Len(buffer) <= 65536 * PageSize
      /\ Len(buffer) \in Nat /\ bpnt \in Nat
  BY DEF Inv, Typed, Place, StartPage
<1>2. page * PageSize < 65536 * PageSize
  <2>1. PICK b \in Nat : b = 65536 * PageSize
    BY Sizes
  <2> QED BY <1>1, <2>1
<1> QED BY <1>1, <1>2, Sizes, Multiples

LEMMA PageRecord ==
  ASSUME Inv, StartPage
  PROVE  /\ Record(0, 2, <<Hi(page), Lo(page)>>, (-(4 + page)) % 256) \in GoodRecord
         /\ records' = Append(records, Record(0, 2, <<Hi(page), Lo(page)>>, (-(4 + page)) % 256))
<1>1. page \in Nat /\ Hi(page) \in Byte /\ Lo(page) \in Byte
  <2>1. page \in Nat /\ page \in Int
    BY DEF Inv, Typed
  <2> QED BY <2>1, LowHigh
<1>2. (-(4 + page)) % 256 \in Byte
  <2>1. (-(4 + page)) % 256 \in Nat /\ (-(4 + page)) % 256 <= 255
    BY <1>1
  <2> QED BY <2>1, Bytes
<1>3. PICK c \in Byte : c = (-(4 + page)) % 256
  BY <1>2
<1>4. PICK d \in Seq(Byte) : d = <<Hi(page), Lo(page)>> /\ Len(d) = 2
  <2>1. \A x, y \in Byte : <<x, y>> \in Seq(Byte) /\ Len(<<x, y>>) = 2
    OBVIOUS
  <2> QED BY <1>1, <2>1
<1>5. 0 \in Address
  BY Addresses
<1>6. Record(0, 2, d, c) \in GoodRecord
  <2>1. 2 \in 0..2 /\ 2 \in Nat
    OBVIOUS
  <2>2. Record(0, 2, d, c) \in [len : Nat, address : Address, type : 0..2, data : Seq(Byte), chksum : Byte]
    BY <1>4, <1>5, <2>1 DEF Record
  <2> QED BY <1>4, <2>2 DEF Record, GoodRecord
<1> QED BY <1>3, <1>4, <1>6 DEF StartPage

LEMMA PageKeeps ==
  ASSUME Inv, StartPage
  PROVE  Inv'
<1>1. bpnt = page * PageSize /\ page < 65536
  BY PageStarts
<1>2. records' \in Seq(GoodRecord)
  <2>1. records \in Seq(GoodRecord)
    BY DEF Inv, Typed
  <2> QED BY <2>1, PageRecord
<1>3. /\ phase = "pages" /\ bpnt < Len(buffer) /\ phase' = "records" /\ page' = page + 1
      /\ address' = BaseAddress /\ UNCHANGED <<job, buffer, bpnt>>
  BY DEF StartPage
<1>4. Typed'
  BY <1>2, <1>3, Sizes DEF Inv, Typed
<1>5. address' = BaseAddress + 0 * RecordBytes /\ bpnt' = (page' - 1) * PageSize + 0 * RecordBytes
  <2>1. page' - 1 = page /\ page \in Nat /\ page * PageSize \in Nat
    BY <1>3, Sizes DEF Inv, Typed
  <2> QED BY <1>1, <1>3, <2>1, Sizes
<1>6. 0 \in 0..PageRecords - 1
  BY Sizes
<1>7. page' >= 1 /\ page' <= 65536
  BY <1>1, <1>3 DEF Inv, Typed
<1>8. Place'
  BY <1>3, <1>5, <1>6, <1>7 DEF Inv, Place, Hex, Covers
<1> QED BY <1>3, <1>4, <1>8 DEF Inv

\* The bytes of the next record: as many as fit, or all that are left.
Data ==
  SubSeq(buffer, bpnt + 1, IF bpnt + RecordBytes < Len(buffer) THEN bpnt + RecordBytes ELSE Len(buffer))

LEMMA DataBytes ==
  ASSUME Inv, DataRecord
  PROVE  /\ phase = "records" /\ bpnt \in Nat /\ bpnt < Len(buffer) /\ Len(buffer) \in Nat
         /\ Data \in Seq(Byte) /\ Len(Data) \in 1..RecordBytes
         /\ bpnt + Len(Data) <= Len(buffer)
         /\ Len(Data) = RecordBytes \/ bpnt + Len(Data) = Len(buffer)
         /\ \A k \in 1..Len(Data) : Data[k] = buffer[bpnt + k]
<1>1. /\ phase = "records" /\ bpnt \in Nat /\ bpnt < Len(buffer) /\ Len(buffer) \in Nat
      /\ buffer \in Seq(Byte)
  BY DEF Inv, Typed, Place, DataRecord
<1>2. PICK e \in Nat : /\ e = IF bpnt + RecordBytes < Len(buffer) THEN bpnt + RecordBytes ELSE Len(buffer)
                       /\ e > bpnt /\ e <= Len(buffer) /\ e - bpnt <= RecordBytes
                       /\ e = bpnt + RecordBytes \/ e = Len(buffer)
  <2>1. CASE bpnt + RecordBytes < Len(buffer)
    BY <1>1, <2>1, Sizes
  <2>2. CASE ~(bpnt + RecordBytes < Len(buffer))
    BY <1>1, <2>2, Sizes
  <2> QED BY <2>1, <2>2
<1>3. Data = SubSeq(buffer, bpnt + 1, e)
  BY <1>2 DEF Data
<1>4. /\ Data \in Seq(Byte) /\ Len(Data) = e - bpnt
      /\ \A k \in 1..(e - bpnt) : Data[k] = buffer[bpnt + k]
  BY <1>1, <1>2, <1>3
<1>5. Len(Data) \in 1..RecordBytes /\ bpnt + Len(Data) = e
  BY <1>1, <1>2, <1>4, Sizes
<1>6. Len(Data) = RecordBytes \/ bpnt + Len(Data) = Len(buffer)
  BY <1>1, <1>2, <1>4, Sizes
<1> QED BY <1>1, <1>2, <1>4, <1>5, <1>6

LEMMA DataStep ==
  ASSUME Inv, DataRecord
  PROVE  LET r == Record(address, 0, Data, Chksum(Len(Data), address, 0, Data))
         IN /\ r \in GoodRecord
            /\ records' = Append(records, r)
            /\ bpnt' = bpnt + Len(Data) /\ address' = address + RecordBytes
            /\ phase' = IF bpnt' < Len(buffer) /\ address' - BaseAddress < PageSize THEN "records" ELSE "pages"
            /\ UNCHANGED <<job, buffer, page, app, section>>
<1>1. PICK m \in 0..PageRecords - 1 : address = BaseAddress + m * RecordBytes
  BY DataBytes DEF Inv, Place
<1>2. address \in Address
  <2>1. m <= PageRecords /\ m \in Nat /\ PageRecords \in Int
    BY Sizes
  <2>2. m * RecordBytes <= PageRecords * RecordBytes
    BY <2>1, Sizes, Multiples
  <2>3. m - 0 >= 0 /\ m * RecordBytes \in Nat
    BY <2>1, Sizes
  <2>4. m * RecordBytes < PageSize
    <3>1. m < PageRecords /\ m + 1 <= PageRecords /\ m + 1 \in Int
      BY <2>1
    <3>2. (m + 1) * RecordBytes <= PageRecords * RecordBytes /\ (m + 1) * RecordBytes = m * RecordBytes + RecordBytes
      BY <2>1, <3>1, Sizes, Multiples
    <3>3. PageRecords * RecordBytes = PageSize
      BY DEF PageSize
    <3> QED BY <2>3, <3>2, <3>3, Sizes
  <2>5. PICK x \in Nat : x = m * RecordBytes
    BY <2>3
  <2>6. address \in Nat /\ address <= 65535
    BY <1>1, <2>4, <2>5, Sizes
  <2> QED BY <2>6, Addresses
<1>3. PICK c \in Byte : c = Chksum(Len(Data), address, 0, Data)
  <2>1. Total(Data) \in Nat
    BY DataBytes, ByteSequences, TotalNat
  <2>2. Hi(address) \in Nat /\ Lo(address) \in Nat
    <3>1. address \in Int
      BY <1>2, Addresses
    <3>2. Hi(address) \in Byte /\ Lo(address) \in Byte
      BY <3>1, LowHigh
    <3> QED BY <3>2, Bytes
  <2>3. Len(Data) \in Nat
    BY DataBytes
  <2>4. Hi(address) + Lo(address) + 0 + Total(Data) + Len(Data) \in Int
    BY <2>1, <2>2, <2>3
  <2>5. \A x \in Int : (-x) % 256 \in Nat /\ (-x) % 256 <= 255
    OBVIOUS
  <2> QED BY <2>4, <2>5, Bytes DEF Chksum
<1>4. Record(address, 0, Data, c) \in GoodRecord
  <2>1. Data \in Seq(Byte)
    BY DataBytes
  <2> QED BY <1>2, <2>1 DEF Record, GoodRecord
<1>5. 0 \in 0..2
  OBVIOUS
<1> QED BY <1>3, <1>4 DEF DataRecord, Data

LEMMA DataKeeps ==
  ASSUME Inv, DataRecord
  PROVE  Inv'
<1>1. /\ phase = "records" /\ bpnt \in Nat /\ Len(buffer) \in Nat
      /\ Len(Data) \in 1..RecordBytes /\ bpnt + Len(Data) <= Len(buffer)
      /\ Len(Data) = RecordBytes \/ bpnt + Len(Data) = Len(buffer)
  BY DataBytes
<1>2. /\ bpnt' = bpnt + Len(Data) /\ address' = address + RecordBytes
      /\ phase' = IF bpnt' < Len(buffer) /\ address' - BaseAddress < PageSize THEN "records" ELSE "pages"
      /\ UNCHANGED <<job, buffer, page>>
  BY DataStep
<1>3. records' \in Seq(GoodRecord)
  <2>1. records \in Seq(GoodRecord)
    BY DEF Inv, Typed
  <2>2. PICK r \in GoodRecord : records' = Append(records, r)
    BY DataStep
  <2> QED BY <2>1, <2>2
<1>4. Typed'
  <2>1. bpnt' \in 0..Len(buffer) /\ address' \in Nat
    <3>1. address \in Nat
      BY DEF Inv, Typed
    <3> QED BY <1>1, <1>2, <3>1, Sizes
  <2> QED BY <1>2, <1>3, <2>1 DEF Inv, Typed
<1>5. page \in Nat /\ page >= 1 /\ page <= 65536 /\ Hex
  BY <1>1 DEF Inv, Typed, Place
<1>6. PICK m \in 0..PageRecords - 1 :
        address = BaseAddress + m * RecordBytes /\ bpnt = (page - 1) * PageSize + m * RecordBytes
  BY <1>1 DEF Inv, Place
<1>7. PICK x \in Nat, y \in Nat : /\ x = m * RecordBytes /\ y = (page - 1) * PageSize
                                  /\ (m + 1) * RecordBytes = x + RecordBytes
                                  /\ page * PageSize = y + PageSize
                                  /\ x + RecordBytes <= PageSize
                                  /\ (m + 1 = PageRecords => x + RecordBytes = PageSize)
                                  /\ (x + RecordBytes < PageSize => m + 1 \in 0..PageRecords - 1)
  <2>1. m \in Nat /\ page - 1 \in Nat /\ m + 1 \in Int /\ PageRecords \in Int /\ m + 1 <= PageRecords
    BY <1>5, Sizes
  <2>2. m * RecordBytes \in Nat /\ (page - 1) * PageSize \in Nat
    BY <2>1, Sizes
  <2>3. (m + 1) * RecordBytes = m * RecordBytes + RecordBytes
    BY <2>1, Sizes, Multiples
  <2>4. (m + 1) * RecordBytes <= PageRecords * RecordBytes
    BY <2>1, Sizes, Multiples
  <2>5. page * PageSize = (page - 1) * PageSize + PageSize
    <3>1. ((page - 1) + 1) * PageSize = (page - 1) * PageSize + PageSize
      BY <2>1, Sizes, Multiples
    <3>2. (page - 1) + 1 = page
      BY <1>5
    <3> QED BY <3>1, <3>2
  <2>6. PageRecords * RecordBytes = PageSize
    BY DEF PageSize
  <2>7. m + 1 \in 0..PageRecords - 1 \/ m + 1 = PageRecords
    BY <2>1
  <2>8. m + 1 = PageRecords => m * RecordBytes + RecordBytes = PageSize
    BY <2>3, <2>6
  <2> QED BY <2>2, <2>3, <2>4, <2>5, <2>6, <2>7, <2>8, Sizes
<1>8. PICK l \in Nat : l = Len(Data) /\ l >= 1 /\ l <= RecordBytes
  BY <1>1
<1>9. bpnt = y + x /\ bpnt' = y + x + l /\ address' - BaseAddress = x + RecordBytes
  BY <1>2, <1>6, <1>7, <1>8, Sizes
<1>10. Len(buffer') <= 65536 * PageSize
  BY <1>2 DEF Inv, Place
<1>11. CASE phase' = "records"
  <2>1. bpnt' < Len(buffer) /\ x + RecordBytes < PageSize
    BY <1>2, <1>9, <1>11
  <2>2. l = RecordBytes
    BY <1>1, <1>2, <1>8, <2>1
  <2>3. m + 1 \in 0..PageRecords - 1
    BY <1>7, <2>1
  <2>4. /\ address' = BaseAddress + (m + 1) * RecordBytes
        /\ bpnt' = (page' - 1) * PageSize + (m + 1) * RecordBytes
    <3>1. address' = BaseAddress + (x + RecordBytes) /\ bpnt' = y + (x + RecordBytes)
      BY <1>2, <1>6, <1>7, <1>9, <2>2, Sizes
    <3> QED BY <1>2, <1>7, <3>1
  <2> QED BY <1>2, <1>4, <1>5, <1>10, <1>11, <2>1, <2>3, <2>4 DEF Inv, Place, Hex
<1>12. CASE phase' = "pages"
  <2>1. bpnt' = Len(buffer) \/ x + RecordBytes >= PageSize
    <3>1. bpnt' <= Len(buffer) /\ bpnt' \in Nat
      BY <1>1, <1>2, <1>8
    <3>2. ~(bpnt' < Len(buffer) /\ x + RecordBytes < PageSize)
      BY <1>2, <1>9, <1>12
    <3>3. x + RecordBytes \in Nat /\ PageSize \in Nat /\ Len(buffer) \in Nat
      BY <1>1, Sizes
    <3> HIDE <1>7
    <3> QED BY <3>1, <3>2, <3>3
  <2>2. bpnt' = Len(buffer) \/ bpnt' = page * PageSize
    <3>1. CASE bpnt' = Len(buffer)
      BY <3>1
    <3>2. CASE x + RecordBytes >= PageSize /\ bpnt' # Len(buffer)
      <4>1. l = RecordBytes
        BY <1>1, <1>2, <1>8, <3>2
      <4>2. x + RecordBytes = PageSize
        BY <1>7, <3>2, Sizes
      <4> QED BY <1>7, <1>9, <4>1, <4>2, Sizes, SMTT(30)
    <3> QED BY <2>1, <3>1, <3>2
  <2>3. Covers(page, PageSize, bpnt')
    <3>1. y < bpnt' /\ bpnt' <= y + PageSize
      BY <1>7, <1>8, <1>9, Sizes, SMTT(30)
    <3> QED BY <1>7, <3>1 DEF Covers
  <2>4. Covers(page, PageSize, bpnt)'
    BY <1>2, <2>3 DEF Covers, PageSize
  <2> QED BY <1>2, <1>4, <1>5, <1>10, <1>12, <2>2, <2>4 DEF Inv, Place, Hex
<1> QED BY <1>2, <1>11, <1>12

LEMMA EndRecord ==
  /\ Record(0, 1, <<>>, 255) \in GoodRecord
<1>1. <<>> \in Seq(Byte) /\ Len(<<>>) = 0 /\ 1 \in 0..2 /\ 0 \in Nat
  OBVIOUS
<1>2. 0 \in Address /\ 255 \in Byte
  BY Addresses, Bytes
<1>3. Record(0, 1, <<>>, 255) \in [len : Nat, address : Address, type : 0..2, data : Seq(Byte), chksum : Byte]
  BY <1>1, <1>2 DEF Record
<1> QED BY <1>1, <1>3 DEF Record, GoodRecord

LEMMA EndKeeps ==
  ASSUME Inv, EndOfHex
  PROVE  Inv'
<1>1. /\ phase = "pages" /\ bpnt = Len(buffer) /\ phase' = "done"
      /\ records' = Append(records, Record(0, 1, <<>>, 255))
      /\ UNCHANGED <<job, buffer, page, bpnt, address>>
  BY DEF EndOfHex
<1>2. records' \in Seq(GoodRecord)
  <2>1. records \in Seq(GoodRecord)
    BY DEF Inv, Typed
  <2> QED BY <1>1, <2>1, EndRecord
<1> QED BY <1>1, <1>2 DEF Inv, Typed, Place, Hex, Covers

LEMMA PrgmKeeps ==
  ASSUME Inv, MakePrgm
  PROVE  Inv'
<1>1. /\ phase = "start" /\ job.type \in ProgramTypes /\ phase' = "done"
      /\ UNCHANGED <<job, buffer, page, bpnt, address, records>>
  BY DEF MakePrgm
<1>2. ~Hex
  BY <1>1 DEF Hex, ProgramTypes
<1>3. Len(<<>>) = 0
  OBVIOUS
<1> QED BY <1>1, <1>2, <1>3 DEF Inv, Typed, Place, Hex, Covers

LEMMA Step ==
  ASSUME Inv, [Next]_vars
  PROVE  Inv'
<1>1. CASE MakeApp
  BY <1>1, StartsApp
<1>2. CASE MakeHex
  BY <1>2, StartsHex
<1>3. CASE MakePrgm
  BY <1>3, PrgmKeeps
<1>4. CASE StartPage
  BY <1>4, PageKeeps
<1>5. CASE DataRecord
  BY <1>5, DataKeeps
<1>6. CASE EndOfHex
  BY <1>6, EndKeeps
<1>7. CASE UNCHANGED vars
  BY <1>7 DEF vars, Inv, Typed, Place, Hex, Covers
<1> QED BY <1>1, <1>2, <1>3, <1>4, <1>5, <1>6, <1>7 DEF Next, Finished

LEMMA Invariant == Spec => []Inv
BY Begins, Step, PTL DEF Spec

----------------------------------------------------------------------------
(***************************************************************************)
(* Checksums.                                                              *)
(***************************************************************************)
\* What a checksum adds is what the other bytes lack.
LEMMA ChecksumWorks ==
  \A x \in Int : (x + ((-x) % 256)) % 256 = 0
OBVIOUS

LEMMA DataAddsUp ==
  ASSUME Inv, DataRecord
  PROVE  AddsUp(Record(address, 0, Data, Chksum(Len(Data), address, 0, Data)))
<1>1. PICK t \in Nat : t = Total(Data)
  <2>1. Total(Data) \in Nat
    BY DataBytes, ByteSequences, TotalNat
  <2> QED BY <2>1
<1>2. PICK h \in Nat, l \in Nat, n \in Nat : h = Hi(address) /\ l = Lo(address) /\ n = Len(Data)
  <2>1. address \in Int
    BY DEF Inv, Typed
  <2>2. Hi(address) \in Nat /\ Lo(address) \in Nat
    <3>1. Hi(address) \in Byte /\ Lo(address) \in Byte
      BY <2>1, LowHigh
    <3> QED BY <3>1, Bytes
  <2>3. Len(Data) \in Nat
    BY DataBytes
  <2> QED BY <2>2, <2>3
<1>3. PICK x \in Int : x = h + l + 0 + t + n
  OBVIOUS
<1>4. PICK c \in Int : c = (-x) % 256
  OBVIOUS
<1>5. Chksum(Len(Data), address, 0, Data) = c
  BY <1>1, <1>2, <1>3, <1>4 DEF Chksum
<1>6. n + h + l + 0 + t + c = x + c
  BY <1>3
<1>7. (x + c) % 256 = 0
  BY <1>4, ChecksumWorks
<1> QED BY <1>1, <1>2, <1>5, <1>6, <1>7 DEF AddsUp, Record

\* The checksum of a page's record leaves the high byte of its number out.
LEMMA PageAddsUp ==
  ASSUME Inv, page < 256
  PROVE  AddsUp(Record(0, 2, <<Hi(page), Lo(page)>>, (-(4 + page)) % 256))
<1>1. page \in Nat
  BY DEF Inv, Typed
<1>2. Hi(page) = 0 /\ Lo(page) = page /\ Hi(0) = 0 /\ Lo(0) = 0
  <2>1. page \div 256 = 0 /\ page % 256 = page
    BY <1>1
  <2> QED BY <2>1 DEF Hi, Lo
<1>3. PICK x \in Int, c \in Int : x = 4 + page /\ c = (-x) % 256
  BY <1>1
<1>4. Total(<<0, page>>) = page
  <2>1. Total(<<0, page>>) = 0 + page
    BY <1>1, TotalPair
  <2> QED BY <1>1, <2>1
<1>5. Len(<<0, page>>) = 2
  OBVIOUS
<1>6. (x + c) % 256 = 0 /\ 2 + 0 + 0 + 2 + page + c = x + c
  BY <1>1, <1>3, ChecksumWorks
<1>7. AddsUp(Record(0, 2, <<0, page>>, c))
  BY <1>2, <1>4, <1>5, <1>6 DEF AddsUp, Record
<1> QED BY <1>2, <1>3, <1>7

LEMMA EndAddsUp == AddsUp(Record(0, 1, <<>>, 255))
<1>1. Hi(0) = 0 /\ Lo(0) = 0
  <2>1. 0 \div 256 = 0 /\ 0 % 256 = 0
    OBVIOUS
  <2> QED BY <2>1 DEF Hi, Lo
<1>2. Len(<<>>) = 0 /\ (0 + 0 + 0 + 1 + 0 + 255) % 256 = 0
  OBVIOUS
<1> QED BY <1>1, <1>2, TotalEmpty DEF AddsUp, Record

LEMMA AddsUpKept ==
  ASSUME Inv, RecordsAddUp, NEW r \in GoodRecord, records' = Append(records, r),
         page' \in Nat, page <= page', page' <= 256 => AddsUp(r)
  PROVE  RecordsAddUp'
<1> SUFFICES ASSUME page' <= 256 PROVE \A i \in DOMAIN records' : AddsUp(records'[i])
  BY DEF RecordsAddUp, AddsUp, Hi, Lo, Total
<1>1. records \in Seq(GoodRecord) /\ page <= 256
  BY DEF Inv, Typed
<1>2. \A i \in DOMAIN records : AddsUp(records[i])
  BY <1>1 DEF RecordsAddUp
<1>3. /\ DOMAIN records' = 1..(Len(records) + 1) /\ DOMAIN records = 1..Len(records) /\ Len(records) \in Nat
      /\ records'[Len(records) + 1] = r /\ \A i \in 1..Len(records) : records'[i] = records[i]
  BY <1>1
<1>4. \A i \in 1..(Len(records) + 1) : i \in 1..Len(records) \/ i = Len(records) + 1
  BY <1>3
<1> QED BY <1>2, <1>3, <1>4

\* Every record of a file of at most 256 pages adds up to 0 with its
\* checksum, whatever its bytes: a loader accepts it.
THEOREM RecordsAccepted == Spec => []RecordsAddUp
<1>1. Init => RecordsAddUp
  BY DEF Init, RecordsAddUp
<1>2. ASSUME Inv, RecordsAddUp, [Next]_vars PROVE RecordsAddUp'
  <2>1. CASE StartPage
    <3>1. page \in Nat /\ page' = page + 1
      BY <1>2, <2>1 DEF StartPage, Inv, Typed
    <3>2. page' \in Nat /\ page <= page' /\ (page' <= 256 => page < 256)
      BY <3>1
    <3> QED BY <1>2, <2>1, <3>2, PageRecord, PageAddsUp, AddsUpKept
  <2>2. CASE DataRecord
    <3>1. page' = page /\ page \in Nat
      BY <1>2, <2>2 DEF DataRecord, Inv, Typed
    <3>2. PICK r : r = Record(address, 0, Data, Chksum(Len(Data), address, 0, Data))
      OBVIOUS
    <3>3. r \in GoodRecord /\ records' = Append(records, r)
      BY <1>2, <2>2, <3>2, DataStep
    <3>4. AddsUp(r)
      BY <1>2, <2>2, <3>2, DataAddsUp
    <3>5. page' \in Nat /\ page <= page'
      BY <3>1
    <3> QED BY <1>2, <3>3, <3>4, <3>5, AddsUpKept
  <2>3. CASE EndOfHex
    <3>1. records' = Append(records, Record(0, 1, <<>>, 255)) /\ page' = page /\ page \in Nat
      BY <1>2, <2>3 DEF EndOfHex, Inv, Typed
    <3>2. page' \in Nat /\ page <= page'
      BY <3>1
    <3> QED BY <1>2, <3>1, <3>2, EndRecord, EndAddsUp, AddsUpKept
  <2>4. CASE UNCHANGED <<records, page>>
    BY <1>2, <2>4 DEF RecordsAddUp
  <2> QED BY <1>2, <2>1, <2>2, <2>3, <2>4 DEF Next, MakeApp, MakeHex, MakePrgm, Finished, vars
<1> QED BY <1>1, <1>2, Invariant, PTL DEF Spec

----------------------------------------------------------------------------
(***************************************************************************)
(* Loading.                                                                *)
(***************************************************************************)
LoadedSoFar == LoadsAsWritten /\ LoadedFrom(records).page = page - 1

\* The k-th byte of b where it is written.
At(b, k) == <<(k - 1) \div PageSize, BaseAddress + ((k - 1) % PageSize), b[k]>>

LEMMA PageLoads ==
  ASSUME Inv, LoadedSoFar, StartPage
  PROVE  LoadedSoFar'
<1>1. PICK r \in GoodRecord : r = Record(0, 2, <<Hi(page), Lo(page)>>, (-(4 + page)) % 256)
  BY PageRecord
<1>2. records' = Append(records, r) /\ records \in Seq(GoodRecord)
  BY <1>1, PageRecord DEF Inv, Typed
<1>3. LoadedFrom(records) \in Memory /\ LoadedFrom(records') = Load(LoadedFrom(records), r)
  BY <1>2, LoadedAppend
<1>4. PICK s \in Memory : s = LoadedFrom(records)
  BY <1>3
<1>5. r.type = 2 /\ r.data[1] = Hi(page) /\ r.data[2] = Lo(page)
  BY <1>1 DEF Record
<1>6. 256 * r.data[1] + r.data[2] = page /\ page \in Nat
  <2>1. page \in Nat /\ page \in Int /\ page >= 0 /\ page < 65536
    BY PageStarts DEF Inv, Typed
  <2>2. Lo(page) \in Byte /\ Hi(page) \in Byte
    BY <2>1, LowHigh
  <2>3. Lo(page) \in Nat /\ Hi(page) \in Nat
    BY <2>2, Bytes
  <2>4. Lo(page) + 256 * Hi(page) = page
    BY <2>1, LowHigh
  <2> QED BY <1>5, <2>1, <2>3, <2>4
<1>7. Load(s, r) = [s EXCEPT !.page = page]
  BY <1>5, <1>6 DEF Load
<1>8. LoadedFrom(records').page = page /\ LoadedFrom(records').bytes = LoadedFrom(records).bytes
  BY <1>3, <1>4, <1>7 DEF Memory
<1>9. UNCHANGED <<buffer, bpnt>> /\ page' = page + 1
  BY DEF StartPage
<1>10. LoadsAsWritten'
  <2>1. LoadedFrom(records') = LoadedFrom(records)'
    BY DEF LoadedFrom, Load
  <2> QED BY <1>8, <1>9, <2>1 DEF LoadedSoFar, LoadsAsWritten, Loaded
<1>11. LoadedFrom(records') = LoadedFrom(records)'
  BY DEF LoadedFrom, Load
<1>12. page' - 1 = page
  BY <1>6, <1>9
<1>13. LoadedFrom(records)'.page = page' - 1
  BY <1>8, <1>11, <1>12 DEF LoadedSoFar
<1> QED BY <1>10, <1>13 DEF LoadedSoFar

\* A byte of the record that begins m records into the page has its address.
LEMMA ByteAddress ==
  ASSUME NEW q \in Nat, NEW x \in Nat, NEW k \in Nat, k >= 1, x + k <= PageSize
  PROVE  /\ ((q * PageSize + x + k) - 1) \div PageSize = q
         /\ ((q * PageSize + x + k) - 1) % PageSize = x + k - 1
<1>1. PICK d \in Nat \ {0} : d = PageSize
  BY Sizes
<1>2. PICK n \in Int, r \in Int : r = x + k - 1 /\ n = q * d + r
  OBVIOUS
<1>3. 0 <= r /\ r < d
  BY <1>1, <1>2
<1>4. n \div d = q /\ n % d = r
  BY <1>2, <1>3, Divides, SMTT(30)
<1>5. (q * d + x + k) - 1 = n
  BY <1>2
<1> QED BY <1>1, <1>2, <1>4, <1>5

LEMMA DataLoads ==
  ASSUME Inv, LoadedSoFar, DataRecord
  PROVE  LoadedSoFar'
<1>1. PICK r \in GoodRecord : r = Record(address, 0, Data, Chksum(Len(Data), address, 0, Data))
  BY DataStep
<1>2. records' = Append(records, r) /\ records \in Seq(GoodRecord)
  BY <1>1, DataStep DEF Inv, Typed
<1>3. LoadedFrom(records) \in Memory /\ LoadedFrom(records') = Load(LoadedFrom(records), r)
  BY <1>2, LoadedAppend
<1>4. PICK s \in Memory : s = LoadedFrom(records)
  BY <1>3
<1>5. PICK l \in Nat : l = Len(Data) /\ l >= 1 /\ l <= RecordBytes
  BY DataBytes, Sizes
<1>6. /\ phase = "records" /\ bpnt \in Nat /\ DOMAIN Data = 1..l
      /\ \A k \in 1..l : Data[k] = buffer[bpnt + k]
  BY <1>5, DataBytes
<1>7. /\ bpnt' = bpnt + l /\ UNCHANGED <<buffer, page>>
  BY <1>5, DataStep
<1>8. page \in Nat /\ page >= 1 /\ page - 1 \in Nat
  BY <1>6 DEF Inv, Typed, Place
<1>9. PICK x \in Nat : /\ address = BaseAddress + x /\ bpnt = (page - 1) * PageSize + x
                       /\ x + RecordBytes <= PageSize
  <2>1. PICK m \in 0..PageRecords - 1 :
          address = BaseAddress + m * RecordBytes /\ bpnt = (page - 1) * PageSize + m * RecordBytes
    BY <1>6 DEF Inv, Place
  <2>2. m \in Nat /\ m * RecordBytes \in Nat /\ m + 1 \in Int /\ m + 1 <= PageRecords /\ PageRecords \in Int
    BY Sizes
  <2>3. (m + 1) * RecordBytes <= PageRecords * RecordBytes /\ (m + 1) * RecordBytes = m * RecordBytes + RecordBytes
    BY <2>2, Sizes, Multiples
  <2> QED BY <2>1, <2>2, <2>3 DEF PageSize
<1>10. ASSUME NEW k \in 1..l
       PROVE  <<page - 1, address + k - 1, Data[k]>> = At(buffer, bpnt + k)
  <2>1. k \in Nat /\ k >= 1 /\ x + k <= PageSize
    BY <1>5, <1>9, Sizes
  <2>2. PICK y \in Nat : y = (page - 1) * PageSize
    BY <1>8, Sizes
  <2>3. ((page - 1) * PageSize + x + k) - 1 = (bpnt + k) - 1
    BY <1>9, <2>2
  <2>4. ((bpnt + k) - 1) \div PageSize = page - 1 /\ ((bpnt + k) - 1) % PageSize = x + k - 1
    <3>1. /\ (((page - 1) * PageSize + x + k) - 1) \div PageSize = page - 1
          /\ (((page - 1) * PageSize + x + k) - 1) % PageSize = x + k - 1
      BY <1>8, <2>1, ByteAddress
    <3> QED BY <2>3, <3>1
  <2>5. address + k - 1 = BaseAddress + (x + k - 1)
    BY <1>9, <2>1, Sizes
  <2> QED BY <1>6, <2>4, <2>5 DEF At
<1>11. r.type = 0 /\ r.data = Data /\ r.address = address
  BY <1>1 DEF Record
<1>12. PICK B : B = {<<s.page, r.address + k - 1, r.data[k]>> : k \in DOMAIN r.data}
  OBVIOUS
<1>13. B = {At(buffer, bpnt + k) : k \in 1..l}
  <2>1. B = {<<page - 1, address + k - 1, Data[k]>> : k \in 1..l}
    BY <1>4, <1>6, <1>11, <1>12 DEF LoadedSoFar
  <2> QED BY <1>10, <2>1
<1>14. Load(s, r) = [s EXCEPT !.bytes = @ \cup B]
  BY <1>11, <1>12 DEF Load
<1>15. LoadedFrom(records').page = page - 1 /\ LoadedFrom(records').bytes = LoadedFrom(records).bytes \cup B
  BY <1>3, <1>4, <1>14 DEF Memory, LoadedSoFar
<1>16. LoadedFrom(records).bytes = {At(buffer, k) : k \in 1..bpnt}
  BY DEF LoadedSoFar, LoadsAsWritten, Loaded, At
<1>17. {At(buffer, k) : k \in 1..bpnt} \cup {At(buffer, bpnt + k) : k \in 1..l} = {At(buffer, k) : k \in 1..(bpnt + l)}
  <2>1. ASSUME NEW k \in 1..bpnt PROVE k \in 1..(bpnt + l)
    BY <1>6
  <2>2. ASSUME NEW k \in 1..l PROVE bpnt + k \in 1..(bpnt + l)
    BY <1>6
  <2>3. ASSUME NEW k \in 1..(bpnt + l) PROVE k \in 1..bpnt \/ \E j \in 1..l : k = bpnt + j
    <3>1. CASE k > bpnt
      <4>1. k - bpnt \in 1..l /\ k = bpnt + (k - bpnt)
        BY <1>6, <3>1
      <4> QED BY <4>1
    <3>2. CASE ~(k > bpnt)
      BY <1>6, <3>2
    <3> QED BY <3>1, <3>2
  <2> QED BY <2>1, <2>2, <2>3
<1>18. LoadedFrom(records').bytes = {At(buffer, k) : k \in 1..(bpnt + l)}
  BY <1>13, <1>15, <1>16, <1>17
<1>19. LoadsAsWritten'
  <2>1. LoadedFrom(records') = LoadedFrom(records)'
    BY DEF LoadedFrom, Load
  <2>2. Loaded' = {<<(k - 1) \div PageSize, BaseAddress + ((k - 1) % PageSize), buffer[k]>> : k \in 1..(bpnt + l)}
    BY <1>18, <2>1 DEF Loaded, At
  <2> QED BY <1>7, <2>2 DEF LoadsAsWritten, PageSize
<1> QED BY <1>7, <1>15, <1>19 DEF LoadedSoFar, LoadedFrom, Load

LEMMA EndLoads ==
  ASSUME Inv, LoadedSoFar, EndOfHex
  PROVE  LoadedSoFar'
<1>1. PICK r \in GoodRecord : r = Record(0, 1, <<>>, 255)
  BY EndRecord
<1>2. records' = Append(records, r) /\ records \in Seq(GoodRecord) /\ UNCHANGED <<buffer, bpnt, page>>
  BY <1>1 DEF Inv, Typed, EndOfHex
<1>3. LoadedFrom(records') = Load(LoadedFrom(records), r)
  BY <1>2, LoadedAppend
<1>4. r.type = 1
  BY <1>1 DEF Record
<1>5. LoadedFrom(records') = LoadedFrom(records)
  BY <1>3, <1>4 DEF Load
<1>6. LoadedFrom(records') = LoadedFrom(records)'
  BY DEF LoadedFrom, Load
<1> QED BY <1>2, <1>5, <1>6 DEF LoadedSoFar, LoadsAsWritten, Loaded

\* At the start of the output nothing is loaded.
LEMMA NothingLoads ==
  ASSUME records = <<>>, page = 0, bpnt = 0
  PROVE  LoadedSoFar
<1>1. LoadedFrom(records).page = -1 /\ LoadedFrom(records).bytes = {}
  BY LoadedEmpty DEF Blank
<1>2. 1..bpnt = {}
  OBVIOUS
<1> QED BY <1>1, <1>2 DEF LoadedSoFar, LoadsAsWritten, Loaded

\* The records written so far load as the output so far, every byte on its
\* page and at its address, for output of every length.
THEOREM NothingMisplaced == Spec => []LoadsAsWritten
<1>1. Init => LoadedSoFar
  BY NothingLoads DEF Init
<1>2. ASSUME Inv, LoadedSoFar, [Next]_vars PROVE LoadedSoFar'
  <2>1. CASE StartPage
    BY <1>2, <2>1, PageLoads
  <2>2. CASE DataRecord
    BY <1>2, <2>2, DataLoads
  <2>3. CASE EndOfHex
    BY <1>2, <2>3, EndLoads
  <2>4. CASE MakeApp \/ MakeHex \/ MakePrgm
    <3>1. records' = <<>> /\ page' = 0 /\ bpnt' = 0
      BY <1>2, <2>4 DEF Inv, Place, MakeApp, MakeHex, MakePrgm
    <3>2. 1..bpnt' = {}
      BY <3>1
    <3>3. LoadedFrom(records').page = -1 /\ LoadedFrom(records').bytes = {}
      BY <3>1, LoadedEmpty DEF Blank
    <3>4. LoadedFrom(records') = LoadedFrom(records)'
      BY DEF LoadedFrom, Load
    <3> QED BY <3>1, <3>2, <3>3, <3>4 DEF LoadedSoFar, LoadsAsWritten, Loaded
  <2>5. CASE UNCHANGED vars
    <3>1. UNCHANGED <<records, buffer, bpnt, page>>
      BY <2>5 DEF vars
    <3>2. LoadedFrom(records') = LoadedFrom(records)'
      BY DEF LoadedFrom, Load
    <3> QED BY <1>2, <3>1, <3>2 DEF LoadedSoFar, LoadsAsWritten, Loaded
  <2> QED BY <1>2, <2>1, <2>2, <2>3, <2>4, <2>5 DEF Next, Finished
<1>3. LoadedSoFar => LoadsAsWritten
  BY DEF LoadedSoFar
<1> QED BY <1>1, <1>2, <1>3, Invariant, PTL DEF Spec

----------------------------------------------------------------------------
(***************************************************************************)
(* The fields of an app: k is the number of records with data.             *)
(***************************************************************************)
AllCharacters(rs) == Total([i \in DOMAIN rs |-> CharactersOf(rs[i])])

Counted ==
  \E k \in Nat :
    /\ Covers(k, RecordBytes, bpnt)
    /\ phase \in {"pages", "records"} /\ bpnt < Len(buffer) => bpnt = k * RecordBytes
    /\ AllCharacters(records) = 17 * page + 13 * k + 2 * bpnt + (IF Hex /\ phase = "done" THEN 11 ELSE 0)

\* What an app states is settled before its records are written.
AppStated ==
  job.type = "8XK" /\ phase \in {"pages", "records", "done"} =>
    /\ ~NoRoomForSig /\ Size > 0 /\ Len(buffer) = Size + SigLength
    /\ app = [pages |-> Lo(Pages), length |-> HexLength(Size + SigLength, Pages)]

LEMMA CharactersAdd ==
  ASSUME NEW rs \in Seq(GoodRecord), NEW r \in GoodRecord
  PROVE  /\ AllCharacters(rs) \in Nat
         /\ AllCharacters(Append(rs, r)) = AllCharacters(rs) + CharactersOf(r)
<1>1. \A g \in GoodRecord : CharactersOf(g) \in Nat
  <2> TAKE g \in GoodRecord
  <2>1. Len(g.data) \in Nat
    BY GoodFields
  <2>2. CharactersOf(g) = 11 + 2 * Len(g.data) + 0 \/ CharactersOf(g) = 11 + 2 * Len(g.data) + 2
    BY DEF CharactersOf
  <2>3. \A n \in Nat : 11 + 2 * n + 0 \in Nat /\ 11 + 2 * n + 2 \in Nat
    OBVIOUS
  <2> QED BY <2>1, <2>2, <2>3
<1>2. PICK n \in Nat : n = Len(rs)
  OBVIOUS
<1>3. PICK qs \in Seq(GoodRecord) : qs = Append(rs, r)
  <2>1. Append(rs, r) \in Seq(GoodRecord)
    OBVIOUS
  <2> QED BY <2>1
<1>4. /\ DOMAIN rs = 1..n /\ DOMAIN qs = 1..(n + 1) /\ qs[n + 1] = r
      /\ \A i \in 1..n : qs[i] = rs[i] /\ rs[i] \in GoodRecord
  BY <1>2, <1>3
<1>5. PICK c \in Seq(Nat) : c = [i \in 1..n |-> CharactersOf(rs[i])] /\ Len(c) = n
  <2>1. \A i \in 1..n : CharactersOf(rs[i]) \in Nat
    BY <1>1, <1>4
  <2>2. [i \in 1..n |-> CharactersOf(rs[i])] \in Seq(Nat)
    BY <2>1
  <2>3. Len([i \in 1..n |-> CharactersOf(rs[i])]) = n
    OBVIOUS
  <2> QED BY <2>2, <2>3
<1>6. PICK x \in Nat : x = CharactersOf(r)
  BY <1>1
<1>7. [i \in 1..(n + 1) |-> CharactersOf(qs[i])] = Append(c, x)
  <2>1. Append(c, x) \in Seq(Nat) /\ Len(Append(c, x)) = n + 1
    BY <1>5
  <2>2. Append(c, x) = [i \in 1..(n + 1) |-> Append(c, x)[i]]
    <3>1. PICK t \in Seq(Nat) : t = Append(c, x) /\ Len(t) = n + 1
      BY <2>1
    <3>2. DOMAIN t = 1..(n + 1) /\ t = [i \in DOMAIN t |-> t[i]]
      <4>1. DOMAIN t = 1..Len(t) /\ t = [i \in 1..Len(t) |-> t[i]]
        OBVIOUS
      <4> QED BY <3>1, <4>1
    <3> QED BY <3>1, <3>2
  <2>3. ASSUME NEW i \in 1..(n + 1) PROVE Append(c, x)[i] = CharactersOf(qs[i])
    <3>1. CASE i = n + 1
      BY <1>4, <1>5, <1>6, <3>1
    <3>2. CASE i # n + 1
      <4>1. i \in 1..n
        BY <3>2
      <4> QED BY <1>4, <1>5, <4>1
    <3> QED BY <3>1, <3>2
  <2> QED BY <2>2, <2>3
<1>8. Total(Append(c, x)) = Total(c) + x /\ Total(c) \in Nat
  BY TotalAppend, TotalNat
<1>9. AllCharacters(rs) = Total(c) /\ AllCharacters(qs) = Total(Append(c, x))
  BY <1>4, <1>5, <1>7 DEF AllCharacters
<1> QED BY <1>3, <1>6, <1>8, <1>9

LEMMA NoCharacters == AllCharacters(<<>>) = 0
<1>1. [i \in DOMAIN <<>> |-> CharactersOf(<<>>[i])] = <<>>
  OBVIOUS
<1> QED BY <1>1, TotalEmpty DEF AllCharacters

LEMMA CountedAtStart ==
  ASSUME page = 0, bpnt = 0, records = <<>>, ~(Hex /\ phase = "done")
  PROVE  Counted
<1>1. Covers(0, RecordBytes, 0)
  BY Sizes DEF Covers
<1>2. 0 = 0 * RecordBytes /\ 0 \in Nat
  BY Sizes
<1> QED BY <1>1, <1>2, NoCharacters DEF Counted

LEMMA PageCounted ==
  ASSUME Inv, Counted, StartPage
  PROVE  Counted'
<1>1. PICK k \in Nat :
        /\ Covers(k, RecordBytes, bpnt)
        /\ phase \in {"pages", "records"} /\ bpnt < Len(buffer) => bpnt = k * RecordBytes
        /\ AllCharacters(records) = 17 * page + 13 * k + 2 * bpnt + (IF Hex /\ phase = "done" THEN 11 ELSE 0)
  BY DEF Counted
<1>2. /\ phase = "pages" /\ phase' = "records" /\ page' = page + 1 /\ UNCHANGED <<buffer, bpnt>>
      /\ bpnt < Len(buffer) /\ page \in Nat /\ bpnt \in Nat
  BY DEF StartPage, Inv, Typed
<1>3. PICK r \in GoodRecord : r.type = 2 /\ Len(r.data) = 2 /\ records' = Append(records, r)
  <2>1. PICK r \in GoodRecord : r = Record(0, 2, <<Hi(page), Lo(page)>>, (-(4 + page)) % 256)
                                /\ records' = Append(records, r)
    BY PageRecord
  <2>2. r.type = 2 /\ r.data = <<Hi(page), Lo(page)>>
    BY <2>1 DEF Record
  <2> QED BY <2>1, <2>2
<1>4. CharactersOf(r) = 17
  BY <1>3 DEF CharactersOf
<1>5. AllCharacters(records') = AllCharacters(records) + 17
  BY <1>3, <1>4, CharactersAdd DEF Inv, Typed
<1>6. AllCharacters(records) = 17 * page + 13 * k + 2 * bpnt
  BY <1>1, <1>2
<1>7. AllCharacters(records') = 17 * (page + 1) + 13 * k + 2 * bpnt
  BY <1>2, <1>5, <1>6
<1>8. AllCharacters(records') = 17 * page' + 13 * k + 2 * bpnt' + 0 /\ Covers(k, RecordBytes, bpnt')
      /\ bpnt' = k * RecordBytes
  BY <1>1, <1>2, <1>7
<1> QED BY <1>2, <1>8 DEF Counted, AllCharacters, CharactersOf, Total, Covers

LEMMA DataCounted ==
  ASSUME Inv, Counted, DataRecord
  PROVE  Counted'
<1>1. PICK k \in Nat :
        /\ Covers(k, RecordBytes, bpnt)
        /\ phase \in {"pages", "records"} /\ bpnt < Len(buffer) => bpnt = k * RecordBytes
        /\ AllCharacters(records) = 17 * page + 13 * k + 2 * bpnt + (IF Hex /\ phase = "done" THEN 11 ELSE 0)
  BY DEF Counted
<1>2. PICK l \in Nat : l = Len(Data) /\ l >= 1 /\ l <= RecordBytes
  BY DataBytes, Sizes
<1>3. /\ phase = "records" /\ bpnt \in Nat /\ page \in Nat /\ bpnt < Len(buffer)
      /\ bpnt' = bpnt + l /\ UNCHANGED <<page, buffer>> /\ phase' \in {"records", "pages"}
      /\ l = RecordBytes \/ bpnt' = Len(buffer)
  BY <1>2, DataBytes, DataStep DEF Inv, Typed
<1>4. PICK r \in GoodRecord : r.type = 0 /\ r.data = Data /\ records' = Append(records, r)
  <2>1. PICK r \in GoodRecord : r = Record(address, 0, Data, Chksum(Len(Data), address, 0, Data))
                                /\ records' = Append(records, r)
    BY DataStep
  <2>2. r.type = 0 /\ r.data = Data
    BY <2>1 DEF Record
  <2> QED BY <2>1, <2>2
<1>5. CharactersOf(r) = 13 + 2 * l
  BY <1>2, <1>4 DEF CharactersOf
<1>6. AllCharacters(records') = AllCharacters(records) + (13 + 2 * l)
  BY <1>4, <1>5, CharactersAdd DEF Inv, Typed
<1>7. AllCharacters(records) = 17 * page + 13 * k + 2 * bpnt
  BY <1>1, <1>3
<1>8. k + 1 \in Nat /\ AllCharacters(records') = 17 * page' + 13 * (k + 1) + 2 * bpnt' + 0
  BY <1>3, <1>6, <1>7
<1>9. bpnt = k * RecordBytes /\ (k + 1) * RecordBytes = k * RecordBytes + RecordBytes
  BY <1>1, <1>3, Sizes, Multiples
<1>10. Covers(k + 1, RecordBytes, bpnt')
  <2>1. (k + 1) - 1 = k
    OBVIOUS
  <2>2. k * RecordBytes < bpnt' /\ bpnt' <= (k + 1) * RecordBytes
    BY <1>2, <1>3, <1>9, Sizes
  <2> QED BY <2>1, <2>2 DEF Covers
<1>11. bpnt' < Len(buffer') => bpnt' = (k + 1) * RecordBytes
  <2>1. Len(buffer) \in Nat
    BY DataBytes
  <2> QED BY <1>3, <1>9, <2>1
<1> QED BY <1>3, <1>8, <1>10, <1>11 DEF Counted, AllCharacters, CharactersOf, Total, Covers

LEMMA EndCounted ==
  ASSUME Inv, Counted, EndOfHex
  PROVE  Counted'
<1>1. PICK k \in Nat :
        /\ Covers(k, RecordBytes, bpnt)
        /\ AllCharacters(records) = 17 * page + 13 * k + 2 * bpnt + (IF Hex /\ phase = "done" THEN 11 ELSE 0)
  BY DEF Counted
<1>2. /\ phase = "pages" /\ phase' = "done" /\ UNCHANGED <<job, buffer, bpnt, page>>
      /\ records' = Append(records, Record(0, 1, <<>>, 255)) /\ page \in Nat /\ bpnt \in Nat /\ Hex
  BY DEF EndOfHex, Inv, Typed, Place
<1>3. CharactersOf(Record(0, 1, <<>>, 255)) = 11
  BY DEF CharactersOf, Record
<1>4. AllCharacters(records') = AllCharacters(records) + 11
  BY <1>2, <1>3, EndRecord, CharactersAdd DEF Inv, Typed
<1>5. AllCharacters(records) = 17 * page + 13 * k + 2 * bpnt
  BY <1>1, <1>2
<1>6. AllCharacters(records') = 17 * page' + 13 * k + 2 * bpnt' + 11 /\ Covers(k, RecordBytes, bpnt')
  BY <1>1, <1>2, <1>4, <1>5
<1>7. Hex' /\ phase' = "done"
  BY <1>2 DEF Hex
<1>8. AllCharacters(records') = 17 * page' + 13 * k + 2 * bpnt' + (IF Hex' /\ phase' = "done" THEN 11 ELSE 0)
  BY <1>6, <1>7
<1>9. phase' \notin {"pages", "records"}
  BY <1>7
<1>10. AllCharacters(records)' = AllCharacters(records')
  BY DEF AllCharacters, CharactersOf, Total
<1>11. Covers(k, RecordBytes, bpnt)'
  BY <1>6 DEF Covers
<1>12. (AllCharacters(records) = 17 * page + 13 * k + 2 * bpnt + (IF Hex /\ phase = "done" THEN 11 ELSE 0))'
  BY <1>8, <1>10
<1>13. (phase \in {"pages", "records"} /\ bpnt < Len(buffer) => bpnt = k * RecordBytes)'
  BY <1>9
<1> HIDE DEF Hex, AllCharacters, Covers
<1> QED BY <1>11, <1>12, <1>13 DEF Counted

LEMMA CountedInvariant == Spec => []Counted
<1>1. Init => Counted
  BY CountedAtStart DEF Init
<1>2. ASSUME Inv, Counted, [Next]_vars PROVE Counted'
  <2>1. CASE StartPage
    BY <1>2, <2>1, PageCounted
  <2>2. CASE DataRecord
    BY <1>2, <2>2, DataCounted
  <2>3. CASE EndOfHex
    BY <1>2, <2>3, EndCounted
  <2>4. CASE MakeApp \/ MakeHex \/ MakePrgm
    <3>1. records' = <<>> /\ page' = 0 /\ bpnt' = 0 /\ ~(Hex' /\ phase' = "done")
      BY <1>2, <2>4 DEF Inv, Place, MakeApp, MakeHex, MakePrgm, Hex, ProgramTypes
    <3>2. Covers(0, RecordBytes, 0) /\ 0 = 0 * RecordBytes /\ 0 \in Nat
      BY Sizes DEF Covers
    <3>3. AllCharacters(records') = 0
      BY <3>1, NoCharacters
    <3>4. AllCharacters(records') = 17 * 0 + 13 * 0 + 2 * 0 + 0
      BY <3>3
    <3> QED BY <3>1, <3>2, <3>4 DEF Counted, AllCharacters, CharactersOf, Total, Covers
  <2>5. CASE UNCHANGED vars
    <3>1. UNCHANGED <<job, phase, buffer, page, bpnt, records>>
      BY <2>5 DEF vars
    <3>2. PICK n : n = AllCharacters(records)
      OBVIOUS
    <3>3. AllCharacters(records)' = n /\ (Hex' <=> Hex)
      BY <3>1, <3>2 DEF AllCharacters, CharactersOf, Total, Hex
    <3>4. \A k \in Nat : Covers(k, RecordBytes, bpnt)' = Covers(k, RecordBytes, bpnt)
      BY <3>1 DEF Covers
    <3> HIDE DEF AllCharacters, Hex, Covers
    <3> QED BY <1>2, <3>1, <3>2, <3>3, <3>4 DEF Counted
  <2> QED BY <1>2, <2>1, <2>2, <2>3, <2>4, <2>5 DEF Next, Finished
<1> QED BY <1>1, <1>2, Invariant, PTL DEF Spec

LEMMA SizeTyped ==
  ASSUME Inv
  PROVE  Size \in Nat /\ job.contents \in Seq(Byte) /\ Len(job.contents) = Size
<1>1. job.contents \in Seq(Byte)
  BY JobsAssumption DEF Inv
<1> QED BY <1>1 DEF Size

LEMMA AppStatedStep ==
  ASSUME Inv, AppStated, [Next]_vars
  PROVE  AppStated'
<1>1. CASE MakeApp
  <2>1. phase = "start" /\ job.type = "8XK" /\ UNCHANGED job
    BY <1>1 DEF MakeApp
  <2>2. CASE phase' = "refused"
    BY <2>2 DEF AppStated
  <2>3. CASE phase' # "refused"
    <3>1. /\ ~NoRoomForSig /\ job.fields = {"length", "type", "pages", "name"}
          /\ buffer' = job.contents \o [i \in 1..SigLength |-> 255]
          /\ app' = [pages |-> Lo(Pages), length |-> HexLength(Size + SigLength, Pages)]
      BY <1>1, <2>3 DEF MakeApp
    <3>2. Size > 0
      <4>1. job.fields # {}
        BY <3>1
      <4>2. job.contents # <<>>
        BY <2>1, <4>1, JobsAssumption DEF Inv
      <4> QED BY <4>2, SizeTyped
    <3>3. Len(buffer') = Size + SigLength
      <4>1. PICK c \in Seq(Byte) : c = job.contents /\ Len(c) = Size
        BY SizeTyped
      <4>2. 255 \in Byte /\ SigLength \in Nat
        BY Bytes, Sizes
      <4>3. PICK t \in Seq(Byte) : t = [i \in 1..SigLength |-> 255] /\ Len(t) = SigLength
        <5>1. [i \in 1..SigLength |-> 255] \in Seq(Byte)
          BY <4>2
        <5>2. Len([i \in 1..SigLength |-> 255]) = SigLength
          BY <4>2
        <5> QED BY <5>1, <5>2
      <4>4. Len(c \o t) = Len(c) + Len(t)
        OBVIOUS
      <4> QED BY <3>1, <4>1, <4>3, <4>4
    <3> QED BY <2>1, <3>1, <3>2, <3>3
          DEF AppStated, NoRoomForSig, Size, HexLength, Pages, Lo, PageSize
  <2> QED BY <2>2, <2>3
<1>2. CASE MakeHex \/ MakePrgm
  BY <1>2 DEF AppStated, MakeHex, MakePrgm, ProgramTypes
<1>3. CASE StartPage \/ DataRecord \/ EndOfHex
  <2>1. UNCHANGED <<job, buffer, app>> /\ phase \in {"pages", "records"}
    BY <1>3 DEF StartPage, DataRecord, EndOfHex
  <2> QED BY <2>1 DEF AppStated, NoRoomForSig, Size, HexLength, Pages, Lo, PageSize
<1>4. CASE UNCHANGED vars
  BY <1>4 DEF vars, AppStated, NoRoomForSig, Size, HexLength, Pages, Lo, PageSize
<1> QED BY <1>1, <1>2, <1>3, <1>4 DEF Next, Finished

\* The length stated is that of k records with data on p pages.
LEMMA LengthStated ==
  ASSUME NEW n \in Nat, NEW p \in Nat, NEW k \in Nat, Covers(k, RecordBytes, n)
  PROVE  HexLength(n, p) = 17 * p + 13 * k + 2 * n + 11
<1>1. PICK d \in Nat \ {0} : d = RecordBytes
  BY Sizes
<1>2. PICK q \in Nat, r \in Nat : q = n \div d /\ r = n % d /\ r < d /\ n = q * d + r
  BY Division
<1>3. (q + 1) * d = q * d + d /\ (q - 1) * d = q * d - d /\ q * d \in Nat
  BY Multiples
<1>4. (13 + 2 * d) * q = 13 * q + 2 * (q * d)
  OBVIOUS
<1>5. CASE r = 0
  <2>1. Covers(q, d, n)
    BY <1>2, <1>3, <1>5 DEF Covers
  <2>2. k = q
    BY <1>1, <2>1, CoversOnce
  <2>3. HexLength(n, p) = (13 + 2 * d) * q + 17 * p + 11 + 0
    BY <1>1, <1>2, <1>5 DEF HexLength
  <2>4. n = q * d
    BY <1>2, <1>3, <1>5
  <2>5. PICK y \in Nat : y = q * d
    BY <1>3
  <2> QED BY <1>4, <2>2, <2>3, <2>4, <2>5
<1>6. CASE r # 0
  <2>1. Covers(q + 1, d, n)
    <3>1. (q + 1) - 1 = q
      OBVIOUS
    <3> QED BY <1>2, <1>3, <1>6, <3>1 DEF Covers
  <2>2. k = q + 1
    <3>1. q + 1 \in Int
      OBVIOUS
    <3> QED BY <1>1, <2>1, <3>1, CoversOnce
  <2>3. HexLength(n, p) = (13 + 2 * d) * q + 17 * p + 11 + (2 * r + 13)
    BY <1>1, <1>2, <1>6 DEF HexLength
  <2>4. PICK y \in Nat : y = q * d
    BY <1>3
  <2> QED BY <1>2, <1>4, <2>2, <2>3, <2>4
<1> QED BY <1>5, <1>6

\* The pages stated are those that program and signature take.
LEMMA PagesStated ==
  ASSUME Inv, ~NoRoomForSig, Size > 0, Size \notin PageSize - SigLength + 1..PageSize
  PROVE  Pages \in Nat /\ Covers(Pages, PageSize, Size + SigLength)
<1>1. PICK d \in Nat \ {0}, g \in Nat \ {0} : d = PageSize /\ g = SigLength /\ g < d
  BY Sizes
<1>2. PICK s \in Nat : s = Size /\ s > 0
  BY SizeTyped
<1>3. PICK q \in Nat, r \in Nat : q = s \div d /\ r = s % d /\ r < d /\ s = q * d + r
  BY Division
<1>4. (q + 1) * d = q * d + d /\ (q - 1) * d = q * d - d /\ q * d \in Nat
  BY Multiples
<1>5. PICK y \in Nat : y = q * d
  BY <1>4
<1>6. q >= 1 => y >= d
  <2>1. q >= 1 => 1 * d <= q * d
    BY Multiples
  <2> QED BY <1>5, <2>1
<1>7. /\ s < d - g + 1 \/ s > d
      /\ (s + g) % d = 0 \/ (s + g) % d >= g + 1 \/ s <= d
  <2>1. s \notin d - g + 1..d
    BY <1>1, <1>2
  <2>2. (s + g) % d = 0 \/ ~((s + g) % d < g + 1) \/ ~(s > d)
    BY <1>1, <1>2 DEF NoRoomForSig
  <2>3. (s + g) % d \in Nat
    OBVIOUS
  <2> QED BY <2>1, <2>2, <2>3
<1>8. CASE r = 0
  <2>1. (s + g) % d = g
    <3>1. PICK n \in Int : n = s + g
      OBVIOUS
    <3>2. n = q * d + g /\ 0 <= g /\ g < d
      BY <1>1, <1>3, <1>5, <1>8, <3>1
    <3>3. q \in Int /\ g \in Int
      OBVIOUS
    <3>4. n % d = g
      BY ONLY <3>2, <3>3, Divides, d \in Nat \ {0}, n \in Int
    <3> QED BY ONLY <3>1, <3>4
  <2>2. q >= 1
    BY <1>2, <1>3, <1>8
  <2> QED BY <1>1, <1>3, <1>5, <1>6, <1>7, <1>8, <2>1, <2>2
<1>9. CASE r # 0 /\ r + g <= d
  <2>1. Pages = q + 1
    BY <1>1, <1>2, <1>3, <1>9 DEF Pages
  <2>2. y < s + g /\ s + g <= y + d
    BY <1>3, <1>5, <1>9
  <2>3. (q + 1) - 1 = q
    OBVIOUS
  <2> QED BY <1>1, <1>2, <1>4, <1>5, <2>1, <2>2, <2>3 DEF Covers
<1>10. CASE r # 0 /\ r + g > d
  <2>1. (s + g) % d = (r + g) - d
    <3>1. s + g = (q + 1) * d + ((r + g) - d) /\ 0 <= (r + g) - d /\ (r + g) - d < d
      BY <1>1, <1>3, <1>4, <1>5, <1>10
    <3>2. PICK a \in Int, b \in Int, n \in Int : a = q + 1 /\ b = (r + g) - d /\ n = s + g
      OBVIOUS
    <3>3. n = a * d + b /\ 0 <= b /\ b < d
      BY <3>1, <3>2
    <3>4. n % d = b
      BY <3>3, Divides
    <3> QED BY <3>2, <3>4
  <2>2. (r + g) - d > 0 /\ (r + g) - d < g
    BY <1>3, <1>10
  <2>3. s <= d
    BY <1>7, <2>1, <2>2
  <2>4. q = 0
    BY <1>3, <1>5, <1>6, <1>10, <2>3
  <2>5. s = r
    BY <1>3, <2>4
  <2> QED BY <1>3, <1>7, <1>10, <2>5
<1> QED BY <1>3, <1>8, <1>9, <1>10

\* The pages and the length an app states are those of the file, but for the
\* sizes of AppFieldsAgree's exception, for pages and records of any size.
THEOREM AppsStateTheirLength == Spec => []AppFieldsAgree
<1>1. Init => AppStated
  BY DEF Init, AppStated
<1>2. ASSUME Inv, Counted, AppStated PROVE AppFieldsAgree
  <2> SUFFICES ASSUME phase = "done", job.type = "8XK", page < 256,
                      Size \notin PageSize - SigLength + 1..PageSize
               PROVE  app.pages = page /\ app.length = Characters
    BY DEF AppFieldsAgree
  <2>1. /\ ~NoRoomForSig /\ Size > 0 /\ Len(buffer) = Size + SigLength
        /\ app.pages = Lo(Pages) /\ app.length = HexLength(Size + SigLength, Pages)
    BY <1>2 DEF AppStated
  <2>2. /\ bpnt = Size + SigLength /\ Covers(page, PageSize, bpnt) /\ page \in Nat /\ bpnt \in Nat
    BY <1>2, <2>1 DEF Inv, Place, Typed
  <2>3. Pages \in Nat /\ Covers(Pages, PageSize, Size + SigLength)
    BY <1>2, <2>1, PagesStated
  <2>4. Pages = page
    <3>1. page \in Int /\ Pages \in Int /\ bpnt \in Int
      BY <2>2, <2>3
    <3> QED BY <2>2, <2>3, <3>1, Sizes, CoversOnce
  <2>5. Lo(page) = page
    <3>1. page % 256 = page
      BY <2>2
    <3> QED BY <3>1 DEF Lo
  <2>6. PICK k \in Nat : /\ Covers(k, RecordBytes, bpnt)
                         /\ AllCharacters(records) = 17 * page + 13 * k + 2 * bpnt + 11
    BY <1>2 DEF Counted, Hex
  <2>7. HexLength(bpnt, page) = 17 * page + 13 * k + 2 * bpnt + 11
    BY <2>2, <2>6, LengthStated
  <2>8. Characters = AllCharacters(records)
    BY DEF Characters, AllCharacters
  <2> QED BY <2>1, <2>2, <2>4, <2>5, <2>6, <2>7, <2>8
<1> QED BY <1>1, <1>2, AppStatedStep, Invariant, CountedInvariant, PTL DEF Spec

----------------------------------------------------------------------------
(***************************************************************************)
(* The section of a program.                                               *)
(***************************************************************************)
LEMMA Catenation ==
  ASSUME NEW s \in Seq(Byte), NEW t \in Seq(Byte)
  PROVE  /\ s \o t \in Seq(Byte) /\ Len(s \o t) = Len(s) + Len(t)
         /\ \A i \in 1..Len(s) : (s \o t)[i] = s[i]
         /\ \A i \in 1..Len(t) : (s \o t)[Len(s) + i] = t[i]
OBVIOUS

LEMMA WordBytes ==
  ASSUME NEW n \in Int
  PROVE  /\ Word(n) \in Seq(Byte) /\ Len(Word(n)) = 2
         /\ n >= 0 => Word(n)[1] + 256 * Word(n)[2] = n % 65536
<1>1. PICK l \in Byte, h \in Byte : l = Lo(n) /\ h = Hi(n)
  BY LowHigh
<1>2. Word(n) = <<l, h>>
  BY <1>1 DEF Word
<1>3. <<l, h>> \in Seq(Byte) /\ Len(<<l, h>>) = 2 /\ <<l, h>>[1] = l /\ <<l, h>>[2] = h
  OBVIOUS
<1>4. n >= 0 => (n % 256) + 256 * ((n \div 256) % 256) = n % 65536
  OBVIOUS
<1>5. n >= 0 => l + 256 * h = n % 65536
  BY <1>1, <1>4 DEF Lo, Hi
<1> QED BY <1>2, <1>3, <1>5

LEMMA ZeroBytes ==
  ASSUME NEW n \in Nat
  PROVE  Zeros(n) \in Seq(Byte) /\ Len(Zeros(n)) = n
<1>1. 0 \in Byte
  BY Bytes
<1>2. [i \in 1..n |-> 0] \in Seq(Byte)
  BY <1>1
<1>3. Len([i \in 1..n |-> 0]) = n
  OBVIOUS
<1> QED BY <1>2, <1>3 DEF Zeros

LEMMA KindIs ==
  ASSUME Inv
  PROVE  /\ Kind \in Seq(Byte)
         /\ Len(Kind) = IF job.type \in {"85S", "86S", "85P", "86P"} THEN 2 ELSE 1
<1>1. PICK l \in Byte : l = Lo(job.name)
  <2>1. job.name \in Int
    BY JobsAssumption DEF Inv
  <2> QED BY <2>1, LowHigh
<1>2. 12 \in Byte /\ 18 \in Byte /\ 21 \in Byte /\ 6 \in Byte
  BY Bytes
<1>3. \A x, y \in Byte : /\ <<x, y>> \in Seq(Byte) /\ Len(<<x, y>>) = 2
                         /\ <<x>> \in Seq(Byte) /\ Len(<<x>>) = 1
  OBVIOUS
<1>4. CASE job.type \in {"85S", "86S"}
  <2>1. Kind = <<12, l>>
    BY <1>1, <1>4 DEF Kind
  <2> QED BY <1>2, <1>3, <1>4, <2>1
<1>5. CASE job.type \in {"85P", "86P"}
  <2>1. Kind = <<18, l>>
    BY <1>1, <1>5 DEF Kind
  <2> QED BY <1>2, <1>3, <1>5, <2>1
<1>6. CASE job.type = "8XV"
  <2>1. Kind = <<21>>
    BY <1>6 DEF Kind
  <2> QED BY <1>2, <1>3, <1>6, <2>1
<1>7. CASE job.type \notin {"85S", "86S", "85P", "86P", "8XV"}
  <2>1. Kind = <<6>>
    BY <1>7 DEF Kind
  <2> QED BY <1>2, <1>3, <1>7, <2>1
<1> QED BY <1>4, <1>5, <1>6, <1>7

LEMMA NameIs ==
  ASSUME Inv
  PROVE  /\ NameBytes \in Seq(Byte)
         /\ Len(NameBytes) = IF job.type \notin {"85P", "85S"} THEN 8
                             ELSE IF job.name < 8 THEN job.name ELSE 8
<1>1. job.name \in Nat
  BY JobsAssumption DEF Inv
<1>2. PICK n \in Nat : n = (IF job.name < 8 THEN job.name ELSE 8) /\ n <= 8
  <2>1. CASE job.name < 8
    BY <1>1, <2>1
  <2>2. CASE ~(job.name < 8)
    BY <2>2
  <2> QED BY <2>1, <2>2
<1>3. PICK s \in Seq(Byte) : s = [i \in 1..n |-> 65] /\ Len(s) = n
  <2>1. 65 \in Byte
    BY Bytes
  <2>2. [i \in 1..n |-> 65] \in Seq(Byte)
    BY <2>1
  <2>3. Len([i \in 1..n |-> 65]) = n
    OBVIOUS
  <2> QED BY <2>2, <2>3
<1>4. CASE job.type \in {"85P", "85S"}
  <2>1. NameBytes = s \o <<>>
    BY <1>2, <1>3, <1>4 DEF NameBytes
  <2>2. <<>> \in Seq(Byte) /\ Len(<<>>) = 0
    OBVIOUS
  <2>3. NameBytes \in Seq(Byte) /\ Len(NameBytes) = n + 0
    BY <1>3, <2>1, <2>2, Catenation
  <2> QED BY <1>2, <1>4, <2>3
<1>5. CASE job.type \notin {"85P", "85S"}
  <2>1. PICK t \in Seq(Byte) : t = Zeros(8 - n) /\ Len(t) = 8 - n
    <3>1. 8 - n \in Nat
      BY <1>2
    <3> QED BY <3>1, ZeroBytes
  <2>2. NameBytes = s \o t
    BY <1>2, <1>3, <1>5, <2>1 DEF NameBytes
  <2>3. NameBytes \in Seq(Byte) /\ Len(NameBytes) = n + (8 - n)
    BY <1>3, <2>1, <2>2, Catenation
  <2> QED BY <1>2, <1>5, <2>3
<1> QED BY <1>4, <1>5

LEMMA FlagsAre ==
  Flags \in Seq(Byte) /\ Len(Flags) = IF job.type \in {"8XP", "8XV"} THEN 2 ELSE 0
<1>1. Zeros(2) \in Seq(Byte) /\ Len(Zeros(2)) = 2
  <2>1. 2 \in Nat
    OBVIOUS
  <2> QED BY <2>1, ZeroBytes
<1>2. <<>> \in Seq(Byte) /\ Len(<<>>) = 0
  OBVIOUS
<1>3. CASE job.type \in {"8XP", "8XV"}
  <2>1. Flags = Zeros(2)
    BY <1>3 DEF Flags
  <2> QED BY <1>1, <1>3, <2>1
<1>4. CASE job.type \notin {"8XP", "8XV"}
  <2>1. Flags = <<>>
    BY <1>4 DEF Flags
  <2> QED BY <1>2, <1>4, <2>1
<1> QED BY <1>3, <1>4

LEMMA HexDigits ==
  ASSUME NEW b \in Byte
  PROVE  HexDigit(b \div 16) \in Byte /\ HexDigit(b % 16) \in Byte
<1>1. b \in Nat /\ b <= 255
  BY Bytes
<1>2. b \div 16 \in Nat /\ b \div 16 <= 15 /\ b % 16 \in Nat /\ b % 16 <= 15
  BY <1>1
<1>3. ASSUME NEW d \in Nat, d <= 15 PROVE HexDigit(d) \in Byte
  <2>1. CASE d < 10
    <3>1. HexDigit(d) = 48 + d
      BY <2>1 DEF HexDigit
    <3>2. 48 + d \in Nat /\ 48 + d <= 255
      BY <2>1
    <3> QED BY <3>1, <3>2, Bytes
  <2>2. CASE ~(d < 10)
    <3>1. HexDigit(d) = 55 + d
      BY <2>2 DEF HexDigit
    <3>2. 55 + d \in Nat /\ 55 + d <= 255
      BY <1>3
    <3> QED BY <3>1, <3>2, Bytes
  <2> QED BY <2>1, <2>2
<1> QED BY <1>2, <1>3

LEMMA CodeIs ==
  ASSUME Inv
  PROVE  /\ Code \in Seq(Byte) /\ Size \in Nat
         /\ Len(Code) = CASE job.type = "86P" -> Size + 2 [] job.type = "82P" -> Size + 3
                          [] job.type = "83P" -> 2 * Size + 9 [] OTHER -> Size
<1>1. PICK c \in Seq(Byte) : c = job.contents /\ Len(c) = Size /\ Size \in Nat
  BY SizeTyped
<1>2. CASE job.type = "86P"
  <2>1. <<142, 40>> \in Seq(Byte) /\ Len(<<142, 40>>) = 2
    <3>1. 142 \in Byte /\ 40 \in Byte
      BY Bytes
    <3> QED BY <3>1
  <2>2. Code = <<142, 40>> \o c
    BY <1>1, <1>2 DEF Code
  <2>3. Code \in Seq(Byte) /\ Len(Code) = 2 + Size
    BY <1>1, <2>1, <2>2, Catenation
  <2> QED BY <1>1, <1>2, <2>3
<1>3. CASE job.type = "82P"
  <2>1. <<213, 0, 17>> \in Seq(Byte) /\ Len(<<213, 0, 17>>) = 3
    <3>1. 213 \in Byte /\ 0 \in Byte /\ 17 \in Byte
      BY Bytes
    <3> QED BY <3>1
  <2>2. Code = <<213, 0, 17>> \o c
    BY <1>1, <1>3 DEF Code
  <2>3. Code \in Seq(Byte) /\ Len(Code) = 3 + Size
    BY <1>1, <2>1, <2>2, Catenation
  <2> QED BY <1>1, <1>3, <2>3
<1>4. CASE job.type = "83P"
  <2>1. PICK t \in Seq(Byte) : t = <<63, 212, 63, 48, 48, 48, 48, 63, 212>> /\ Len(t) = 9
    <3>1. 63 \in Byte /\ 212 \in Byte /\ 48 \in Byte
      BY Bytes
    <3>2. ASSUME NEW x \in Byte, NEW y \in Byte, NEW z \in Byte
          PROVE  <<x, y, x, z, z, z, z, x, y>> \in Seq(Byte) /\ Len(<<x, y, x, z, z, z, z, x, y>>) = 9
      OBVIOUS
    <3>3. <<63, 212, 63, 48, 48, 48, 48, 63, 212>> \in Seq(Byte)
          /\ Len(<<63, 212, 63, 48, 48, 48, 48, 63, 212>>) = 9
      BY <3>1, <3>2
    <3> QED BY <3>3
  <2>2. PICK n \in Nat : n = 2 * Size
    BY <1>1
  <2>3. PICK d : d = [i \in 1..n |-> LET b == c[(i + 1) \div 2] IN HexDigit(IF i % 2 = 1 THEN b \div 16 ELSE b % 16)]
    OBVIOUS
  <2>4. \A i \in 1..n : d[i] \in Byte
    <3> TAKE i \in 1..n
    <3>1. (i + 1) \div 2 \in 1..Size
      BY <1>1, <2>2
    <3>2. PICK b \in Byte : b = c[(i + 1) \div 2]
      BY <1>1, <3>1
    <3>3. d[i] = HexDigit(IF i % 2 = 1 THEN b \div 16 ELSE b % 16)
      BY <2>3, <3>2
    <3>4. d[i] = HexDigit(b \div 16) \/ d[i] = HexDigit(b % 16)
      BY <3>3
    <3> QED BY <3>4, HexDigits
  <2>5. d \in Seq(Byte) /\ Len(d) = n
    <3>1. DOMAIN d = 1..n /\ d = [i \in 1..n |-> d[i]]
      BY <2>3
    <3>2. [i \in 1..n |-> d[i]] \in Seq(Byte)
      BY <2>4
    <3>3. d \in Seq(Byte)
      BY <3>1, <3>2
    <3>4. DOMAIN d = 1..Len(d) /\ Len(d) \in Nat
      BY <3>3
    <3> QED BY <3>1, <3>3, <3>4
  <2>6. Code = d \o t
    BY <1>1, <1>4, <2>1, <2>2, <2>3, ZenonT(30) DEF Code
  <2>7. Code \in Seq(Byte) /\ Len(Code) = n + 9
    <3>1. PICK e \in Seq(Byte) : e = d /\ Len(e) = n
      BY <2>5
    <3>2. e \o t \in Seq(Byte) /\ Len(e \o t) = Len(e) + Len(t)
      BY Catenation
    <3> QED BY <2>1, <2>6, <3>1, <3>2
  <2> QED BY <1>1, <1>4, <2>2, <2>7
<1>5. CASE job.type \notin {"86P", "82P", "83P"}
  <2>1. Code = c
    BY <1>1, <1>5 DEF Code
  <2> QED BY <1>1, <1>5, <2>1
<1> QED BY <1>2, <1>3, <1>4, <1>5

\* The lengths stated, in terms of the parts they are the lengths of.
LEMMA LengthsAre ==
  ASSUME Inv, job.type \in ProgramTypes \ {"85S", "86S"}, job.type = "85P" => job.name <= 8
  PROVE  /\ VarSize = Len(Code) + 2
         /\ SectionLength = VarSize + 6 + Len(Kind) + Len(NameBytes) + Len(Flags)
<1>1. Size \in Nat /\ job.name \in Nat
  BY CodeIs, JobsAssumption DEF Inv
<1>2. job.type \in {"73P", "82P", "83P", "8XP", "8XV", "85P", "86P"}
  BY DEF ProgramTypes
<1>3. CASE job.type = "73P"
  <2>1. Len(Code) = Size /\ Len(Kind) = 1 /\ Len(NameBytes) = 8 /\ Len(Flags) = 0
    BY <1>3, CodeIs, KindIs, NameIs, FlagsAre
  <2>2. VarSize = Size + 0 + 2
    BY <1>3 DEF VarSize
  <2>3. SectionLength = VarSize + 15 + 0
    BY <1>3 DEF SectionLength
  <2> QED BY <1>1, <2>1, <2>2, <2>3
<1>4. CASE job.type = "82P"
  <2>1. Len(Code) = Size + 3 /\ Len(Kind) = 1 /\ Len(NameBytes) = 8 /\ Len(Flags) = 0
    BY <1>4, CodeIs, KindIs, NameIs, FlagsAre
  <2>2. VarSize = Size + 3 + 2
    BY <1>4 DEF VarSize
  <2>3. SectionLength = VarSize + 15 + 0
    BY <1>4 DEF SectionLength
  <2> QED BY <1>1, <2>1, <2>2, <2>3
<1>5. CASE job.type = "83P"
  <2>1. Len(Code) = 2 * Size + 9 /\ Len(Kind) = 1 /\ Len(NameBytes) = 8 /\ Len(Flags) = 0
    BY <1>5, CodeIs, KindIs, NameIs, FlagsAre
  <2>2. VarSize = (2 * Size + 9) + 0 + 2
    BY <1>5 DEF VarSize
  <2>3. SectionLength = VarSize + 15 + 0
    BY <1>5 DEF SectionLength
  <2> QED BY <1>1, <2>1, <2>2, <2>3
<1>6. CASE job.type \in {"8XP", "8XV"}
  <2>1. Len(Code) = Size /\ Len(Kind) = 1 /\ Len(NameBytes) = 8 /\ Len(Flags) = 2
    BY <1>6, CodeIs, KindIs, NameIs, FlagsAre
  <2>2. VarSize = Size + 0 + 2
    BY <1>6 DEF VarSize
  <2>3. SectionLength = VarSize + 15 + 2
    BY <1>6 DEF SectionLength
  <2> QED BY <1>1, <2>1, <2>2, <2>3
<1>7. CASE job.type = "85P"
  <2>1. Len(Code) = Size /\ Len(Kind) = 2 /\ Len(Flags) = 0
    BY <1>7, CodeIs, KindIs, FlagsAre
  <2>2. VarSize = Size + 0 + 2
    BY <1>7 DEF VarSize
  <2>3. SectionLength = VarSize + 8 + job.name
    BY <1>7 DEF SectionLength
  <2>4. Len(NameBytes) = job.name
    <3>1. Len(NameBytes) = IF job.name < 8 THEN job.name ELSE 8
      BY <1>7, NameIs
    <3>2. job.name < 8 \/ job.name = 8
      BY <1>1, <1>7
    <3> QED BY <3>1, <3>2
  <2> QED BY <1>1, <2>1, <2>2, <2>3, <2>4
<1>8. CASE job.type = "86P"
  <2>1. Len(Code) = Size + 2 /\ Len(Kind) = 2 /\ Len(NameBytes) = 8 /\ Len(Flags) = 0
    BY <1>8, CodeIs, KindIs, NameIs, FlagsAre
  <2>2. VarSize = Size + 2 + 2
    BY <1>8 DEF VarSize
  <2>3. SectionLength = VarSize + 15 + 1
    BY <1>8 DEF SectionLength
  <2> QED BY <1>1, <2>1, <2>2, <2>3
<1> QED BY <1>2, <1>3, <1>4, <1>5, <1>6, <1>7, <1>8

LEMMA VarSizeTyped ==
  ASSUME Inv
  PROVE  VarSize \in Int /\ SectionLength \in Int
<1>1. Size \in Nat /\ job.name \in Nat
  BY CodeIs, JobsAssumption DEF Inv
<1>2. PICK c \in Int : c = IF job.type = "83P" THEN 2 * Size + 9 ELSE Size
  BY <1>1
<1>3. PICK t \in Int : t = CASE job.type = "86P" -> 2 [] job.type = "82P" -> 3 [] OTHER -> 0
  OBVIOUS
<1>4. VarSize = c + t + 2
  BY <1>2, <1>3 DEF VarSize
<1>5. PICK f \in Int : f = CASE job.type \in {"8XP", "8XV"} -> 2 [] job.type = "86P" -> 1 [] OTHER -> 0
  OBVIOUS
<1>6. SectionLength = VarSize + 8 + job.name \/ SectionLength = VarSize + 15 + f
  BY <1>5 DEF SectionLength
<1> QED BY <1>1, <1>4, <1>6

LEMMA TypeByteIs ==
  ASSUME Inv, job.type \in ProgramTypes
  PROVE  Lo(TypeByte) \in Byte
<1>1. job.name \in Nat
  BY JobsAssumption DEF Inv
<1>2. TypeByte \in Int
  <2>1. CASE job.type \in {"73P", "82P", "83P"}
    BY <2>1 DEF TypeByte
  <2>2. CASE job.type \in {"8XP", "8XV"}
    BY <2>2 DEF TypeByte
  <2>3. CASE job.type = "85P"
    <3>1. TypeByte = 6 + job.name
      BY <2>3 DEF TypeByte
    <3> QED BY <1>1, <3>1
  <2>4. CASE job.type \in {"86P", "86S"}
    BY <2>4 DEF TypeByte
  <2>5. CASE job.type = "85S"
    BY <2>5 DEF TypeByte
  <2> QED BY <2>1, <2>2, <2>3, <2>4, <2>5 DEF ProgramTypes
<1> QED BY <1>2, LowHigh

\* Where the parts of the header are.
LEMMA HeaderIs ==
  ASSUME Inv, job.type \in ProgramTypes
  PROVE  /\ Header \in Seq(Byte)
         /\ Len(Header) = 4 + Len(Kind) + Len(NameBytes) + Len(Flags)
         /\ Len(Header) >= 4
         /\ Header[3] = Word(VarSize)[1] /\ Header[4] = Word(VarSize)[2]
<1>1. PICK a \in Seq(Byte) : a = <<Lo(TypeByte), 0>> /\ Len(a) = 2
  <2>1. Lo(TypeByte) \in Byte /\ 0 \in Byte
    BY TypeByteIs, Bytes
  <2>2. \A x, y \in Byte : <<x, y>> \in Seq(Byte) /\ Len(<<x, y>>) = 2
    OBVIOUS
  <2> QED BY <2>1, <2>2
<1>2. PICK w \in Seq(Byte) : w = Word(VarSize) /\ Len(w) = 2
  BY VarSizeTyped, WordBytes
<1>3. PICK k \in Seq(Byte), n \in Seq(Byte), f \in Seq(Byte) : k = Kind /\ n = NameBytes /\ f = Flags
  BY KindIs, NameIs, FlagsAre
<1>4. PICK p \in Seq(Byte) : p = a \o w
  BY Catenation
<1>5. PICK q \in Seq(Byte) : q = p \o k
  BY Catenation
<1>6. PICK r \in Seq(Byte) : r = q \o n
  BY Catenation
<1>7. PICK s \in Seq(Byte) : s = r \o f
  BY Catenation
<1>8. Header = s
  BY <1>1, <1>2, <1>3, <1>4, <1>5, <1>6, <1>7 DEF Header
<1>9. /\ Len(p) = 4 /\ p[3] = w[1] /\ p[4] = w[2]
  <2>1. Len(p) = Len(a) + Len(w) /\ \A i \in 1..Len(w) : p[Len(a) + i] = w[i]
    BY <1>4, Catenation
  <2>2. \A i \in 1..2 : p[2 + i] = w[i]
    BY <1>1, <1>2, <2>1
  <2>3. p[2 + 1] = w[1] /\ p[2 + 2] = w[2]
    BY <2>2
  <2> QED BY <1>1, <1>2, <2>1, <2>3
<1>10. Len(q) = 4 + Len(k) /\ \A i \in 1..4 : q[i] = p[i]
  <2>1. Len(q) = Len(p) + Len(k) /\ \A i \in 1..Len(p) : q[i] = p[i]
    BY <1>5, Catenation
  <2>2. \A i \in 1..4 : i \in 1..Len(p)
    BY <1>9
  <2> QED BY <1>9, <2>1, <2>2
<1>11. Len(r) = 4 + Len(k) + Len(n) /\ \A i \in 1..4 : r[i] = q[i]
  <2>1. Len(r) = Len(q) + Len(n) /\ \A i \in 1..Len(q) : r[i] = q[i]
    BY <1>6, Catenation
  <2>2. \A i \in 1..4 : i \in 1..Len(q)
    BY <1>10
  <2> QED BY <1>10, <2>1, <2>2
<1>12. Len(s) = 4 + Len(k) + Len(n) + Len(f) /\ \A i \in 1..4 : s[i] = r[i]
  <2>1. Len(s) = Len(r) + Len(f) /\ \A i \in 1..Len(r) : s[i] = r[i]
    BY <1>7, Catenation
  <2>2. \A i \in 1..4 : i \in 1..Len(r)
    BY <1>11, SMTT(30)
  <2> QED BY <1>11, <2>1, <2>2
<1>13. s[3] = w[1] /\ s[4] = w[2]
  <2>1. 3 \in 1..4 /\ 4 \in 1..4
    OBVIOUS
  <2> QED BY <1>9, <1>10, <1>11, <1>12, <2>1
<1>14. Len(k) \in Nat /\ Len(n) \in Nat /\ Len(f) \in Nat
  OBVIOUS
<1> QED BY <1>2, <1>3, <1>8, <1>12, <1>13, <1>14


\* Where the parts of what follows the section's length are.
LEMMA BodyIs ==
  ASSUME Inv, job.type \in ProgramTypes
  PROVE  /\ Body \in Seq(Byte)
         /\ Len(Body) = Len(Header) + 4 + Len(Code)
         /\ Body[3] = Word(VarSize)[1] /\ Body[4] = Word(VarSize)[2]
         /\ Body[Len(Header) + 1] = Word(VarSize)[1]
         /\ Body[Len(Header) + 2] = Word(VarSize)[2]
         /\ Body[Len(Header) + 3] = Word(VarSize - 2)[1]
         /\ Body[Len(Header) + 4] = Word(VarSize - 2)[2]
<1>1. PICK h \in Seq(Byte), n \in Nat : h = Header /\ n = Len(h) /\ n >= 4
  <2>1. Header \in Seq(Byte) /\ Len(Header) >= 4
    BY HeaderIs
  <2>2. Len(Header) \in Nat
    BY <2>1
  <2> QED BY <2>1, <2>2
<1>2. h[3] = Word(VarSize)[1] /\ h[4] = Word(VarSize)[2]
  BY <1>1, HeaderIs
<1>3. PICK u \in Seq(Byte) : u = Word(VarSize) /\ Len(u) = 2
  BY VarSizeTyped, WordBytes
<1>z. PICK z \in Int : z = VarSize - 2
  BY VarSizeTyped
<1>4. PICK v \in Seq(Byte) : v = Word(z) /\ Len(v) = 2
  BY WordBytes
<1>5. PICK c \in Seq(Byte) : c = Code
  BY CodeIs
<1>6. PICK p \in Seq(Byte) : p = h \o u
  BY Catenation
<1>7. PICK q \in Seq(Byte) : q = p \o v
  BY Catenation
<1>8. PICK b \in Seq(Byte) : b = q \o c
  BY Catenation
<1>9. Body = b
  BY <1>1, <1>3, <1>z, <1>4, <1>5, <1>6, <1>7, <1>8 DEF Body
<1>10. /\ Len(p) = n + 2 /\ \A i \in 1..n : p[i] = h[i]
       /\ p[n + 1] = u[1] /\ p[n + 2] = u[2]
  <2>1. /\ Len(p) = Len(h) + Len(u) /\ \A i \in 1..Len(h) : p[i] = h[i]
        /\ \A i \in 1..Len(u) : p[Len(h) + i] = u[i]
    BY <1>6, Catenation
  <2>2. 1 \in 1..Len(u) /\ 2 \in 1..Len(u)
    BY <1>3
  <2> QED BY <1>1, <1>3, <2>1, <2>2
<1>11. /\ Len(q) = n + 4 /\ \A i \in 1..(n + 2) : q[i] = p[i]
       /\ q[n + 3] = v[1] /\ q[n + 4] = v[2]
  <2>1. /\ Len(q) = Len(p) + Len(v) /\ \A i \in 1..Len(p) : q[i] = p[i]
        /\ \A i \in 1..Len(v) : q[Len(p) + i] = v[i]
    BY <1>7, Catenation
  <2>2. 1 \in 1..Len(v) /\ 2 \in 1..Len(v)
    BY <1>4
  <2>3. q[Len(p) + 1] = v[1] /\ q[Len(p) + 2] = v[2]
    BY <2>1, <2>2
  <2>4. Len(p) + 1 = n + 3 /\ Len(p) + 2 = n + 4
    BY <1>10, SMTT(30)
  <2> QED BY <1>4, <1>10, <2>1, <2>3, <2>4
<1>12. /\ Len(b) = n + 4 + Len(c) /\ \A i \in 1..(n + 4) : b[i] = q[i]
  <2>1. Len(b) = Len(q) + Len(c) /\ \A i \in 1..Len(q) : b[i] = q[i]
    BY <1>8, Catenation
  <2> QED BY <1>11, <2>1
<1>13. \A i \in 1..n : b[i] = h[i]
  <2> TAKE i \in 1..n
  <2>1. i \in 1..(n + 2) /\ i \in 1..(n + 4)
    OBVIOUS
  <2> QED BY <1>10, <1>11, <1>12, <2>1
<1>14. b[n + 1] = u[1] /\ b[n + 2] = u[2]
  <2>1. /\ n + 1 \in 1..(n + 2) /\ n + 1 \in 1..(n + 4)
        /\ n + 2 \in 1..(n + 2) /\ n + 2 \in 1..(n + 4)
    OBVIOUS
  <2> QED BY <1>10, <1>11, <1>12, <2>1
<1>15. b[n + 3] = v[1] /\ b[n + 4] = v[2]
  <2>1. n + 3 \in 1..(n + 4) /\ n + 4 \in 1..(n + 4)
    OBVIOUS
  <2> QED BY <1>11, <1>12, <2>1
<1>16. b[3] = h[3] /\ b[4] = h[4]
  <2>1. 3 \in 1..n /\ 4 \in 1..n
    BY <1>1
  <2> QED BY <1>13, <2>1
<1> QED BY <1>1, <1>2, <1>3, <1>z, <1>4, <1>5, <1>9, <1>12, <1>14, <1>15, <1>16

Section == Word(SectionLength) \o Body \o Word(Total(Body))

LEMMA SectionIs ==
  ASSUME Inv, job.type \in ProgramTypes
  PROVE  /\ Section \in Seq(Byte)
         /\ Len(Body) \in Nat /\ Len(Section) = Len(Body) + 4 /\ Total(Body) \in Nat
         /\ Section[1] = Word(SectionLength)[1] /\ Section[2] = Word(SectionLength)[2]
         /\ \A i \in 1..Len(Body) : Section[i + 2] = Body[i]
         /\ Section[Len(Body) + 3] = Word(Total(Body))[1]
         /\ Section[Len(Body) + 4] = Word(Total(Body))[2]
<1>1. PICK b \in Seq(Byte), n \in Nat : b = Body /\ n = Len(b)
  <2>1. Body \in Seq(Byte)
    BY BodyIs
  <2>2. Len(Body) \in Nat
    BY <2>1
  <2> QED BY <2>1, <2>2
<1>2. Total(b) \in Nat
  BY ByteSequences, TotalNat
<1>3. PICK u \in Seq(Byte) : u = Word(SectionLength) /\ Len(u) = 2
  BY VarSizeTyped, WordBytes
<1>4. PICK v \in Seq(Byte) : v = Word(Total(b)) /\ Len(v) = 2
  BY <1>2, WordBytes
<1>5. PICK p \in Seq(Byte) : p = u \o b
  BY Catenation
<1>6. PICK s \in Seq(Byte) : s = p \o v
  BY Catenation
<1>7. Section = s
  BY <1>1, <1>3, <1>4, <1>5, <1>6 DEF Section
<1>8. /\ Len(p) = n + 2 /\ p[1] = u[1] /\ p[2] = u[2]
      /\ \A i \in 1..n : p[i + 2] = b[i]
  <2>1. /\ Len(p) = Len(u) + Len(b) /\ \A i \in 1..Len(u) : p[i] = u[i]
        /\ \A i \in 1..Len(b) : p[Len(u) + i] = b[i]
    BY <1>5, Catenation
  <2>2. 1 \in 1..Len(u) /\ 2 \in 1..Len(u)
    BY <1>3
  <2>3. \A i \in 1..n : p[i + 2] = b[i]
    <3> TAKE i \in 1..n
    <3>1. Len(u) + i = i + 2
      BY <1>3
    <3>2. p[Len(u) + i] = b[i]
      BY <1>1, <2>1
    <3> QED BY <3>1, <3>2
  <2> QED BY <1>1, <1>3, <2>1, <2>2, <2>3
<1>9. /\ Len(s) = n + 4 /\ \A i \in 1..(n + 2) : s[i] = p[i]
      /\ s[n + 3] = v[1] /\ s[n + 4] = v[2]
  <2>1. /\ Len(s) = Len(p) + Len(v) /\ \A i \in 1..Len(p) : s[i] = p[i]
        /\ \A i \in 1..Len(v) : s[Len(p) + i] = v[i]
    BY <1>6, Catenation
  <2>2. 1 \in 1..Len(v) /\ 2 \in 1..Len(v)
    BY <1>4
  <2>3. s[Len(p) + 1] = v[1] /\ s[Len(p) + 2] = v[2]
    BY <2>1, <2>2
  <2>4. Len(p) + 1 = n + 3 /\ Len(p) + 2 = n + 4
    BY <1>8
  <2> QED BY <1>4, <1>8, <2>1, <2>3, <2>4
<1>10. s[1] = u[1] /\ s[2] = u[2]
  <2>1. 1 \in 1..(n + 2) /\ 2 \in 1..(n + 2)
    OBVIOUS
  <2> QED BY <1>8, <1>9, <2>1
<1>11. \A i \in 1..n : s[i + 2] = b[i]
  <2> TAKE i \in 1..n
  <2>1. i + 2 \in 1..(n + 2)
    OBVIOUS
  <2> QED BY <1>8, <1>9, <2>1
<1> QED BY <1>1, <1>2, <1>3, <1>4, <1>7, <1>9, <1>10, <1>11

\* What is between the length and the checksum of the section.
LEMMA SectionBody ==
  ASSUME Inv, job.type \in ProgramTypes
  PROVE  SubSeq(Section, 3, Len(Section) - 2) = Body
<1>1. PICK b \in Seq(Byte), n \in Nat : b = Body /\ n = Len(b)
  <2>1. Body \in Seq(Byte)
    BY BodyIs
  <2>2. Len(Body) \in Nat
    BY <2>1
  <2> QED BY <2>1, <2>2
<1>2. PICK s \in Seq(Byte) : s = Section /\ Len(s) = n + 4 /\ \A i \in 1..n : s[i + 2] = b[i]
  BY <1>1, SectionIs
<1>3. PICK t \in Seq(Byte) : t = SubSeq(s, 3, n + 2)
  <2>1. SubSeq(s, 3, n + 2) \in Seq(Byte)
    <3>1. \A i \in 3..(n + 2) : i \in 1..Len(s)
      BY <1>2
    <3> QED BY <1>2, <3>1
  <2> QED BY <2>1
<1>4. Len(t) = n /\ \A i \in 1..n : t[i] = s[i + 2]
  BY <1>2, <1>3
<1>5. t = b
  <2>1. t = [i \in 1..n |-> t[i]] /\ b = [i \in 1..n |-> b[i]]
    BY <1>1, <1>4
  <2>2. \A i \in 1..n : t[i] = b[i]
    BY <1>2, <1>4
  <2>3. [i \in 1..n |-> t[i]] = [i \in 1..n |-> b[i]]
    BY <2>2
  <2> QED BY <2>1, <2>3
<1>6. Len(s) - 2 = n + 2
  BY <1>2
<1> QED BY <1>1, <1>2, <1>3, <1>5, <1>6

Written == section = IF phase = "done" /\ job.type \in ProgramTypes THEN Section ELSE <<>>

LEMMA SectionKept ==
  ASSUME UNCHANGED job
  PROVE  Section' = Section
<1>1. Size' = Size /\ Kind' = Kind /\ NameBytes' = NameBytes /\ Flags' = Flags /\ TypeByte' = TypeByte
  BY DEF Size, Kind, NameBytes, Flags, TypeByte
<1>2. VarSize' = VarSize /\ Code' = Code
  BY <1>1 DEF VarSize, Code
<1>3. SectionLength' = SectionLength
  BY <1>2 DEF SectionLength
<1>4. Header' = Header
  BY <1>1, <1>2 DEF Header
<1>5. Body' = Body
  BY <1>2, <1>4 DEF Body
<1> QED BY <1>3, <1>5 DEF Section

LEMMA WrittenStep ==
  ASSUME Inv, Written, [Next]_vars
  PROVE  Written'
<1>1. job.type \in ProgramTypes => job.type \notin {"8XK", "HEX"}
  BY DEF ProgramTypes
<1>2. CASE MakePrgm
  <2>1. /\ section' = Section /\ UNCHANGED job /\ phase' = "done"
        /\ job.type \in ProgramTypes
    BY <1>2 DEF MakePrgm, Section
  <2>2. Section' = Section
    BY <2>1, SectionKept
  <2> QED BY <2>1, <2>2 DEF Written
<1>3. CASE MakeApp \/ MakeHex
  <2>1. UNCHANGED <<job, section>> /\ phase = "start" /\ job.type \in {"8XK", "HEX"}
    BY <1>3 DEF MakeApp, MakeHex
  <2> QED BY <1>1, <2>1 DEF Written
<1>4. CASE StartPage \/ DataRecord \/ EndOfHex
  <2>1. UNCHANGED <<job, section>> /\ phase \in {"pages", "records"}
    BY <1>4 DEF StartPage, DataRecord, EndOfHex
  <2>2. Hex
    BY <2>1 DEF Inv, Place
  <2> QED BY <1>1, <2>1, <2>2 DEF Written, Hex
<1>5. CASE UNCHANGED vars
  <2>1. UNCHANGED <<job, section, phase>>
    BY <1>5 DEF vars
  <2>2. Section' = Section
    BY <2>1, SectionKept
  <2> QED BY <2>1, <2>2 DEF Written
<1> QED BY <1>2, <1>3, <1>4, <1>5 DEF Next, Finished

LEMMA WrittenInvariant == Spec => []Written
<1>1. Init => Written
  BY DEF Init, Written
<1> QED BY <1>1, WrittenStep, Invariant, PTL DEF Spec

\* What two bytes hold of a number, and the number that fits.
LowWord(n) == n % 65536
Fits(n) == n < 65536

\* The two bytes at place i, as a number.
WordAt(s, i) == s[i] + 256 * s[i + 1]

LEMMA AtWord ==
  ASSUME NEW n \in Nat, NEW s, NEW i, s[i] = Word(n)[1], s[i + 1] = Word(n)[2]
  PROVE  WordAt(s, i) = LowWord(n)
<1>1. Word(n)[1] + 256 * Word(n)[2] = LowWord(n)
  <2>1. n \in Int /\ n >= 0
    OBVIOUS
  <2> QED BY <2>1, WordBytes DEF LowWord
<1>2. WordAt(s, i) = s[i] + 256 * s[i + 1]
  BY DEF WordAt
<1> QED BY <1>1, <1>2, Zenon

LEMMA AtBody ==
  ASSUME Inv, job.type \in ProgramTypes, NEW i \in Nat, i >= 1, i < Len(Body)
  PROVE  WordAt(Section, i + 2) = WordAt(Body, i)
<1>1. \A k \in 1..Len(Body) : Section[k + 2] = Body[k]
  BY SectionIs
<1>2. PICK n \in Nat : n = Len(Body)
  BY SectionIs
<1>3. i \in 1..n /\ i + 1 \in 1..n /\ (i + 1) + 2 = (i + 2) + 1
  BY <1>2
<1>4. Section[i + 2] = Body[i] /\ Section[(i + 1) + 2] = Body[i + 1]
  BY <1>1, <1>2, <1>3, Zenon
<1>5. WordAt(Section, i + 2) = Section[i + 2] + 256 * Section[(i + 2) + 1]
  BY DEF WordAt
<1>6. WordAt(Body, i) = Body[i] + 256 * Body[i + 1]
  BY DEF WordAt
<1> QED BY <1>3, <1>4, <1>5, <1>6, SMTT(30)

\* The lengths stated, read back from the section.
LEMMA ReadBack ==
  ASSUME Inv, job.type \in ProgramTypes,
         NEW h \in Nat, NEW c \in Nat, NEW n \in Nat, h >= 4, n = h + 4 + c,
         h = Len(Header), n = Len(Body), VarSize = c + 2, SectionLength = n
  PROVE  /\ WordAt(Section, 1) = LowWord(n)
         /\ WordAt(Section, 5) = LowWord(c + 2) /\ WordAt(Section, h + 3) = LowWord(c + 2)
         /\ WordAt(Section, h + 5) = LowWord(c)
         /\ WordAt(Section, n + 3) = LowWord(Total(Body))
<1>1. WordAt(Section, 1) = LowWord(n)
  <2>1. Section[1] = Word(n)[1] /\ Section[2] = Word(n)[2]
    BY SectionIs
  <2>2. 1 + 1 = 2
    OBVIOUS
  <2> QED BY <2>1, <2>2, AtWord
<1>2. PICK z \in Nat : z = c + 2
  OBVIOUS
<1>3. WordAt(Body, 3) = LowWord(z)
  <2>1. Body[3] = Word(z)[1] /\ Body[4] = Word(z)[2]
    BY <1>2, BodyIs
  <2>2. 3 + 1 = 4
    OBVIOUS
  <2> QED BY <2>1, <2>2, AtWord
<1>4. WordAt(Body, h + 1) = LowWord(z)
  <2>1. Body[h + 1] = Word(z)[1] /\ Body[h + 2] = Word(z)[2]
    BY <1>2, BodyIs
  <2>2. (h + 1) + 1 = h + 2
    OBVIOUS
  <2> QED BY <2>1, <2>2, AtWord
<1>5. WordAt(Body, h + 3) = LowWord(c)
  <2>1. VarSize - 2 = c
    <3>1. z - 2 = c /\ VarSize = z
      BY <1>2
    <3> QED BY <3>1
  <2>2. Body[h + 3] = Word(c)[1] /\ Body[h + 4] = Word(c)[2]
    BY <2>1, BodyIs
  <2>3. (h + 3) + 1 = h + 4
    OBVIOUS
  <2> QED BY <2>2, <2>3, AtWord
<1>6. WordAt(Section, 3 + 2) = WordAt(Body, 3)
  <2>1. 3 \in Nat /\ 3 >= 1 /\ 3 < n
    OBVIOUS
  <2> QED BY <2>1, AtBody
<1>7. WordAt(Section, (h + 1) + 2) = WordAt(Body, h + 1)
  <2>1. h + 1 \in Nat /\ h + 1 >= 1 /\ h + 1 < n
    OBVIOUS
  <2> QED BY <2>1, AtBody
<1>8. WordAt(Section, (h + 3) + 2) = WordAt(Body, h + 3)
  <2>1. h + 3 \in Nat /\ h + 3 >= 1 /\ h + 3 < n
    OBVIOUS
  <2> QED BY <2>1, AtBody
<1>9. WordAt(Section, n + 3) = LowWord(Total(Body))
  <2>1. PICK t \in Nat : t = Total(Body)
    BY SectionIs
  <2>2. Section[n + 3] = Word(t)[1] /\ Section[n + 4] = Word(t)[2]
    BY <2>1, SectionIs
  <2>3. (n + 3) + 1 = n + 4
    OBVIOUS
  <2> QED BY <2>1, <2>2, <2>3, AtWord
<1>10. 3 + 2 = 5 /\ (h + 1) + 2 = h + 3 /\ (h + 3) + 2 = h + 5
  OBVIOUS
<1> QED BY <1>1, <1>2, <1>3, <1>4, <1>5, <1>6, <1>7, <1>8, <1>9, <1>10, Zenon

(***************************************************************************)
(* The lengths a program file states (export.cpp, makeprgm) are those of   *)
(* what follows them and its checksum is the sum of its bytes, for every   *)
(* type but the strings, as long as the length fits its two bytes and a    *)
(* TI-85 name has at most eight letters.                                   *)
(***************************************************************************)
THEOREM ProgramsStateTheirLengths == Spec => []ProgramFieldsAgree
<1>1. ASSUME Inv, Written, phase = "done", job.type \in ProgramTypes \ {"85S", "86S"},
             Fits(SectionLength), job.type = "85P" => job.name <= 8
      PROVE  LengthsAndChecksum
  <2>1. Inv /\ job.type \in ProgramTypes
    BY <1>1
  <2>2. section = Section
    BY <1>1 DEF Written
  <2>3. PICK h \in Nat, c \in Nat, n \in Nat, k \in Nat :
          /\ h = Len(Header) /\ c = Len(Code) /\ n = Len(Body) /\ n = h + 4 + c
          /\ h = 4 + k /\ k = Len(Kind) + Len(NameBytes) + Len(Flags)
    <3>1. Kind \in Seq(Byte) /\ NameBytes \in Seq(Byte) /\ Flags \in Seq(Byte) /\ Code \in Seq(Byte)
      BY <2>1, KindIs, NameIs, FlagsAre, CodeIs
    <3>2. Len(Kind) \in Nat /\ Len(NameBytes) \in Nat /\ Len(Flags) \in Nat /\ Len(Code) \in Nat
      BY <3>1
    <3>3. Len(Header) = 4 + Len(Kind) + Len(NameBytes) + Len(Flags)
      BY <2>1, HeaderIs
    <3>4. Len(Body) = Len(Header) + 4 + Len(Code)
      BY <2>1, BodyIs
    <3>5. PICK x \in Nat, y \in Nat, z \in Nat : x = Len(Kind) /\ y = Len(NameBytes) /\ z = Len(Flags)
      BY <3>2
    <3>6. x + y + z \in Nat /\ 4 + x + y + z \in Nat /\ 4 + x + y + z = 4 + (x + y + z)
      OBVIOUS
    <3>7. Len(Header) \in Nat
      BY <3>3, <3>5, <3>6
    <3>8. Len(Body) \in Nat
      BY <3>2, <3>4, <3>7
    <3> QED BY <3>2, <3>3, <3>4, <3>5, <3>6, <3>7, <3>8
  <2>4. VarSize = c + 2 /\ SectionLength = n
    <3>1. VarSize = Len(Code) + 2
      BY <1>1, LengthsAre
    <3>2. SectionLength = VarSize + 6 + Len(Kind) + Len(NameBytes) + Len(Flags)
      BY <1>1, LengthsAre
    <3>3. Len(Kind) \in Nat /\ Len(NameBytes) \in Nat /\ Len(Flags) \in Nat
      <4>1. Kind \in Seq(Byte) /\ NameBytes \in Seq(Byte) /\ Flags \in Seq(Byte)
        BY <2>1, KindIs, NameIs, FlagsAre
      <4> QED BY <4>1
    <3>4. SectionLength = VarSize + 6 + k
      BY <2>3, <3>1, <3>2, <3>3
    <3>5. PICK z \in Nat : z = VarSize
      BY <2>3, <3>1
    <3>6. z = c + 2 /\ z + 6 + k = n
      BY <2>3, <3>1, <3>5
    <3> QED BY <3>4, <3>5, <3>6
  <2>5. Fits(n)
    BY <1>1, <2>4
  <2>6. LowWord(n) = n /\ LowWord(c + 2) = c + 2 /\ LowWord(c) = c /\ h >= 4
    BY <2>3, <2>5 DEF Fits, LowWord
  <2>7. /\ WordAt(Section, 1) = n
        /\ WordAt(Section, 5) = c + 2 /\ WordAt(Section, h + 3) = c + 2
        /\ WordAt(Section, h + 5) = c
        /\ WordAt(Section, n + 3) = LowWord(Total(Body))
    <3>1. /\ WordAt(Section, 1) = LowWord(n)
          /\ WordAt(Section, 5) = LowWord(c + 2) /\ WordAt(Section, h + 3) = LowWord(c + 2)
          /\ WordAt(Section, h + 5) = LowWord(c)
          /\ WordAt(Section, n + 3) = LowWord(Total(Body))
      BY <2>1, <2>3, <2>4, <2>6, ReadBack, ZenonT(30)
    <3> QED BY <2>6, <3>1, Zenon
  <2>8. PICK l \in Nat : l = Len(Section) /\ l = n + 4
    BY <2>1, <2>3, SectionIs
  <2>9. /\ n = l - 4 /\ c + 2 = l - 2 - ((h + 3) + 1) /\ c = (c + 2) - 2
        /\ h + 5 = (h + 3) + 2 /\ n + 3 = l - 1
    BY <2>3, <2>8
  <2>10. SubSeq(Section, 3, Len(Section) - 2) = Body
    BY <2>1, SectionBody
  <2>11. /\ WordAt(section, 1) = Len(section) - 4
         /\ WordAt(section, 5) = WordAt(section, Len(Header) + 3)
         /\ WordAt(section, Len(Header) + 3) = Len(section) - 2 - ((Len(Header) + 3) + 1)
         /\ WordAt(section, (Len(Header) + 3) + 2) = WordAt(section, Len(Header) + 3) - 2
         /\ WordAt(section, Len(section) - 1) = LowWord(Total(SubSeq(section, 3, Len(section) - 2)))
    BY ONLY <2>2, <2>3, <2>7, <2>8, <2>9, <2>10, Zenon
  <2> QED BY ONLY <2>11, SMTT(30) DEF LengthsAndChecksum, WordAt, LowWord
<1>2. Inv /\ Written => ProgramFieldsAgree
  BY <1>1 DEF ProgramFieldsAgree, Fits
<1> QED BY <1>2, Invariant, WrittenInvariant, PTL

(***************************************************************************)
(* Whatever is written, records and sections, are bytes, and addresses fit *)
(* their two bytes (export.cpp).                                           *)
(***************************************************************************)
THEOREM TypeCorrect == Spec => []TypeOK
<1>1. ASSUME Inv, Written PROVE TypeOK
  <2>1. Typed
    BY <1>1 DEF Inv
  <2>2. \A i \in DOMAIN records :
          /\ records[i].data \in Seq(Byte) /\ records[i].chksum \in Byte
          /\ records[i].address \in Address
    <3>1. \A i \in DOMAIN records : records[i] \in GoodRecord
      <4>1. PICK r \in Seq(GoodRecord) : r = records
        BY <2>1 DEF Typed
      <4>2. \A i \in DOMAIN r : r[i] \in GoodRecord
        OBVIOUS
      <4> QED BY <4>1, <4>2
    <3> QED BY <3>1, GoodFields
  <2>3. section \in Seq(Byte)
    <3>1. CASE phase = "done" /\ job.type \in ProgramTypes
      <4>1. section = Section
        BY <1>1, <3>1 DEF Written
      <4> QED BY <1>1, <3>1, <4>1, SectionIs
    <3>2. CASE ~(phase = "done" /\ job.type \in ProgramTypes)
      <4>1. section = <<>>
        BY <1>1, <3>2 DEF Written
      <4> QED BY <4>1
    <3> QED BY <3>1, <3>2
  <2> QED BY <2>1, <2>2, <2>3 DEF TypeOK, Typed
<1> QED BY <1>1, Invariant, WrittenInvariant, PTL
=============================================================================
