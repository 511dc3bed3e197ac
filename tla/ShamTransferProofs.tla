------------------------- MODULE ShamTransferProofs -------------------------
(***************************************************************************)
(* Proofs about ShamTransfer, for files, packets, windows and buffers of   *)
(* every size, and a network that loses, duplicates and reorders any       *)
(* number of packets.                                                      *)
(***************************************************************************)
EXTENDS MCShamTransfer, TLAPS, WellFoundedInduction, FiniteSetTheorems

-----------------------------------------------------------------------------
(* Numbers. *)

\* The least number of a set: an induction is a search for the least counterexample.
LEMMA LeastNumber ==
    ASSUME NEW T, T \subseteq Nat, T # {}
    PROVE  \E n \in T : \A m \in T : n <= m
<1>1. PICK n \in T : \A m \in T : <<m, n>> \notin OpToRel(<, Nat)
      BY WFMin, NatLessThanWellFounded, Zenon
<1>2. \A m \in T : ~(m < n)
      BY <1>1, Zenon DEF OpToRel
<1>   QED BY <1>2

\* The greatest number of a set that has a bound.
LEMMA GreatestNumber ==
    ASSUME NEW N \in Nat, NEW T, T \subseteq 1 .. N, T # {}
    PROVE  /\ Max(T) \in T /\ \A m \in T : m <= Max(T)
           /\ Min(T) \in T /\ \A m \in T : Min(T) <= m
<1>1. \E n \in T : \A m \in T : m <= n
  <2> DEFINE U == {N - m : m \in T}
  <2>1. PICK u \in U : \A v \in U : u <= v
    <3>1. \A m \in T : N - m \in Nat
          OBVIOUS
    <3>2. U \subseteq Nat /\ U # {}
          BY <3>1
    <3> HIDE DEF U
    <3>   QED BY <3>2, LeastNumber
  <2>2. PICK n \in T : u = N - n
        BY <2>1
  <2>3. ASSUME NEW m \in T PROVE m <= n
    <3>1. N - m \in U
          OBVIOUS
    <3>   QED BY <3>1, <2>1, <2>2
  <2>   QED BY <2>3
<1>2. \E n \in T : \A m \in T : n >= m
      BY <1>1
<1>3. \E n \in T : \A m \in T : n <= m
  <2>1. T \subseteq Nat
        OBVIOUS
  <2>   QED BY <2>1, LeastNumber
<1>4. Max(T) \in T /\ \A m \in T : Max(T) >= m
      BY <1>2 DEF Max
<1>5. Min(T) \in T /\ \A m \in T : Min(T) <= m
      BY <1>3 DEF Min
<1>   QED BY <1>4, <1>5

-----------------------------------------------------------------------------
(* Sums. *)

\* The recursion of Sums has a solution.
LEMMA SumsUnfold ==
    ASSUME NEW f, NEW n \in Nat
    PROVE  Sums(f, n) = [k \in 0 .. n |-> IF k = 0 THEN 0 ELSE Sums(f, n)[k - 1] + f[k]]
<1> DEFINE Adds(s, N) == s = [k \in 0 .. N |-> IF k = 0 THEN 0 ELSE s[k - 1] + f[k]]
           Bad == {N \in Nat : ~ \E s : Adds(s, N)}
<1>1. Bad = {}
  <2> SUFFICES ASSUME Bad # {} PROVE FALSE
      OBVIOUS
  <2>1. PICK N \in Nat : N \in Bad /\ \A M \in Bad : N <= M
        BY LeastNumber
  <2>2. CASE N = 0
    <3> DEFINE s == [k \in 0 .. 0 |-> 0]
    <3>1. Adds(s, 0)
          OBVIOUS
    <3>   QED BY <3>1, <2>1, <2>2
  <2>3. CASE N # 0
    <3>1. PICK s : Adds(s, N - 1)
      <4> HIDE DEF Adds
      <4>1. N - 1 \in Nat
            BY <2>3
      <4> HIDE DEF Bad
      <4>2. N - 1 \notin Bad
            BY <2>1, <4>1
      <4>   QED BY <4>1, <4>2 DEF Bad
    <3> DEFINE t == [k \in 0 .. N |-> IF k = N THEN s[N - 1] + f[N] ELSE s[k]]
    <3>2. \A k \in 0 .. N : t[k] = IF k = 0 THEN 0 ELSE t[k - 1] + f[k]
          BY <3>1, <2>3
    <3>3. Adds(t, N)
          BY <3>2
    <3>   QED BY <3>3, <2>1
  <2>   QED BY <2>2, <2>3
<1>2. \E s : Adds(s, n)
      BY <1>1
<1>3. Sums(f, n) = CHOOSE s : Adds(s, n)
      BY DEF Sums
<1> HIDE DEF Adds
<1>4. Adds(Sums(f, n), n)
      BY <1>2, <1>3
<1>   QED BY <1>4 DEF Adds

\* One step of the sum.
LEMMA SumsStep ==
    ASSUME NEW f, NEW n \in Nat
    PROVE  /\ Sums(f, n)[0] = 0
           /\ \A k \in 1 .. n : Sums(f, n)[k] = Sums(f, n)[k - 1] + f[k]
<1> DEFINE s == Sums(f, n)
<1>1. s = [k \in 0 .. n |-> IF k = 0 THEN 0 ELSE s[k - 1] + f[k]]
      BY SumsUnfold
<1> HIDE DEF s
<1>2. s[0] = 0 /\ \A k \in 1 .. n : s[k] = s[k - 1] + f[k]
      BY <1>1
<1>   QED BY <1>2 DEF s

\* A bound on each number bounds their sum; here a number is compared with the
\* same number of another list, except at one place.
LEMMA SumCompare ==
    ASSUME NEW n \in Nat, NEW f \in [1 .. n -> Nat], NEW g \in [1 .. n -> Nat],
           \A k \in 1 .. n : f[k] <= g[k]
    PROVE  Sum(f, n) \in Nat /\ Sum(f, n) <= Sum(g, n)
<1> DEFINE s == Sums(f, n)
           t == Sums(g, n)
           Bad == {k \in Nat : k <= n /\ ~(s[k] \in Nat /\ t[k] \in Nat /\ s[k] <= t[k])}
<1>1. /\ s[0] = 0 /\ \A k \in 1 .. n : s[k] = s[k - 1] + f[k]
      /\ t[0] = 0 /\ \A k \in 1 .. n : t[k] = t[k - 1] + g[k]
      BY SumsStep
<1> HIDE DEF s, t
<1>2. Bad = {}
  <2> SUFFICES ASSUME Bad # {} PROVE FALSE
      OBVIOUS
  <2>1. PICK k \in Nat : k \in Bad /\ \A m \in Bad : k <= m
        BY LeastNumber
  <2>2. k # 0 /\ k <= n
        BY <2>1, <1>1
  <2>3. s[k - 1] \in Nat /\ t[k - 1] \in Nat /\ s[k - 1] <= t[k - 1]
        BY <2>1, <2>2
  <2>4. f[k] \in Nat /\ g[k] \in Nat /\ f[k] <= g[k]
        BY <2>2
  <2>5. s[k] = s[k - 1] + f[k] /\ t[k] = t[k - 1] + g[k]
        BY <2>2, <1>1
  <2>6. s[k] \in Nat /\ t[k] \in Nat /\ s[k] <= t[k]
        BY <2>3, <2>4, <2>5, SMTT(20)
  <2>   QED BY <2>1, <2>6
<1>3. n \notin Bad
      BY <1>2
<1>   QED BY <1>3 DEF Sum, s, t

\* One number of a list changes, and its sum with it.
LEMMA SumUpdate ==
    ASSUME NEW n \in Nat, NEW f \in [1 .. n -> Nat], NEW j \in 1 .. n, NEW v \in Nat
    PROVE  Sum([f EXCEPT ![j] = v], n) = Sum(f, n) - f[j] + v
<1> DEFINE g == [f EXCEPT ![j] = v]
           s == Sums(f, n)
           t == Sums(g, n)
           Bad == {k \in Nat : k <= n /\ ~(s[k] \in Int /\ t[k] = IF k < j THEN s[k] ELSE s[k] - f[j] + v)}
<1>1. /\ s[0] = 0 /\ \A k \in 1 .. n : s[k] = s[k - 1] + f[k]
      /\ t[0] = 0 /\ \A k \in 1 .. n : t[k] = t[k - 1] + g[k]
      BY SumsStep
<1> HIDE DEF s, t
<1>2. Bad = {}
  <2> SUFFICES ASSUME Bad # {} PROVE FALSE
      OBVIOUS
  <2>1. PICK k \in Nat : k \in Bad /\ \A m \in Bad : k <= m
        BY LeastNumber
  <2>2. k # 0 /\ k <= n
        BY <2>1, <1>1
  <2>3. s[k - 1] \in Int /\ t[k - 1] = IF k - 1 < j THEN s[k - 1] ELSE s[k - 1] - f[j] + v
        BY <2>1, <2>2
  <2>4. f[k] \in Nat /\ f[j] \in Nat /\ g[k] = IF k = j THEN v ELSE f[k]
        BY <2>2
  <2>5. s[k] = s[k - 1] + f[k] /\ t[k] = t[k - 1] + g[k]
        BY <2>2, <1>1
  <2>6. s[k] \in Int /\ t[k] = IF k < j THEN s[k] ELSE s[k] - f[j] + v
        BY <2>3, <2>4, <2>5, SMTT(20)
  <2>   QED BY <2>1, <2>6
<1>3. n \notin Bad
      BY <1>2
<1>   QED BY <1>3 DEF Sum, s, t

\* A sum of multiples.
LEMMA SumScale ==
    ASSUME NEW n \in Nat, NEW f \in [1 .. n -> Nat], NEW g \in [1 .. n -> Nat], NEW c \in Nat,
           \A k \in 1 .. n : g[k] <= f[k] * c
    PROVE  Sum(g, n) <= Sum(f, n) * c
<1> DEFINE s == Sums(f, n)
           t == Sums(g, n)
           Bad == {k \in Nat : k <= n /\ ~(s[k] \in Nat /\ t[k] \in Nat /\ t[k] <= s[k] * c)}
<1>1. /\ s[0] = 0 /\ \A k \in 1 .. n : s[k] = s[k - 1] + f[k]
      /\ t[0] = 0 /\ \A k \in 1 .. n : t[k] = t[k - 1] + g[k]
      BY SumsStep
<1> HIDE DEF s, t
<1>2. Bad = {}
  <2> SUFFICES ASSUME Bad # {} PROVE FALSE
      OBVIOUS
  <2>1. PICK k \in Nat : k \in Bad /\ \A m \in Bad : k <= m
        BY LeastNumber
  <2>2. k # 0 /\ k <= n
        BY <2>1, <1>1
  <2>3. s[k - 1] \in Nat /\ t[k - 1] \in Nat
        BY <2>1, <2>2
  <2>4. t[k - 1] <= s[k - 1] * c
        BY <2>1, <2>2
  <2>5. f[k] \in Nat /\ g[k] \in Nat
        BY <2>2
  <2>6. g[k] <= f[k] * c
        BY <2>2
  <2>7. s[k] = s[k - 1] + f[k] /\ t[k] = t[k - 1] + g[k]
        BY <2>2, <1>1, SMTT(20)
  <2>8. s[k] \in Nat /\ t[k] \in Nat
    <3>1. \A a, b \in Nat : a + b \in Nat
          OBVIOUS
    <3>   QED BY <3>1, <2>3, <2>5, <2>7
  <2>9. t[k] <= s[k] * c
    <3>1. \A a, b, x, y \in Nat : a <= x * c /\ b <= y * c => a + b <= (x + y) * c
          OBVIOUS
    <3>   QED BY <3>1, <2>3, <2>4, <2>5, <2>6, <2>7, SMTT(20)
  <2>   QED BY <2>1, <2>8, <2>9
<1>3. n \notin Bad
      BY <1>2
<1>   QED BY <1>3 DEF Sum, s, t

\* Nothing adds up to nothing.
LEMMA SumZero ==
    ASSUME NEW n \in Nat, NEW f \in [1 .. n -> {0}]
    PROVE  Sum(f, n) = 0
<1> DEFINE s == Sums(f, n)
           Bad == {k \in Nat : k <= n /\ s[k] # 0}
<1>1. s[0] = 0 /\ \A k \in 1 .. n : s[k] = s[k - 1] + f[k]
      BY SumsStep
<1> HIDE DEF s
<1>2. Bad = {}
  <2> SUFFICES ASSUME Bad # {} PROVE FALSE
      OBVIOUS
  <2>1. PICK k \in Nat : k \in Bad /\ \A m \in Bad : k <= m
        BY LeastNumber
  <2>2. k # 0 /\ k <= n
        BY <2>1, <1>1
  <2>3. s[k - 1] = 0 /\ f[k] = 0
        BY <2>1, <2>2
  <2>   QED BY <2>1, <2>2, <2>3, <1>1
<1>3. n \notin Bad
      BY <1>2
<1>   QED BY <1>3 DEF Sum, s

\* One number of a list is at most the sum.
LEMMA SumMember ==
    ASSUME NEW n \in Nat, NEW f \in [1 .. n -> Nat], NEW j \in 1 .. n
    PROVE  f[j] <= Sum(f, n)
<1> DEFINE zero == [k \in 1 .. n |-> 0]
           one == [zero EXCEPT ![j] = f[j]]
<1>1. zero \in [1 .. n -> {0}] /\ zero \in [1 .. n -> Nat] /\ f[j] \in Nat
      OBVIOUS
<1>2. Sum(one, n) = f[j]
  <2>1. Sum(zero, n) = 0 /\ zero[j] = 0
        BY <1>1, SumZero
  <2> HIDE DEF zero
  <2>2. Sum(one, n) = Sum(zero, n) - zero[j] + f[j]
        BY <1>1, SumUpdate
  <2>   QED BY <1>1, <2>1, <2>2
<1>3. one \in [1 .. n -> Nat] /\ \A k \in 1 .. n : one[k] <= f[k]
      OBVIOUS
<1> HIDE DEF one
<1>   QED BY <1>2, <1>3, SumCompare

-----------------------------------------------------------------------------
(* The chunks of the file. *)

\* Division with a remainder is unique.
LEMMA Quotient ==
    \A m \in Nat \ {0}, a \in Nat, q \in Nat : \A r \in 0 .. m - 1 : a = (m * q) + r => a % m = r
<1> SUFFICES ASSUME NEW m \in Nat \ {0}, NEW a \in Nat, NEW q \in Nat, NEW r \in 0 .. m - 1, a = (m * q) + r
             PROVE  a % m = r
    OBVIOUS
<1>1. a = (m * (a \div m)) + (a % m) /\ a % m \in 0 .. m - 1 /\ a \div m \in Int
      OBVIOUS
<1> DEFINE d == a \div m
           e == a % m
<1> HIDE DEF d, e
<1>2. a = (m * d) + e /\ e \in 0 .. m - 1 /\ d \in Int
      BY <1>1 DEF d, e
<1>3. ~ d > q
  <2> SUFFICES ASSUME d >= q + 1 PROVE FALSE
      BY <1>2
  <2>1. m * d >= (m * q) + m
        BY <1>2
  <2>   QED BY <2>1, <1>2
<1>4. ~ d < q
  <2> SUFFICES ASSUME q >= d + 1 PROVE FALSE
      BY <1>2
  <2>1. m * q >= (m * d) + m
        BY <1>2
  <2>   QED BY <2>1, <1>2
<1>5. d = q
      BY <1>2, <1>3, <1>4
<1>6. e = r
      BY <1>2, <1>5
<1>   QED BY <1>6 DEF e

\* The chunks cover the file: all but the last are full, none is empty.
LEMMA ChunkSizes ==
    /\ NChunks \in Nat
    /\ \A j \in Chunks : Size(j) \in 1 .. MTU /\ (j < NChunks => Size(j) = MTU)
<1> USE ShamAssumption
<1> DEFINE m == MTU
           q == NChunks
           r == (FileLen + MTU - 1) % MTU
<1>1. m \in Nat \ {0} /\ FileLen \in Nat
      OBVIOUS
<1>2. FileLen + m - 1 = (m * q) + r /\ r \in 0 .. m - 1 /\ q \in Nat
      BY <1>1 DEF NChunks
<1> HIDE DEF m, q, r
<1>3. ASSUME NEW j \in 1 .. q PROVE Size(j) \in 1 .. m /\ (j < q => Size(j) = m)
  <2>1. Size(j) = IF j * m <= FileLen THEN m ELSE FileLen % m
        BY DEF Size, m
  <2>2. CASE j < q
    <3>1. j * m <= (m * q) - m
      <4>1. j + 1 <= q /\ j \in Nat
            BY <2>2, <1>2
      <4>2. (j + 1) * m <= q * m
            BY <4>1, <1>1, <1>2
      <4>   QED BY <4>1, <4>2, <1>1, <1>2
    <3>2. j * m \in Int /\ m * q \in Int
          BY <1>1, <1>2
    <3>3. j * m <= FileLen
          BY <3>1, <3>2, <1>1, <1>2
    <3>   QED BY <3>3, <2>1, <1>1
  <2>3. CASE j = q
    <3>1. CASE j * m <= FileLen
          BY <3>1, <2>1, <2>3, <1>1
    <3>2. CASE ~ (j * m <= FileLen)
      <4>1. m * q = j * m /\ j * m \in Int /\ j \in Nat \ {0}
            BY <2>3, <1>1, <1>2
      <4>2. r + 1 \in 1 .. m - 1
            BY <3>2, <4>1, <1>1, <1>2
      <4> DEFINE x == q - 1
                 y == r + 1
      <4>3. x \in Nat /\ y \in 0 .. m - 1 /\ q = x + 1 /\ y = r + 1
            BY <4>1, <4>2, <2>3
      <4>   HIDE DEF x, y
      <4>4. m * q = (m * x) + m /\ m * x \in Int
            BY <4>3, <1>1
      <4>5. FileLen = (m * x) + y
            BY <4>3, <4>4, <1>1, <1>2
      <4>6. FileLen % m = r + 1
        <5>1. \A n \in Nat : \A k \in 0 .. m - 1 : FileLen = (m * n) + k => FileLen % m = k
              BY <1>1, Quotient
        <5>2. FileLen % m = y
              BY <4>3, <4>5, <5>1, Zenon
        <5>   QED BY <4>3, <5>2
      <4>   QED BY <4>2, <4>6, <3>2, <2>1, <2>3, <1>1
    <3>   QED BY <3>1, <3>2
  <2>   QED BY <2>2, <2>3, <1>2
<1>   QED BY <1>2, <1>3 DEF Chunks, m, q

\* Their sequence numbers: one chunk ends where the next begins, behind the name.
LEMMA ChunkNumbers ==
    /\ \A j \in Chunks : Seqno(j) \in Nat /\ Seqno(j) >= 1 + NameLen /\ End(j) \in Nat
    /\ \A j, k \in Chunks : j < k => Seqno(j) + MTU <= Seqno(k)
    /\ \A j, k \in Chunks : k = j + 1 => End(j) = Seqno(k)
    /\ 1 \in Chunks => Seqno(1) = 1 + NameLen
<1> USE ShamAssumption, ChunkSizes DEF Chunks
<1>1. MTU \in Nat \ {0} /\ NameLen \in Nat \ {0} /\ NChunks \in Nat
      OBVIOUS
<1>2. ASSUME NEW j \in Chunks PROVE Seqno(j) \in Nat /\ Seqno(j) >= 1 + NameLen /\ End(j) \in Nat
  <2>1. (j - 1) * MTU \in Nat /\ Size(j) \in Nat
        BY <1>1
  <2>   QED BY <2>1, <1>1 DEF Seqno, End
<1>3. ASSUME NEW j \in Chunks, NEW k \in Chunks, j < k PROVE Seqno(j) + MTU <= Seqno(k)
  <2>1. j \in Nat /\ k \in Nat /\ j <= k - 1
        BY <1>3
  <2>2. j * MTU <= (k - 1) * MTU /\ j * MTU = ((j - 1) * MTU) + MTU
        BY <2>1, <1>1
  <2>   QED BY <2>1, <2>2, <1>1 DEF Seqno
<1>4. ASSUME NEW j \in Chunks, NEW k \in Chunks, k = j + 1 PROVE End(j) = Seqno(k)
  <2>1. Size(j) = MTU
        BY <1>4
  <2>2. j \in Nat /\ (j - 1) * MTU \in Int /\ j * MTU = ((j - 1) * MTU) + MTU
        BY <1>1
  <2>   QED BY <2>1, <2>2, <1>1, <1>4 DEF Seqno, End
<1>5. Seqno(1) = 1 + NameLen
      BY <1>1 DEF Seqno
<1>   QED BY <1>2, <1>3, <1>4, <1>5

-----------------------------------------------------------------------------
(* Packets and channels. *)

FileData == {Data(j) : j \in Chunks}
ClientAcks == [kind : {"ACK"}, seq : {0, 1}, ack : Nat, len : {0}, win : {0}]

\* What the client sends until it has read the whole file, and what it sends at all.
BeforeFin == {Syn, Name} \cup FileData \cup ClientAcks
Outgoing == BeforeFin \cup {Fin(FileEnd)}

\* What the server sends while it waits for chunk after chunk: nothing is
\* acknowledged beyond the number it expects.
Answers(e) == {p \in Packets : p.kind \in {"ACK", "SYNACK"} => p.ack <= e \/ p.ack <= 1}

\* Whatever is sent over a channel and read from it is in the same set of packets.
LEMMA SentKeeps ==
    ASSUME NEW S, NEW ch \in Seq(S), NEW pkts \in Seq(S)
    PROVE  Sent(ch, pkts) \in Seq(S) /\ Len(Sent(ch, pkts)) <= ChannelCap
<1> USE ShamAssumption
<1>1. ch \o pkts \in Seq(S) /\ Len(ch \o pkts) = Len(ch) + Len(pkts)
      OBVIOUS
<1> DEFINE n == Least(Len(ch) + Len(pkts), ChannelCap)
<1>2. n \in Nat /\ n <= Len(ch) + Len(pkts) /\ n <= ChannelCap
      BY DEF Least
<1> HIDE DEF n
<1>3. SubSeq(ch \o pkts, 1, n) \in Seq(S) /\ Len(SubSeq(ch \o pkts, 1, n)) = n
      BY <1>1, <1>2, SMTT(20)
<1>   QED BY <1>2, <1>3 DEF Sent, n

\* The network makes up no packets, and no room either.
LEMMA DisturbedKeeps ==
    ASSUME NEW S, NEW ch \in Seq(S), Len(ch) <= ChannelCap, NEW d \in Disturbed(ch)
    PROVE  d \in Seq(S) /\ Len(d) <= ChannelCap
<1> USE ShamAssumption
<1>1. ASSUME NEW k \in DOMAIN ch, d = RemoveAt(ch, k) PROVE d \in Seq(S) /\ Len(d) <= ChannelCap
  <2>1. SubSeq(ch, 1, k - 1) \in Seq(S) /\ Len(SubSeq(ch, 1, k - 1)) = k - 1
        OBVIOUS
  <2>2. SubSeq(ch, k + 1, Len(ch)) \in Seq(S) /\ Len(SubSeq(ch, k + 1, Len(ch))) = Len(ch) - k
    <3>1. CASE k = Len(ch)
          BY <3>1
    <3>2. CASE k < Len(ch)
      <4>1. \A n \in k + 1 .. Len(ch) : ch[n] \in S
            OBVIOUS
      <4>   QED BY <3>2, <4>1, SMTT(20)
    <3>   QED BY <3>1, <3>2, SMTT(20)
  <2>3. \A s, t \in Seq(S) : s \o t \in Seq(S) /\ Len(s \o t) = Len(s) + Len(t)
        OBVIOUS
  <2>4. d = SubSeq(ch, 1, k - 1) \o SubSeq(ch, k + 1, Len(ch))
        BY <1>1 DEF RemoveAt
  <2>5. d \in Seq(S)
        BY <2>1, <2>2, <2>3, <2>4
  <2>6. Len(d) = (k - 1) + (Len(ch) - k)
        BY <2>1, <2>2, <2>3, <2>4
  <2>   QED BY <2>5, <2>6, SMTT(20)
<1>2. ASSUME NEW k \in DOMAIN ch, d = Sent(ch, <<ch[k]>>) PROVE d \in Seq(S) /\ Len(d) <= ChannelCap
  <2>1. <<ch[k]>> \in Seq(S)
        OBVIOUS
  <2>   QED BY <1>2, <2>1, SentKeeps
<1>3. ASSUME NEW k \in 1 .. Len(ch) - 1, d = Swapped(ch, k) PROVE d \in Seq(S) /\ Len(d) <= ChannelCap
      BY <1>3, SMTT(20) DEF Swapped
<1>   QED BY <1>1, <1>2, <1>3 DEF Disturbed, Lost

\* What is retransmitted are the chunks of the slots that are due, one packet for each.
LEMMA ResentIsData ==
    ASSUME NEW slots, NEW due \in SUBSET {k \in 1 .. MAX_INFLIGHT : slots[k] \in Chunks}
    PROVE  /\ Resent(slots, due) \in Seq({Data(slots[k]) : k \in due})
           /\ Resent(slots, due) \in Seq(FileData)
           /\ Len(Resent(slots, due)) = Cardinality(due)
<1> DEFINE M == MAX_INFLIGHT
           D == {Data(slots[k]) : k \in due}
           Upto(k) == due \cap (1 .. k)
           Lists(s, N) == s = [k \in 0 .. N |-> IF k = 0 THEN <<>>
                                                ELSE IF k \in due THEN Append(s[k - 1], Data(slots[k]))
                                                ELSE s[k - 1]]
           Typed(s, N) == \A k \in 0 .. N : s[k] \in Seq(D) /\ Len(s[k]) = Cardinality(Upto(k))
           Bad == {N \in Nat : N <= M /\ ~ \E s : Lists(s, N) /\ Typed(s, N)}
<1>a. Cardinality(Upto(0)) = 0
  <2>1. Upto(0) = {}
        OBVIOUS
  <2>   QED BY <2>1, FS_EmptySet
<1>b. ASSUME NEW k \in Nat \ {0}
      PROVE  /\ Cardinality(Upto(k)) = Cardinality(Upto(k - 1)) + (IF k \in due THEN 1 ELSE 0)
             /\ Cardinality(Upto(k - 1)) \in Nat
  <2>1. IsFiniteSet(Upto(k - 1))
    <3>1. IsFiniteSet(1 .. k - 1)
          BY FS_Interval
    <3>   QED BY <3>1, FS_Subset
  <2>2. CASE k \in due
    <3>1. Upto(k) = Upto(k - 1) \cup {k} /\ k \notin Upto(k - 1)
          BY <2>2
    <3>2. Cardinality(Upto(k - 1) \cup {k}) = Cardinality(Upto(k - 1)) + 1
          BY <2>1, <3>1, FS_AddElement
    <3>   QED BY <2>1, <2>2, <3>1, <3>2, FS_CardinalityType
  <2>3. CASE k \notin due
    <3>1. Upto(k) = Upto(k - 1)
          BY <2>3
    <3>2. Cardinality(Upto(k - 1)) \in Nat
          BY <2>1, FS_CardinalityType
    <3> HIDE DEF Upto
    <3>   QED BY <2>3, <3>1, <3>2
  <2>   QED BY <2>2, <2>3
<1>c. \A k \in due : Data(slots[k]) \in D
      OBVIOUS
<1> HIDE DEF D, Upto
<1>1. Bad = {}
  <2> SUFFICES ASSUME Bad # {} PROVE FALSE
      OBVIOUS
  <2>1. PICK N \in Nat : N \in Bad /\ \A n \in Bad : N <= n
        BY LeastNumber
  <2>2. CASE N = 0
    <3> DEFINE s == [k \in 0 .. 0 |-> <<>>]
    <3>1. Lists(s, 0) /\ Typed(s, 0)
          BY <1>a
    <3>   QED BY <3>1, <2>1, <2>2
  <2>3. CASE N # 0
    <3>1. PICK s : Lists(s, N - 1) /\ Typed(s, N - 1)
      <4> HIDE DEF Lists, Typed
      <4>1. N - 1 \in Nat /\ N <= M
            BY <2>1, <2>3
      <4> HIDE DEF Bad
      <4>2. N - 1 \notin Bad
            BY <2>1, <4>1
      <4>3. M \in Nat
            BY ShamAssumption
      <4>   QED BY <4>1, <4>2, <4>3 DEF Bad
    <3> DEFINE last == IF N \in due THEN Append(s[N - 1], Data(slots[N])) ELSE s[N - 1]
               t == [k \in 0 .. N |-> IF k = N THEN last ELSE s[k]]
    <3>2. last \in Seq(D) /\ Len(last) = Cardinality(Upto(N))
      <4>1. s[N - 1] \in Seq(D) /\ Len(s[N - 1]) = Cardinality(Upto(N - 1))
            BY <3>1, <2>3
      <4>2. Cardinality(Upto(N)) = Cardinality(Upto(N - 1)) + (IF N \in due THEN 1 ELSE 0)
            BY <1>b, <2>3
      <4>   QED BY <4>1, <4>2, <1>c
    <3>3. \A k \in 0 .. N : t[k] = IF k = 0 THEN <<>>
                                   ELSE IF k \in due THEN Append(t[k - 1], Data(slots[k]))
                                   ELSE t[k - 1]
      <4> SUFFICES ASSUME NEW k \in 0 .. N
                   PROVE  t[k] = IF k = 0 THEN <<>>
                                 ELSE IF k \in due THEN Append(t[k - 1], Data(slots[k]))
                                 ELSE t[k - 1]
          OBVIOUS
      <4>1. CASE k = N
            BY <4>1, <2>3
      <4>2. CASE k # N
        <5>1. k \in 0 .. N - 1 /\ t[k] = s[k] /\ (k # 0 => t[k - 1] = s[k - 1])
              BY <4>2
        <5>   QED BY <5>1, <3>1
      <4>   QED BY <4>1, <4>2
    <3> HIDE DEF last
    <3>4. Lists(t, N)
          BY <3>3
    <3>5. Typed(t, N)
          BY <3>1, <3>2
    <3>   QED BY <3>4, <3>5, <2>1
  <2>   QED BY <2>2, <2>3
<1>2. M \in Nat
      BY ShamAssumption
<1>3. PICK s : Lists(s, M) /\ Typed(s, M)
  <2> HIDE DEF Lists, Typed, M
  <2>   QED BY <1>1, <1>2
<1>4. Resends(slots, due) = CHOOSE r : Lists(r, M)
      BY DEF Resends
<1>5. \A r : Lists(r, M) => Typed(r, M)
  <2> SUFFICES ASSUME NEW r, Lists(r, M) PROVE Typed(r, M)
      OBVIOUS
  <2> DEFINE Odd == {k \in Nat : k <= M /\ r[k] # s[k]}
  <2>1. Odd = {}
    <3> SUFFICES ASSUME Odd # {} PROVE FALSE
        OBVIOUS
    <3>1. PICK k \in Nat : k \in Odd /\ \A n \in Odd : k <= n
          BY LeastNumber
    <3>2. r[0] = <<>> /\ s[0] = <<>>
          BY <1>2, <1>3
    <3>3. k # 0 /\ k <= M /\ k \in 0 .. M
          BY <3>1, <3>2, <1>2
    <3>4. k - 1 \in Nat /\ k - 1 <= M
          BY <3>3, <1>2
    <3> HIDE DEF M
    <3>5. r[k - 1] = s[k - 1]
          BY <3>1, <3>4
    <3>6. /\ r[k] = IF k \in due THEN Append(r[k - 1], Data(slots[k])) ELSE r[k - 1]
          /\ s[k] = IF k \in due THEN Append(s[k - 1], Data(slots[k])) ELSE s[k - 1]
          BY <3>3, <1>3
    <3>   QED BY <3>1, <3>5, <3>6
  <2>2. \A k \in 0 .. M : r[k] = s[k]
    <3> SUFFICES ASSUME NEW k \in 0 .. M PROVE r[k] = s[k]
        OBVIOUS
    <3>1. k \in Nat /\ k <= M
          BY <1>2
    <3> HIDE DEF M, Odd
    <3>2. k \notin Odd
          BY <2>1
    <3>   QED BY <3>1, <3>2 DEF Odd
  <2>   QED BY <2>2, <1>3
<1> HIDE DEF Lists
<1>6. Lists(Resends(slots, due), M)
      BY <1>3, <1>4
<1>7. Resent(slots, due) \in Seq(D) /\ Len(Resent(slots, due)) = Cardinality(Upto(M))
      BY <1>2, <1>5, <1>6 DEF Resent
<1>8. Upto(M) = due
      BY DEF Upto
<1>9. D \subseteq FileData
      BY DEF D, FileData
<1>10. Resent(slots, due) \in Seq(FileData)
      BY <1>7, <1>9
<1>   QED BY <1>7, <1>8, <1>10 DEF D

-----------------------------------------------------------------------------
(* Chunks that arrive. *)

\* A chunk in order, and the buffered ones behind it, are the chunks from it to
\* some chunk, and all of them but the first are buffered.
LEMMA InOrderRun ==
    ASSUME NEW b \in [Chunks -> Nat], NEW j \in Chunks
    PROVE  LET here == {k \in Chunks : Seqno(k) = Seqno(j)}
               run == Following(b, End(j))
           IN  \E m \in j .. NChunks :
                   /\ here = {j} /\ run = j + 1 .. m
                   /\ InARow(here \cup run) = [n \in 1 .. m + 1 - j |-> j + n - 1]
                   /\ (IF run = {} THEN End(j) ELSE End(Max(run))) = End(m)
                   /\ \A k \in run : b[k] > 0
<1> DEFINE here == {k \in Chunks : Seqno(k) = Seqno(j)}
           run == Following(b, End(j))
           Ends(m) == /\ here = {j} /\ run = j + 1 .. m
                      /\ InARow(here \cup run) = [n \in 1 .. m + 1 - j |-> j + n - 1]
                      /\ (IF run = {} THEN End(j) ELSE End(Max(run))) = End(m)
                      /\ \A k \in run : b[k] > 0
<1> SUFFICES \E m \in j .. NChunks : Ends(m)
    OBVIOUS
<1>0. NChunks \in Nat /\ MTU \in Nat \ {0} /\ j \in Nat /\ j >= 1 /\ j <= NChunks
      BY ShamAssumption, ChunkSizes DEF Chunks
<1>1. \A k, l \in Chunks : Seqno(k) <= Seqno(l) <=> k <= l
  <2> SUFFICES ASSUME NEW k \in Chunks, NEW l \in Chunks PROVE Seqno(k) <= Seqno(l) <=> k <= l
      OBVIOUS
  <2>1. k \in Nat /\ l \in Nat /\ Seqno(k) \in Nat /\ Seqno(l) \in Nat
        BY ChunkNumbers, <1>0 DEF Chunks
  <2>2. k < l => Seqno(k) + MTU <= Seqno(l)
        BY ChunkNumbers
  <2>3. l < k => Seqno(l) + MTU <= Seqno(k)
        BY ChunkNumbers
  <2>   QED BY <1>0, <2>1, <2>2, <2>3
<1>2. here = {j}
  <2>1. ASSUME NEW k \in here PROVE k = j
    <3>1. Seqno(k) <= Seqno(j) /\ Seqno(j) <= Seqno(k) /\ k \in Nat
          BY ChunkNumbers DEF Chunks
    <3>   QED BY <3>1, <1>0, <1>1
  <2>   QED BY <2>1
<1>3. CASE j = NChunks
  <2>1. run = {}
    <3>1. ASSUME NEW k \in Chunks PROVE Seqno(k) # End(j)
      <4>1. Seqno(k) <= Seqno(j) /\ Seqno(k) \in Nat /\ Seqno(j) \in Nat
            BY <1>1, <1>3, ChunkNumbers, <1>0 DEF Chunks
      <4>2. Size(j) \in 1 .. MTU
            BY ChunkSizes
      <4>   QED BY <4>1, <4>2, <1>0 DEF End
    <3>   QED BY <3>1 DEF Following
  <2>2. run = j + 1 .. j /\ j \in j .. NChunks /\ here \cup run = {j}
        BY <2>1, <1>0, <1>2
  <2>3. InARow({j}) = [n \in 1 .. j + 1 - j |-> j + n - 1]
    <3>1. Max({j}) = j /\ Min({j}) = j
          BY <1>0, GreatestNumber
    <3>   QED BY <3>1 DEF InARow
  <2> HIDE DEF here, run
  <2>4. Ends(j)
        BY <1>2, <2>1, <2>2, <2>3
  <2>   QED BY <2>2, <2>4
<1>4. CASE j < NChunks
  <2>1. j + 1 \in Chunks /\ End(j) = Seqno(j + 1)
        BY <1>4, <1>0, ChunkNumbers DEF Chunks
  <2>2. run = {k \in Chunks : k >= j + 1 /\ \A l \in Chunks : (j + 1 <= l /\ l <= k) => b[l] > 0}
        BY <2>1, <1>1, <1>0 DEF Following, Chunks
  <2> HIDE DEF run
  <2>3. PICK m \in j .. NChunks : run = j + 1 .. m
    <3>1. CASE run = {}
      <4>1. j + 1 .. j = {} /\ j \in j .. NChunks
            BY <1>0
      <4>   QED BY <3>1, <4>1
    <3>2. CASE run # {}
      <4>1. run \subseteq 1 .. NChunks
            BY <2>2 DEF Chunks
      <4>2. Max(run) \in run /\ \A k \in run : k <= Max(run)
            BY <4>1, <3>2, <1>0, GreatestNumber
      <4>3. Max(run) \in j .. NChunks
            BY <4>2, <4>1, <2>2, <1>0
      <4>4. ASSUME NEW k \in j + 1 .. Max(run) PROVE k \in run
        <5>1. k \in Chunks /\ Max(run) \in Chunks /\ k \in Nat
              BY <4>3, <1>0 DEF Chunks
        <5>2. \A l \in Chunks : (j + 1 <= l /\ l <= k) => l <= Max(run)
              BY <5>1, <1>0 DEF Chunks
        <5>3. \A l \in Chunks : (j + 1 <= l /\ l <= Max(run)) => b[l] > 0
              BY <4>2, <2>2
        <5>   QED BY <5>1, <5>2, <5>3, <2>2
      <4>5. run \subseteq j + 1 .. Max(run)
            BY <4>2, <4>1, <2>2, <1>0
      <4>   QED BY <4>3, <4>4, <4>5
    <3>   QED BY <3>1, <3>2
  <2>4. here \cup run = j .. m
        BY <2>3, <1>2, <1>0
  <2>5. Max(j .. m) = m /\ Min(j .. m) = j
    <3>1. j .. m \subseteq 1 .. NChunks /\ j .. m # {} /\ j \in j .. m /\ m \in j .. m
          BY <1>0
    <3>2. /\ Max(j .. m) \in j .. m /\ \A k \in j .. m : k <= Max(j .. m)
          /\ Min(j .. m) \in j .. m /\ \A k \in j .. m : Min(j .. m) <= k
          BY <3>1, <1>0, GreatestNumber
    <3>   QED BY <3>1, <3>2, <1>0
  <2>6. InARow(j .. m) = [n \in 1 .. m + 1 - j |-> j + n - 1]
    <3>1. j \in j .. m
          BY <1>0
    <3>   QED BY <2>5, <3>1 DEF InARow
  <2>7. run = {} => m = j
        BY <2>3, <1>0
  <2>8. run # {} => Max(run) = m
    <3> SUFFICES ASSUME run # {} PROVE Max(run) = m
        OBVIOUS
    <3>1. run \subseteq 1 .. NChunks /\ m \in run
          BY <2>3, <1>0
    <3>2. Max(run) \in run /\ \A k \in run : k <= Max(run)
          BY <3>1, <1>0, GreatestNumber
    <3>   QED BY <3>1, <3>2, <2>3, <1>0
  <2>9. \A k \in run : b[k] > 0
        BY <2>2, <1>0 DEF Chunks
  <2> HIDE DEF here
  <2>10. Ends(m)
        BY <1>2, <2>3, <2>4, <2>6, <2>7, <2>8, <2>9
  <2>   QED BY <2>10
<1> HIDE DEF Ends
<1>   QED BY <1>0, <1>3, <1>4

-----------------------------------------------------------------------------
(* The inductive invariant. *)

Over == {"closing", "exit"}

\* There are never more chunks buffered than places for them.
RoomOK == Copies(bufs) <= MAX_BUF_PKTS

\* No FIN is under way before the client has read the file, and until then the
\* server acknowledges what it has.
ChannelsOK == /\ c2s \in Seq(IF client \in Over THEN Outgoing ELSE BeforeFin)
              /\ client \notin Over => s2c \in Seq(Answers(expected))

\* The server expects nothing before the name, no beginning of the name itself
\* after it, and it takes leave only of a client that has.
ServerOK == /\ server \in {"listen", "await_ack", "name"} => expected = 0 /\ out = <<>>
            /\ server \in {"data", "last", "exit"} => expected >= 2
            /\ server \in {"last", "exit"} => client \in Over

\* The file ends where the next chunk begins; if nothing was written yet, that
\* chunk is the first one or will never come.
OutOK == /\ WrittenInOrder /\ Len(out) <= NChunks
         /\ out = <<>> /\ server = "data" => \A j \in Chunks : Seqno(j) = expected => j = 1

\* The count of bytes in flight may be old, but never too small.
WindowOK == InFlight(slot) <= in_flight_bytes

\* A slot is cleared only when the server expects what comes after its chunk.
CopiesOK == \A j \in 1 .. sent : (\A k \in 1 .. MAX_INFLIGHT : slot[k] # j) => End(j) <= expected

IInv == TypeOK /\ RoomOK /\ ChannelsOK /\ ServerOK /\ OutOK /\ CopiesOK /\ WindowOK

-----------------------------------------------------------------------------
(* What the handlers do, in the terms of the invariant. *)

\* What the client sends are packets.
LEMMA OutgoingPackets ==
    /\ Syn \in BeforeFin /\ Name \in BeforeFin /\ \A j \in Chunks : Data(j) \in BeforeFin
    /\ \A a \in Nat : Ack(1, a, 0) \in BeforeFin /\ Ack(0, a, 0) \in BeforeFin
    /\ Fin(FileEnd) \in Outgoing
    /\ BeforeFin \subseteq Outgoing /\ Outgoing \subseteq Packets
<1> USE ShamAssumption DEF Pkt
<1>1. Syn \in BeforeFin /\ Name \in BeforeFin /\ \A j \in Chunks : Data(j) \in BeforeFin
      BY DEF BeforeFin, FileData
<1>2. ASSUME NEW a \in Nat PROVE Ack(1, a, 0) \in ClientAcks /\ Ack(0, a, 0) \in ClientAcks
      BY DEF Ack, ClientAcks
<1>3. ClientAcks \subseteq Packets
      BY DEF ClientAcks, Packets, Kinds
<1>4. ASSUME NEW j \in Chunks PROVE Data(j) \in Packets
      BY ChunkNumbers, ChunkSizes DEF Data, Packets, Kinds
<1>5. FileEnd \in Nat
      BY DEF FileEnd
<1>6. Syn \in Packets /\ Name \in Packets /\ Fin(FileEnd) \in Packets
      BY <1>5 DEF Syn, Name, Fin, Packets, Kinds
<1>   QED BY <1>1, <1>2, <1>3, <1>4, <1>6 DEF BeforeFin, Outgoing, FileData

\* What comes with a sequence number behind the name is a chunk.
LEMMA ChunkByNumber ==
    ASSUME NEW p \in Outgoing, p.kind # "FIN", p.seq >= 2
    PROVE  \E j \in Chunks : p = Data(j)
BY DEF Outgoing, BeforeFin, FileData, ClientAcks, Syn, Name, Fin, Pkt

\* Only DATA has a payload.
LEMMA PayloadByKind ==
    ASSUME NEW p \in Outgoing, p.len # 0
    PROVE  p = Name \/ \E j \in Chunks : p = Data(j)
BY DEF Outgoing, BeforeFin, FileData, ClientAcks, Syn, Name, Fin, Pkt

\* A packet for the server leaves its socket buffer with packets of the same kind.
LEMMA ToServerKeeps ==
    ASSUME NEW S, c2s \in Seq(S), NEW pkts \in Seq(S), ToServer(pkts)
    PROVE  c2s' \in Seq(S) /\ Len(c2s') <= ChannelCap
<1>1. Sent(c2s, pkts) \in Seq(S) /\ Len(Sent(c2s, pkts)) <= ChannelCap
      BY SentKeeps
<1>2. <<>> \in Seq(S) /\ Len(<<>>) <= ChannelCap
      BY ShamAssumption
<1>   QED BY <1>1, <1>2 DEF ToServer

\* A packet for the client leaves its socket buffer with packets of the same kind.
LEMMA ToClientKeeps ==
    ASSUME NEW S, s2c \in Seq(S), NEW pkts \in Seq(S), ToClient(pkts)
    PROVE  s2c' \in Seq(S) /\ Len(s2c') <= ChannelCap
<1>1. Sent(s2c, pkts) \in Seq(S) /\ Len(Sent(s2c, pkts)) <= ChannelCap
      BY SentKeeps
<1>   QED BY <1>1 DEF ToClient

\* The chunk that is expected is the one behind what is written.
LEMMA NextChunk ==
    ASSUME OutOK, out \in Seq(Chunks), server = "data", NEW j \in Chunks, Seqno(j) = expected
    PROVE  Len(out) = j - 1
<1>0. NChunks \in Nat /\ j \in 1 .. NChunks /\ MTU \in Nat \ {0}
      BY ChunkSizes, ShamAssumption DEF Chunks
<1>1. CASE out = <<>>
      BY <1>1 DEF OutOK
<1>2. CASE out # <<>>
  <2> DEFINE l == Len(out)
  <2>1. l \in Chunks /\ End(l) = Seqno(j) /\ l \in Nat
        BY <1>2, <1>0 DEF OutOK, WrittenInOrder, Chunks
  <2> HIDE DEF l
  <2>2. Seqno(l) \in Nat /\ Seqno(j) \in Nat /\ Size(l) \in 1 .. MTU
        BY <2>1, ChunkNumbers, ChunkSizes
  <2>3. Seqno(l) < Seqno(j)
        BY <2>1, <2>2, <1>0 DEF End
  <2>4. ~ j <= l
    <3>1. j < l => Seqno(j) + MTU <= Seqno(l)
          BY <2>1, ChunkNumbers
    <3>   QED BY <3>1, <2>1, <2>2, <2>3, <1>0
  <2>5. ~ l + 1 < j
    <3> SUFFICES ASSUME l + 1 < j PROVE FALSE
        OBVIOUS
    <3>1. l + 1 \in Chunks
          BY <2>1, <1>0 DEF Chunks
    <3>2. Seqno(l + 1) = Seqno(j) /\ Seqno(l + 1) + MTU <= Seqno(j)
          BY <2>1, <3>1, ChunkNumbers
    <3>   QED BY <3>2, <2>2, <1>0
  <2>   QED BY <2>1, <2>4, <2>5, <1>0 DEF l
<1>   QED BY <1>1, <1>2

\* A packet for the open file: it and what was buffered behind it are written,
\* or it is buffered, if there is room, or it is dropped.
WritesTo(j, m) ==
    /\ Seqno(j) = expected /\ Len(out) = j - 1
    /\ out' = out \o [n \in 1 .. m + 1 - j |-> j + n - 1] /\ expected' = End(m)
    /\ bufs' = [k \in Chunks |-> IF k \in j + 1 .. m THEN bufs[k] - 1 ELSE bufs[k]]
    /\ \A k \in j + 1 .. m : bufs[k] > 0

\* What ReceiveData does with the packet at hand.
LEMMA DataArrives ==
    ASSUME IInv, ReceiveData
    PROVE  \/ \E j \in Chunks : \E m \in j .. NChunks : WritesTo(j, m)
           \/ /\ UNCHANGED <<out, expected>>
              /\ \/ bufs' = bufs
                 \/ HasRoom(bufs) /\ \E j \in Chunks : bufs' = [bufs EXCEPT ![j] = @ + 1]
<1> DEFINE p == Head(c2s)
           here == {j \in Chunks : Seqno(j) = p.seq}
           run == Following(bufs, p.seq + p.len)
<1>1. /\ c2s # <<>> /\ p \in Outgoing /\ p.kind # "FIN" /\ p.seq \in Nat /\ server = "data"
      /\ bufs \in [Chunks -> Nat] /\ out \in Seq(Chunks) /\ expected \in Nat /\ expected >= 2
  <2>1. c2s \in Seq(Outgoing)
        BY OutgoingPackets DEF IInv, ChannelsOK
  <2>2. p \in Outgoing /\ p \in Packets
        BY <2>1, OutgoingPackets DEF ReceiveData, Take
  <2>3. c2s # <<>> /\ p.kind # "FIN" /\ server = "data"
        BY DEF ReceiveData, Take
  <2>4. p.seq \in Nat
        BY <2>2 DEF Packets
  <2>5. bufs \in [Chunks -> Nat]
        BY ShamAssumption DEF IInv, TypeOK
  <2>6. out \in Seq(Chunks) /\ expected \in Nat /\ expected >= 2
        BY <2>3 DEF IInv, TypeOK, ServerOK
  <2>   QED BY <2>2, <2>3, <2>4, <2>5, <2>6
<1>2. CASE p.seq = expected
  <2>1. PICK j \in Chunks : p = Data(j)
        BY <1>1, <1>2, ChunkByNumber
  <2>2. p.seq = Seqno(j) /\ p.seq + p.len = End(j)
        BY <2>1 DEF Data, Pkt, End
  <2>3. PICK m \in j .. NChunks :
               /\ here = {j} /\ run = j + 1 .. m
               /\ InARow(here \cup run) = [n \in 1 .. m + 1 - j |-> j + n - 1]
               /\ (IF run = {} THEN End(j) ELSE End(Max(run))) = End(m)
               /\ \A k \in run : bufs[k] > 0
    <3>1. here = {k \in Chunks : Seqno(k) = Seqno(j)} /\ run = Following(bufs, End(j))
          BY <2>2
    <3> HIDE DEF here, run, p
    <3>   QED BY <1>1, <3>1, InOrderRun
  <2>4. /\ out' = out \o InARow(here \cup run)
        /\ bufs' = [k \in Chunks |-> IF k \in run THEN bufs[k] - 1 ELSE bufs[k]]
        /\ expected' = IF run = {} THEN p.seq + p.len ELSE End(Max(run))
        BY <1>1, <1>2 DEF ReceiveData
  <2>5. Len(out) = j - 1
        BY <1>1, <1>2, <2>2, NextChunk DEF IInv
  <2> HIDE DEF here, run, p
  <2>6. WritesTo(j, m)
        BY <2>2, <2>3, <2>4, <2>5, <1>2 DEF WritesTo
  <2>   QED BY <2>6
<1>3. CASE p.seq > expected
  <2>1. /\ UNCHANGED <<out, expected>>
        /\ bufs' = [j \in Chunks |-> IF j \in here /\ HasRoom(bufs) THEN bufs[j] + 1 ELSE bufs[j]]
        BY <1>1, <1>3 DEF ReceiveData
  <2>2. PICK j \in Chunks : p = Data(j)
        BY <1>1, <1>3, ChunkByNumber
  <2>3. here = {j}
    <3>1. p.seq = Seqno(j)
          BY <2>2 DEF Data, Pkt
    <3>   QED BY <3>1, <1>1, InOrderRun
  <2> HIDE DEF here
  <2>4. CASE HasRoom(bufs)
    <3>1. bufs' = [bufs EXCEPT ![j] = @ + 1]
          BY <2>1, <2>3, <2>4, <1>1
    <3>   QED BY <3>1, <2>1, <2>4
  <2>5. CASE ~HasRoom(bufs)
    <3>1. bufs' = bufs
          BY <2>1, <2>5, <1>1
    <3>   QED BY <3>1, <2>1
  <2>   QED BY <2>4, <2>5
<1>4. CASE p.seq < expected
      BY <1>1, <1>4 DEF ReceiveData
<1>   QED BY <1>1, <1>2, <1>3, <1>4

\* Only a name and a chunk change what the server has.
LEMMA ServerSteps ==
    ASSUME [Next]_vars
    PROVE  \/ UNCHANGED svars
           \/ ReceiveName \/ ReceiveData
           \/ /\ UNCHANGED <<expected, bufs, out, client>>
              /\ \/ server \in {"listen", "await_ack"} /\ server' \in {"listen", "await_ack", "name"}
                 \/ ReceiveFin
                 \/ server = "last" /\ server' = "exit"
<1>1. CASE Client
      BY <1>1 DEF Client, Connect, Connected, SkipUsed, SendChunk, WindowFull, Finish, PollTimeout,
                  PollReceive, RetransmitAndNext, ClosingTimeout, ClosingReceive, svars
<1>2. CASE Listen
      BY <1>2 DEF Listen, Others, cvars
<1>3. CASE AwaitAck
      BY <1>3 DEF AwaitAck, Others, cvars
<1>4. CASE ReceiveFin
      BY <1>4 DEF ReceiveFin, Others, cvars
<1>5. CASE ReceiveLast
      BY <1>5 DEF ReceiveLast, Others, cvars
<1>6. CASE Network \/ UNCHANGED vars
      BY <1>6 DEF Network, vars
<1>   QED BY <1>1, <1>2, <1>3, <1>4, <1>5, <1>6 DEF Next, Server

\* A name or a chunk in its place: what the server expects only grows.
LEMMA ExpectedGrows == IInv /\ [Next]_vars => expected' \in Nat /\ expected' >= expected
<1> SUFFICES ASSUME IInv, [Next]_vars PROVE expected' \in Nat /\ expected' >= expected
    OBVIOUS
<1>0. expected \in Nat
      BY DEF IInv, TypeOK
<1>1. CASE ReceiveName
  <2> DEFINE p == Head(c2s)
  <2>1. expected = 0 /\ p \in Packets
        BY <1>1 DEF IInv, ServerOK, ReceiveName, Take, TypeOK
  <2>2. NameKept(p.len) \in Nat /\ p.seq \in Nat
        BY <2>1, ShamAssumption DEF Packets, NameKept, Least
  <2>3. expected' = expected \/ expected' = p.seq + NameKept(p.len)
        BY <1>1 DEF ReceiveName
  <2>   QED BY <1>0, <2>1, <2>2, <2>3
<1>2. CASE ReceiveData
  <2>1. ASSUME NEW j \in Chunks, NEW m \in j .. NChunks, WritesTo(j, m)
        PROVE  expected' \in Nat /\ expected' >= expected
    <3>1. m \in Chunks /\ j \in Nat /\ m \in Nat /\ MTU \in Nat
          BY ChunkSizes, ShamAssumption DEF Chunks
    <3>2. Seqno(j) <= Seqno(m)
      <4>1. j < m => Seqno(j) + MTU <= Seqno(m)
            BY <3>1, ChunkNumbers
      <4>   QED BY <4>1, <3>1, ChunkNumbers
    <3>3. Seqno(m) \in Nat /\ Size(m) \in Nat /\ Seqno(j) \in Nat
          BY <3>1, ChunkNumbers, ChunkSizes
    <3>   QED BY <2>1, <3>2, <3>3 DEF WritesTo, End
  <2>   QED BY <2>1, <1>0, <1>2, DataArrives
<1>   QED BY <1>0, <1>1, <1>2, ServerSteps DEF svars

\* Every copy has a place of its own in bufs[].
LEMMA RoomKept ==
    IInv /\ [Next]_vars => RoomOK' /\ bufs' \in [Chunks -> 0 .. MAX_BUF_PKTS]
<1> SUFFICES ASSUME IInv, [Next]_vars PROVE RoomOK' /\ bufs' \in [Chunks -> 0 .. MAX_BUF_PKTS]
    OBVIOUS
<1>a. NChunks \in Nat /\ Chunks = 1 .. NChunks /\ MAX_BUF_PKTS \in Nat
      BY ShamAssumption, ChunkSizes DEF Chunks
<1>0. /\ bufs \in [1 .. NChunks -> Nat] /\ bufs \in [Chunks -> 0 .. MAX_BUF_PKTS]
      /\ Sum(bufs, NChunks) <= MAX_BUF_PKTS /\ Sum(bufs, NChunks) \in Nat
  <2>1. bufs \in [1 .. NChunks -> Nat] /\ bufs \in [Chunks -> 0 .. MAX_BUF_PKTS]
        BY <1>a DEF IInv, TypeOK
  <2>2. Sum(bufs, NChunks) \in Nat
        BY <1>a, <2>1, SumCompare
  <2>   QED BY <2>1, <2>2 DEF IInv, RoomOK, Copies
<1>1. ASSUME bufs' \in [1 .. NChunks -> Nat], Sum(bufs', NChunks) <= MAX_BUF_PKTS
      PROVE  RoomOK' /\ bufs' \in [Chunks -> 0 .. MAX_BUF_PKTS]
  <2>1. Sum(bufs', NChunks) \in Nat /\ \A j \in 1 .. NChunks : bufs'[j] <= Sum(bufs', NChunks)
        BY <1>a, <1>1, SumCompare, SumMember
  <2>2. \A j \in 1 .. NChunks : bufs'[j] \in 0 .. MAX_BUF_PKTS
        BY <1>a, <1>1, <2>1
  <2>   QED BY <1>a, <1>1, <2>2 DEF RoomOK, Copies
<1>2. CASE bufs' = bufs
      BY <1>0, <1>1, <1>2
<1>3. ASSUME NEW j \in Chunks, NEW m \in j .. NChunks, WritesTo(j, m)
      PROVE  RoomOK' /\ bufs' \in [Chunks -> 0 .. MAX_BUF_PKTS]
  <2>1. \A k \in 1 .. NChunks : bufs'[k] \in Nat /\ bufs'[k] <= bufs[k]
        BY <1>a, <1>0, <1>3, SMTT(20) DEF WritesTo
  <2>2. bufs' \in [1 .. NChunks -> Nat]
        BY <1>a, <2>1, <1>3 DEF WritesTo
  <2>3. Sum(bufs', NChunks) \in Nat /\ Sum(bufs', NChunks) <= Sum(bufs, NChunks)
        BY <1>a, <1>0, <2>1, <2>2, SumCompare
  <2>   QED BY <1>a, <1>0, <1>1, <2>2, <2>3
<1>4. ASSUME HasRoom(bufs), NEW j \in Chunks, bufs' = [bufs EXCEPT ![j] = @ + 1]
      PROVE  RoomOK' /\ bufs' \in [Chunks -> 0 .. MAX_BUF_PKTS]
  <2>1. bufs[j] \in Nat /\ bufs[j] + 1 \in Nat /\ bufs' = [bufs EXCEPT ![j] = bufs[j] + 1]
        BY <1>a, <1>0, <1>4
  <2>2. Sum(bufs', NChunks) = Sum(bufs, NChunks) - bufs[j] + (bufs[j] + 1)
    <3> DEFINE v == bufs[j] + 1
    <3> HIDE DEF v
    <3>1. Sum([bufs EXCEPT ![j] = v], NChunks) = Sum(bufs, NChunks) - bufs[j] + v
          BY <1>a, <1>0, <2>1, SumUpdate DEF v
    <3>   QED BY <2>1, <3>1 DEF v
  <2>3. Sum(bufs', NChunks) <= MAX_BUF_PKTS
        BY <1>a, <1>0, <1>4, <2>1, <2>2 DEF HasRoom, Copies
  <2>4. bufs' \in [1 .. NChunks -> Nat]
        BY <1>a, <1>0, <2>1
  <2>   QED BY <1>1, <2>3, <2>4
<1>5. CASE ReceiveData
      BY <1>2, <1>3, <1>4, <1>5, DataArrives
<1>6. CASE ReceiveName
      BY <1>2, <1>6 DEF ReceiveName
<1>   QED BY <1>2, <1>5, <1>6, ServerSteps DEF svars

\* What is written is a beginning of the file.
LEMMA OutKept == IInv /\ [Next]_vars => OutOK' /\ out' \in Seq(Chunks)
<1> SUFFICES ASSUME IInv, [Next]_vars PROVE OutOK' /\ out' \in Seq(Chunks)
    OBVIOUS
<1>0. /\ NChunks \in Nat /\ MTU \in Nat \ {0} /\ expected \in Nat
      /\ out \in Seq(Chunks) /\ OutOK /\ NameLen \in Nat \ {0}
      BY ChunkSizes, ShamAssumption DEF IInv, TypeOK
<1>1. ASSUME UNCHANGED <<out, expected>>, server' = "data" => server = "data"
      PROVE  OutOK' /\ out' \in Seq(Chunks)
      BY <1>0, <1>1 DEF OutOK, WrittenInOrder
<1>2. CASE ReceiveName
  <2> DEFINE p == Head(c2s)
  <2>1. out = <<>> /\ out' = out /\ p \in Outgoing
    <3>1. c2s \in Seq(Outgoing)
          BY OutgoingPackets DEF IInv, ChannelsOK
    <3>   QED BY <1>2, <3>1 DEF ReceiveName, Take, IInv, ServerOK
  <2>2. CASE p.len = 0
        BY <1>0, <1>2, <2>1, <2>2 DEF ReceiveName, OutOK, WrittenInOrder
  <2>3. CASE p.len # 0
    <3>1. expected' = p.seq + NameKept(p.len)
          BY <1>2, <2>3 DEF ReceiveName
    <3>2. ASSUME NEW j \in Chunks, Seqno(j) = expected' PROVE j = 1
      <4>0. j \in 1 .. NChunks /\ Seqno(j) \in Nat
            BY ChunkNumbers DEF Chunks
      <4>1. CASE p = Name
        <5>1. expected' <= 1 + NameLen
              BY <4>1, <3>1, <1>0, ShamAssumption DEF Name, Pkt, NameKept, Least
        <5>2. 1 \in Chunks /\ Seqno(1) = 1 + NameLen
              BY <4>0, <1>0, ChunkNumbers DEF Chunks
        <5>3. 1 < j => Seqno(1) + MTU <= Seqno(j)
              BY <5>2, ChunkNumbers
        <5>   QED BY <5>1, <5>2, <5>3, <4>0, <3>2, <1>0
      <4>2. ASSUME NEW k \in Chunks, p = Data(k) PROVE FALSE
        <5>1. expected' = Seqno(k) + NameKept(Size(k)) /\ Seqno(k) \in Nat /\ k \in Nat
              BY <4>2, <3>1, ChunkNumbers, <1>0 DEF Data, Pkt, Chunks
        <5>2. NameKept(Size(k)) \in 1 .. MTU - 1 \/ NameKept(Size(k)) = Size(k)
              BY ShamAssumption, ChunkSizes DEF NameKept, Least
        <5>3. Size(k) \in 1 .. MTU /\ (k < NChunks => Size(k) = MTU) /\ NameKept(Size(k)) <= NameMax /\ NameMax < MTU
              BY ShamAssumption, ChunkSizes DEF NameKept, Least
        <5>4. Seqno(k) < Seqno(j) /\ Seqno(j) < Seqno(k) + MTU
          <6> DEFINE kept == NameKept(Size(k))
                     sj == Seqno(j)
                     sk == Seqno(k)
          <6>1. kept \in Nat /\ 1 <= kept /\ kept < MTU
                BY <5>2, <5>3, <1>0, ShamAssumption
          <6>2. sj = sk + kept /\ sk \in Nat
                BY <5>1, <3>2
          <6> HIDE DEF kept, sj, sk
          <6>3. sk < sj /\ sj < sk + MTU
                BY <6>1, <6>2, <1>0
          <6>   QED BY <6>3 DEF sj, sk
        <5>5. (k < j => Seqno(k) + MTU <= Seqno(j)) /\ (j < k => Seqno(j) + MTU <= Seqno(k))
              BY ChunkNumbers
        <5>   QED BY <5>1, <5>4, <5>5, <4>0, <1>0
      <4>   QED BY <4>1, <4>2, <2>1, <2>3, PayloadByKind
    <3>   QED BY <2>1, <3>2, <1>0 DEF OutOK, WrittenInOrder
  <2>   QED BY <2>2, <2>3
<1>3. ASSUME NEW j \in Chunks, NEW m \in j .. NChunks, WritesTo(j, m)
      PROVE  OutOK' /\ out' \in Seq(Chunks)
  <2> DEFINE more == [n \in 1 .. m + 1 - j |-> j + n - 1]
  <2>0. m \in Chunks /\ j \in Nat \ {0} /\ m \in Nat /\ m + 1 - j \in Nat \ {0} /\ m >= j
        BY <1>0 DEF Chunks
  <2>1. more \in Seq(Chunks) /\ Len(more) = m + 1 - j
        BY <2>0, <1>0 DEF Chunks
  <2>2. out' = out \o more /\ Len(out) = j - 1 /\ expected' = End(m)
        BY <1>3 DEF WritesTo
  <2>3. out' \in Seq(Chunks) /\ Len(out') = m
        BY <2>0, <2>1, <2>2, <1>0
  <2>4. ASSUME NEW n \in 1 .. m PROVE out'[n] = n
    <3>1. CASE n <= j - 1
      <4>1. out'[n] = out[n] /\ n \in 1 .. Len(out)
            BY <3>1, <2>0, <2>1, <2>2, <1>0
      <4>   QED BY <4>1, <1>0 DEF OutOK, WrittenInOrder
    <3>2. CASE n > j - 1
      <4>1. n - (j - 1) \in 1 .. m + 1 - j /\ n \in Nat
            BY <3>2, <2>0
      <4>2. out'[n] = more[n - (j - 1)]
        <5>1. \A s, t \in Seq(Chunks) : \A l \in Len(s) + 1 .. Len(s) + Len(t) :
                  (s \o t)[l] = t[l - Len(s)]
              OBVIOUS
        <5>2. n \in Len(out) + 1 .. Len(out) + Len(more)
              BY <3>2, <2>0, <2>1, <2>2, <1>0
        <5> HIDE DEF more
        <5>3. (out \o more)[n] = more[n - Len(out)]
              BY <5>1, <5>2, <2>1, <1>0
        <5>   QED BY <5>3, <2>2
      <4>   QED BY <4>1, <4>2, <2>0
    <3>   QED BY <3>1, <3>2, <2>0
  <2>5. out' # <<>> /\ m <= NChunks
        BY <2>0, <2>3, <1>0
  <2> HIDE DEF more
  <2>   QED BY <2>2, <2>3, <2>4, <2>5 DEF OutOK, WrittenInOrder
<1>4. CASE ReceiveData
  <2>1. server = "data"
        BY <1>4 DEF ReceiveData
  <2>   QED BY <2>1, <1>1, <1>3, <1>4, DataArrives
<1>5. CASE ReceiveFin
      BY <1>1, <1>5 DEF ReceiveFin
<1>   QED BY <1>1, <1>2, <1>4, <1>5, ServerSteps DEF svars

\* The client takes leave once and for all.
LEMMA OverForGood == [Next]_vars /\ client \in Over => client' \in Over
<1> SUFFICES ASSUME [Next]_vars, client \in Over PROVE client' \in Over
    OBVIOUS
<1>1. CASE Client
  <2>1. CASE ClosingTimeout
        BY <2>1 DEF ClosingTimeout, cvars, Over
  <2>2. CASE ClosingReceive
        BY <2>2 DEF ClosingReceive, Over
  <2>3. client \in {"start", "synack", "fill", "poll"} \/ ClosingTimeout \/ ClosingReceive
        BY <1>1 DEF Client, Connect, Connected, SkipUsed, SendChunk, WindowFull, Finish, PollTimeout,
                    PollReceive
  <2>   QED BY <2>1, <2>2, <2>3 DEF Over
<1>2. CASE Server
      BY <1>2 DEF Server, Listen, AwaitAck, ReceiveName, ReceiveData, ReceiveFin, ReceiveLast, Others, cvars
<1>3. CASE Network \/ UNCHANGED vars
      BY <1>3 DEF Network, vars, cvars
<1>   QED BY <1>1, <1>2, <1>3 DEF Next

\* What the server takes from its socket was sent by the client.
LEMMA FromClient ==
    ASSUME IInv, Take
    PROVE  /\ Head(c2s) \in Outgoing /\ Head(c2s) \in Packets
           /\ Head(c2s).kind = "FIN" => client \in Over
<1>1. c2s \in Seq(Outgoing) /\ c2s # <<>>
      BY OutgoingPackets DEF IInv, ChannelsOK, Take
<1>2. client \notin Over => Head(c2s) \in BeforeFin
      BY <1>1 DEF IInv, ChannelsOK
<1>3. \A p \in BeforeFin : p.kind # "FIN"
      BY DEF BeforeFin, FileData, ClientAcks, Syn, Name, Data, Pkt
<1>   QED BY <1>1, <1>2, <1>3, OutgoingPackets

\* The phases of the server keep their meaning.
LEMMA ServerKept == IInv /\ [Next]_vars => ServerOK'
<1> SUFFICES ASSUME IInv, [Next]_vars PROVE ServerOK'
    OBVIOUS
<1>0. ServerOK /\ expected \in Nat /\ (client \in Over => client' \in Over)
      BY OverForGood DEF IInv, TypeOK
<1>1. CASE UNCHANGED svars
      BY <1>0, <1>1 DEF ServerOK, svars
<1>2. CASE ReceiveName
  <2> DEFINE p == Head(c2s)
  <2>1. expected = 0 /\ out' = out /\ server' \in {"failed", "data"}
        BY <1>0, <1>2 DEF ServerOK, ReceiveName, Opened
  <2>2. CASE server' = "failed"
        BY <2>2 DEF ServerOK
  <2>3. CASE server' = "data"
    <3>1. p.len # 0 /\ expected' = p.seq + NameKept(p.len)
          BY <1>2, <2>3 DEF ReceiveName
    <3>2. p.seq \in Nat /\ p.seq >= 1 /\ p.len \in Nat
      <4>1. p \in Outgoing /\ p \in Packets
            BY <1>2, FromClient DEF ReceiveName
      <4>2. CASE p = Name
            BY <4>1, <4>2 DEF Name, Pkt, Packets
      <4>3. ASSUME NEW j \in Chunks, p = Data(j) PROVE p.seq >= 1
        <5>1. p.seq = Seqno(j)
              BY <4>3 DEF Data, Pkt
        <5>   QED BY <5>1, ChunkNumbers, ShamAssumption
      <4>   QED BY <4>1, <4>2, <4>3, <3>1, PayloadByKind DEF Packets
    <3>3. NameKept(p.len) \in Nat /\ NameKept(p.len) >= 1
          BY <3>1, <3>2, ShamAssumption DEF NameKept, Least
    <3>   QED BY <2>3, <3>1, <3>2, <3>3 DEF ServerOK
  <2>   QED BY <2>1, <2>2, <2>3
<1>3. CASE ReceiveData
  <2>1. server = "data" /\ server' = "data" /\ expected >= 2
        BY <1>0, <1>3 DEF ReceiveData, ServerOK
  <2>2. expected' \in Nat /\ expected' >= expected
        BY ExpectedGrows
  <2>   QED BY <1>0, <2>1, <2>2 DEF ServerOK
<1>4. CASE ReceiveFin
  <2>1. client \in Over
        BY <1>4, FromClient DEF ReceiveFin
  <2>2. UNCHANGED <<expected, out>> /\ server = "data" /\ server' = "last"
        BY <1>4 DEF ReceiveFin
  <2>   QED BY <1>0, <2>1, <2>2 DEF ServerOK
<1>   QED BY <1>0, <1>1, <1>2, <1>3, <1>4, ServerSteps DEF ServerOK

\* Only what a client sends is under way to the server, FIN only at the end.
LEMMA ClientChannelKept ==
    IInv /\ [Next]_vars => /\ c2s' \in Seq(IF client' \in Over THEN Outgoing ELSE BeforeFin)
                           /\ Len(c2s') <= ChannelCap
<1> SUFFICES ASSUME IInv, [Next]_vars
             PROVE  /\ c2s' \in Seq(IF client' \in Over THEN Outgoing ELSE BeforeFin)
                    /\ Len(c2s') <= ChannelCap
    OBVIOUS
<1> DEFINE S == IF client' \in Over THEN Outgoing ELSE BeforeFin
           Kept == c2s' \in Seq(S) /\ Len(c2s') <= ChannelCap
<1>a. /\ Syn \in S /\ Name \in S /\ (\A j \in Chunks : Data(j) \in S) /\ ClientAcks \subseteq S
      /\ (client' \in Over => Fin(FileEnd) \in S) /\ FileData \subseteq S
      BY OutgoingPackets DEF FileData, BeforeFin, Outgoing
<1>b. c2s \in Seq(S) /\ Len(c2s) <= ChannelCap /\ s2c \in Seq(Packets) /\ ChannelCap \in Nat
  <2>1. BeforeFin \subseteq Outgoing
        BY DEF Outgoing
  <2>2. c2s \in Seq(IF client \in Over THEN Outgoing ELSE BeforeFin)
        BY DEF IInv, ChannelsOK
  <2>3. client \in Over => client' \in Over
        BY OverForGood
  <2>4. c2s \in Seq(S)
    <3>1. CASE client \in Over
          BY <3>1, <2>2, <2>3
    <3>2. CASE client \notin Over
          BY <3>2, <2>1, <2>2
    <3>   QED BY <3>1, <3>2
  <2>   QED BY <2>4, ShamAssumption DEF IInv, TypeOK
<1>c. slot \in [1 .. MAX_INFLIGHT -> Chunks \cup {0}] /\ sent \in 0 .. NChunks
      BY DEF IInv, TypeOK
<1> SUFFICES Kept
    OBVIOUS
<1> HIDE DEF S
<1>d. ASSUME NEW pkts \in Seq(S), ToServer(pkts) PROVE Kept
      BY <1>b, <1>d, ToServerKeeps
<1>e. ASSUME c2s # <<>>, c2s' = Tail(c2s) PROVE Kept
      BY <1>b, <1>e
<1>f. ASSUME c2s' = c2s \/ c2s' = <<>> PROVE Kept
  <2>1. <<>> \in Seq(S) /\ Len(<<>>) = 0
        OBVIOUS
  <2>2. CASE c2s' = c2s
        BY <1>b, <2>2
  <2>3. CASE c2s' = <<>>
    <3>1. c2s' \in Seq(S) /\ Len(c2s') = 0
          BY <2>1, <2>3
    <3>   QED BY <1>b, <3>1
  <2>   QED BY <1>f, <2>2, <2>3
<1>g. ASSUME NEW slots \in [1 .. MAX_INFLIGHT -> Chunks \cup {0}], RetransmitAndNext(slots) PROVE Kept
  <2>1. PICK due \in SUBSET {k \in 1 .. MAX_INFLIGHT : slots[k] # 0} : ToServer(Resent(slots, due))
        BY <1>g DEF RetransmitAndNext
  <2>2. due \in SUBSET {k \in 1 .. MAX_INFLIGHT : slots[k] \in Chunks}
        BY <1>g
  <2>3. Resent(slots, due) \in Seq(FileData)
        BY <2>2, ResentIsData
  <2>4. Resent(slots, due) \in Seq(S)
        BY <2>3, <1>a
  <2>   QED BY <1>d, <2>1, <2>4
<1>1. CASE Connect
  <2>1. <<Syn>> \in Seq(S)
        BY <1>a
  <2>   QED BY <1>1, <2>1, <1>d DEF Connect
<1>2. CASE Connected
  <2>1. Ack(1, Head(s2c).seq + 1, 0) \in ClientAcks
    <3>1. Head(s2c) \in Packets
          BY <1>2, <1>b DEF Connected
    <3>   QED BY <3>1 DEF Packets, ClientAcks, Ack, Pkt
  <2>2. <<Ack(1, Head(s2c).seq + 1, 0), Name>> \in Seq(S) /\ <<Name>> \in Seq(S)
        BY <2>1, <1>a
  <2>   QED BY <1>2, <2>2, <1>d DEF Connected
<1>3. CASE SkipUsed
      BY <1>3, <1>f DEF SkipUsed
<1>4. CASE SendChunk
  <2>1. sent + 1 \in Chunks
        BY <1>4, <1>c, ChunkSizes DEF SendChunk, AllRead, Chunks
  <2>2. <<Data(sent + 1)>> \in Seq(S)
        BY <2>1, <1>a
  <2>   QED BY <1>4, <2>2, <1>d DEF SendChunk
<1>5. CASE WindowFull
      BY <1>5, <1>f DEF WindowFull
<1>6. CASE Finish
  <2>1. <<Fin(FileEnd), Fin(FileEnd)>> \in Seq(S)
        BY <1>6, <1>a DEF Finish, Over
  <2>   QED BY <1>6, <2>1, <1>d DEF Finish
<1>7. CASE PollTimeout
      BY <1>7, <1>c, <1>g DEF PollTimeout
<1>8. CASE PollReceive
  <2>1. slot' \in [1 .. MAX_INFLIGHT -> Chunks \cup {0}]
        BY <1>8, <1>c DEF PollReceive, Freed
  <2>   QED BY <1>8, <2>1, <1>g DEF PollReceive
<1>9. CASE ClosingTimeout
  <2>1. client' \in Over
        BY <1>9 DEF ClosingTimeout, cvars, Over
  <2>2. FinUnless(got_ack) \in Seq(S)
        BY <2>1, <1>a DEF FinUnless
  <2>   QED BY <1>9, <2>2, <1>d DEF ClosingTimeout
<1>10. CASE ClosingReceive
  <2> DEFINE p == Head(s2c)
             acks == AcksFin(p)
             fins == ~acks /\ p.kind = "FIN"
             last == <<Ack(0, p.seq + 1, 0)>>
             first == IF fins THEN last ELSE <<>>
             second == IF client' = "exit" THEN last ELSE FinUnless(got_ack')
  <2>1. client' \in Over
        BY <1>10 DEF ClosingReceive, Over
  <2>2. Ack(0, p.seq + 1, 0) \in ClientAcks
    <3>1. p \in Packets
          BY <1>10, <1>b DEF ClosingReceive
    <3>   QED BY <3>1 DEF Packets, ClientAcks, Ack, Pkt
  <2>3. last \in Seq(S) /\ FinUnless(got_ack') \in Seq(S)
        BY <2>1, <2>2, <1>a DEF FinUnless
  <2>4. ToServer(first \o second)
        BY <1>10 DEF ClosingReceive
  <2> HIDE DEF last
  <2>5. first \in Seq(S) /\ second \in Seq(S)
        BY <2>3
  <2> HIDE DEF first, second
  <2>6. first \o second \in Seq(S)
        BY <2>5
  <2>   QED BY <2>4, <2>6, <1>d
<1>11. CASE Server
  <2>1. Take \/ (c2s' = <<>>)
        BY <1>11 DEF Server, Listen, AwaitAck, ReceiveName, ReceiveData, ReceiveFin, ReceiveLast
  <2>   QED BY <2>1, <1>e, <1>f DEF Take
<1>12. CASE Network
  <2>1. c2s' \in Disturbed(c2s) \/ c2s' = c2s
        BY <1>12 DEF Network
  <2>   QED BY <2>1, <1>b, <1>f, DisturbedKeeps
<1>13. CASE UNCHANGED vars
      BY <1>13, <1>f DEF vars
<1>14. Kept
      BY <1>1, <1>2, <1>3, <1>4, <1>5, <1>6, <1>7, <1>8, <1>9, <1>10, <1>11, <1>12, <1>13 DEF Next, Client
<1>   QED BY <1>14

\* The window that is offered is never negative: the buffered bytes fit in bufs[].
LEMMA AvailableRoom ==
    ASSUME NEW b \in [Chunks -> 0 .. MAX_BUF_PKTS], Copies(b) <= MAX_BUF_PKTS
    PROVE  Available(b) \in Nat
<1>1. NChunks \in Nat /\ Chunks = 1 .. NChunks /\ MAX_BUF_PKTS \in Nat /\ MTU \in Nat /\ WinMax \in Nat
      BY ShamAssumption, ChunkSizes DEF Chunks
<1>2. b \in [1 .. NChunks -> Nat] /\ Bytes(b) \in [1 .. NChunks -> Nat]
  <2>1. ASSUME NEW j \in Chunks PROVE b[j] * Size(j) \in Nat
    <3>1. b[j] \in Nat /\ Size(j) \in Nat
          BY <1>1, ChunkSizes
    <3>   QED BY <3>1
  <2>   QED BY <2>1, <1>1 DEF Bytes
<1>3. ASSUME NEW j \in 1 .. NChunks PROVE Bytes(b)[j] <= b[j] * MTU
  <2>1. b[j] \in Nat /\ Size(j) \in Nat /\ Size(j) <= MTU /\ Bytes(b)[j] = b[j] * Size(j)
        BY <1>1, ChunkSizes DEF Bytes
  <2>2. \A x, y, z \in Nat : y <= z => x * y <= x * z
        OBVIOUS
  <2>   QED BY <2>1, <2>2, <1>1
<1>4. Sum(Bytes(b), NChunks) <= Sum(b, NChunks) * MTU
      BY <1>1, <1>2, <1>3, SumScale
<1>5. Sum(Bytes(b), NChunks) \in Nat /\ Sum(b, NChunks) \in Nat
  <2>1. (\A j \in 1 .. NChunks : b[j] <= b[j]) /\ \A j \in 1 .. NChunks : Bytes(b)[j] <= Bytes(b)[j]
        BY <1>2
  <2>   QED BY <2>1, <1>1, <1>2, SumCompare
<1>6. Sum(b, NChunks) * MTU <= MAX_BUF_PKTS * MTU
  <2>1. \A x, y, z \in Nat : x <= y => x * z <= y * z
        OBVIOUS
  <2>2. Sum(b, NChunks) <= MAX_BUF_PKTS
        BY DEF Copies
  <2>   QED BY <2>1, <2>2, <1>1, <1>5
<1>7. MAX_BUF_PKTS * MTU - Buffered(b) \in Nat
  <2>1. MAX_BUF_PKTS * MTU \in Nat /\ Sum(b, NChunks) * MTU \in Nat
        BY <1>1, <1>5
  <2>   QED BY <2>1, <1>4, <1>5, <1>6 DEF Buffered
<1>   QED BY <1>1, <1>7 DEF Available, Least

\* Until the client takes leave, nothing is acknowledged that the server does not have.
LEMMA ServerChannelKept ==
    IInv /\ [Next]_vars => /\ client' \notin Over => s2c' \in Seq(Answers(expected'))
                           /\ s2c' \in Seq(Packets) /\ Len(s2c') <= ChannelCap
<1> SUFFICES ASSUME IInv, [Next]_vars
             PROVE  /\ client' \notin Over => s2c' \in Seq(Answers(expected'))
                    /\ s2c' \in Seq(Packets) /\ Len(s2c') <= ChannelCap
    OBVIOUS
<1> DEFINE S == IF client' \in Over THEN Packets ELSE Answers(expected')
           Kept == s2c' \in Seq(S) /\ Len(s2c') <= ChannelCap
<1>a. S \subseteq Packets
      BY DEF Answers
<1> SUFFICES Kept
    BY <1>a
<1>b. s2c \in Seq(S)
  <2>1. CASE client' \in Over
        BY <2>1 DEF IInv, TypeOK
  <2>2. CASE client' \notin Over
    <3>1. s2c \in Seq(Answers(expected))
          BY <2>2, OverForGood DEF IInv, ChannelsOK
    <3>2. expected \in Nat /\ expected' \in Nat /\ expected <= expected'
          BY ExpectedGrows DEF IInv, TypeOK
    <3>3. Answers(expected) \subseteq Answers(expected')
          BY <3>2 DEF Answers, Packets
    <3>   QED BY <2>2, <3>1, <3>3
  <2>   QED BY <2>1, <2>2
<1>c. Len(s2c) <= ChannelCap /\ ChannelCap \in Nat /\ expected' \in Nat /\ server_isn \in Nat
      BY ExpectedGrows, ShamAssumption DEF IInv, TypeOK
<1>s. /\ \A p \in Packets : p.ack <= expected' \/ p.ack <= 1 => p \in S
      /\ \A p \in Packets : p.kind = "FIN" => p \in S
      BY DEF Answers
<1>h. client' \in Over => S = Packets
      OBVIOUS
<1> HIDE DEF S
<1>d. ASSUME NEW pkts \in Seq(S), ToClient(pkts) PROVE Kept
      BY <1>b, <1>d, ToClientKeeps
<1>e. ASSUME s2c # <<>>, s2c' = Tail(s2c) PROVE Kept
      BY <1>b, <1>c, <1>e
<1>f. ASSUME s2c' = s2c PROVE Kept
      BY <1>b, <1>c, <1>f
<1>1. CASE Client
  <2>1. s2c' = s2c \/ (s2c # <<>> /\ s2c' = Tail(s2c))
        BY <1>1 DEF Client, Connect, Connected, SkipUsed, SendChunk, WindowFull, Finish, PollTimeout,
                    PollReceive, ClosingTimeout, ClosingReceive
  <2>   QED BY <2>1, <1>e, <1>f
<1>2. CASE Listen
  <2>1. CASE Head(c2s).kind = "SYN"
    <3> DEFINE p == Pkt("SYNACK", server_isn', 1, 0, DEFAULT_WIN)
    <3>1. ToClient(<<p>>) /\ server_isn' = server_isn + 1
          BY <1>2, <2>1 DEF Listen
    <3>2. p \in Packets /\ p.ack <= 1
          BY <3>1, <1>c, ShamAssumption DEF Pkt, Packets, Kinds
    <3> HIDE DEF p
    <3>3. <<p>> \in Seq(S)
          BY <3>2, <1>s
    <3>   QED BY <3>1, <3>3, <1>d
  <2>2. CASE Head(c2s).kind # "SYN"
        BY <1>2, <2>2, <1>f DEF Listen
  <2>   QED BY <2>1, <2>2
<1>3. CASE ReceiveData
  <2> DEFINE p == Ack(0, expected', Available(bufs'))
  <2>1. bufs' \in [Chunks -> 0 .. MAX_BUF_PKTS] /\ Copies(bufs') <= MAX_BUF_PKTS
        BY RoomKept DEF RoomOK
  <2>2. Available(bufs') \in Nat
        BY <2>1, AvailableRoom
  <2>3. p \in Packets /\ p.ack <= expected'
        BY <2>2, <1>c DEF Ack, Pkt, Packets, Kinds
  <2>4. ToClient(<<p>>)
        BY <1>3 DEF ReceiveData
  <2> HIDE DEF p
  <2>5. <<p>> \in Seq(S)
        BY <2>3, <1>s
  <2>   QED BY <2>4, <2>5, <1>d
<1>4. CASE ReceiveFin
  <2> DEFINE p == Ack(0, Head(c2s).seq + 1, 0)
             q == Fin(server_isn)
  <2>1. Head(c2s) \in Packets /\ client \in Over
        BY <1>4, FromClient DEF ReceiveFin
  <2>2. client' \in Over
        BY <2>1, OverForGood
  <2>3. p \in Packets /\ q \in Packets
        BY <2>1, <1>c DEF Ack, Fin, Pkt, Packets, Kinds
  <2>4. ToClient(<<p, q>>)
        BY <1>4 DEF ReceiveFin
  <2> HIDE DEF p, q
  <2>5. <<p, q>> \in Seq(S)
        BY <2>2, <2>3, <1>h
  <2>   QED BY <2>4, <2>5, <1>d
<1>5. CASE AwaitAck \/ ReceiveName \/ ReceiveLast \/ UNCHANGED vars
      BY <1>5, <1>f DEF AwaitAck, ReceiveName, ReceiveLast, vars
<1>6. CASE Network
  <2>1. s2c' \in Disturbed(s2c) \/ s2c' = s2c
        BY <1>6 DEF Network
  <2>   QED BY <2>1, <1>b, <1>c, <1>f, DisturbedKeeps
<1>   QED BY <1>1, <1>2, <1>3, <1>4, <1>5, <1>6 DEF Next, Server

\* What a step does to the copies the client keeps: a new chunk gets a free slot,
\* a packet frees those it acknowledges, nothing else touches them.
LEMMA SlotSteps ==
    ASSUME IInv, [Next]_vars
    PROVE  \/ SendChunk
           \/ /\ sent' = sent /\ PollReceive
              /\ \E ack \in Nat : (ack <= expected \/ ack <= 1) /\ slot' = Freed(ack)
           \/ UNCHANGED <<sent, slot>>
<1>1. CASE PollReceive
  <2> DEFINE p == Head(s2c)
  <2>1. p \in Answers(expected)
        BY <1>1 DEF PollReceive, IInv, ChannelsOK, Over
  <2>2. CASE p.kind \in {"ACK", "SYNACK"}
    <3>1. p.ack \in Nat /\ (p.ack <= expected \/ p.ack <= 1)
          BY <2>1, <2>2 DEF Answers, Packets
    <3>2. slot' = Freed(p.ack)
          BY <1>1, <2>2 DEF PollReceive
    <3>3. sent' = sent
          BY <1>1 DEF PollReceive, RetransmitAndNext
    <3>   QED BY <1>1, <3>1, <3>2, <3>3
  <2>3. CASE p.kind \notin {"ACK", "SYNACK"}
        BY <1>1, <2>3 DEF PollReceive, RetransmitAndNext
  <2>   QED BY <2>2, <2>3
<1>2. CASE Connect \/ Connected \/ SkipUsed \/ WindowFull \/ Finish
      BY <1>2 DEF Connect, Connected, SkipUsed, WindowFull, Finish
<1>3. CASE PollTimeout
      BY <1>3 DEF PollTimeout, RetransmitAndNext
<1>4. CASE ClosingTimeout \/ ClosingReceive
      BY <1>4 DEF ClosingTimeout, ClosingReceive, cvars
<1>5. CASE Server
      BY <1>5 DEF Server, Listen, AwaitAck, ReceiveName, ReceiveData, ReceiveFin, ReceiveLast, Others, cvars
<1>6. CASE Network \/ UNCHANGED vars
      BY <1>6 DEF Network, vars, cvars
<1>   QED BY <1>1, <1>2, <1>3, <1>4, <1>5, <1>6 DEF Next, Client

\* The client keeps chunks in its slots, and it has read what it has sent.
LEMMA SlotsKept ==
    IInv /\ [Next]_vars => slot' \in [1 .. MAX_INFLIGHT -> Chunks \cup {0}] /\ sent' \in 0 .. NChunks
<1> SUFFICES ASSUME IInv, [Next]_vars
             PROVE  slot' \in [1 .. MAX_INFLIGHT -> Chunks \cup {0}] /\ sent' \in 0 .. NChunks
    OBVIOUS
<1>1. slot \in [1 .. MAX_INFLIGHT -> Chunks \cup {0}] /\ sent \in 0 .. NChunks /\ NChunks \in Nat
      BY ChunkSizes DEF IInv, TypeOK
<1>2. CASE SendChunk
  <2>1. sent + 1 \in Chunks /\ sent + 1 \in 0 .. NChunks
        BY <1>1, <1>2 DEF SendChunk, AllRead, Chunks
  <2>   QED BY <1>1, <1>2, <2>1 DEF SendChunk
<1>3. ASSUME NEW ack \in Nat, slot' = Freed(ack), sent' = sent
      PROVE  slot' \in [1 .. MAX_INFLIGHT -> Chunks \cup {0}] /\ sent' \in 0 .. NChunks
      BY <1>1, <1>3 DEF Freed
<1>   QED BY <1>1, <1>2, <1>3, SlotSteps

\* A chunk leaves its slot only when the server has it.
LEMMA CopiesKept == IInv /\ [Next]_vars => CopiesOK'
<1> SUFFICES ASSUME IInv, [Next]_vars, NEW j \in 1 .. sent',
                    \A k \in 1 .. MAX_INFLIGHT : slot'[k] # j
             PROVE  End(j) <= expected'
    BY DEF CopiesOK
<1>0. /\ sent \in 0 .. NChunks /\ sent' \in 0 .. NChunks /\ NChunks \in Nat
      /\ slot \in [1 .. MAX_INFLIGHT -> Chunks \cup {0}]
      /\ expected \in Nat /\ expected' \in Nat /\ expected <= expected'
      BY ExpectedGrows, SlotsKept, ChunkSizes DEF IInv, TypeOK
<1>1. j \in Chunks /\ End(j) \in Nat /\ End(j) > 1 /\ j \in Nat
  <2>1. j \in Chunks
        BY <1>0 DEF Chunks
  <2>2. Seqno(j) \in Nat /\ Seqno(j) >= 1 + NameLen /\ Size(j) \in 1 .. MTU
        BY <2>1, ChunkNumbers, ChunkSizes
  <2>   QED BY <2>1, <2>2, ShamAssumption DEF End, Chunks
<1>2. ASSUME j <= sent, \A k \in 1 .. MAX_INFLIGHT : slot[k] # j PROVE End(j) <= expected'
  <2>1. End(j) <= expected
        BY <1>0, <1>1, <1>2 DEF IInv, CopiesOK
  <2>   QED BY <2>1, <1>0, <1>1
<1>3. CASE SendChunk
  <2>1. sent' = sent + 1 /\ slot' = [slot EXCEPT ![i] = sent + 1] /\ slot[i] = 0 /\ i \in 1 .. MAX_INFLIGHT
        BY <1>3 DEF SendChunk, IInv, TypeOK
  <2>2. j # sent + 1
        BY <2>1, <1>0
  <2>3. \A k \in 1 .. MAX_INFLIGHT : slot[k] # j
        BY <2>1, <1>0, <1>1 DEF Chunks
  <2>   QED BY <2>1, <2>2, <2>3, <1>0, <1>1, <1>2
<1>4. ASSUME NEW ack \in Nat, ack <= expected \/ ack <= 1, slot' = Freed(ack), sent' = sent
      PROVE  End(j) <= expected'
  <2>1. CASE End(j) <= ack
        BY <2>1, <1>0, <1>1, <1>4
  <2>2. CASE ~ End(j) <= ack
    <3>1. \A k \in 1 .. MAX_INFLIGHT : slot[k] # j
          BY <2>2, <1>4 DEF Freed
    <3>   QED BY <3>1, <1>2, <1>4, <1>1, <1>0
  <2>   QED BY <2>1, <2>2
<1>5. CASE UNCHANGED <<sent, slot>>
      BY <1>0, <1>1, <1>2, <1>5
<1>   QED BY <1>3, <1>4, <1>5, SlotSteps

\* The bytes in flight.
LEMMA LoadOfSlots ==
    ASSUME NEW s \in [1 .. MAX_INFLIGHT -> Chunks \cup {0}]
    PROVE  /\ Load(s) \in [1 .. MAX_INFLIGHT -> Nat] /\ InFlight(s) \in Nat
           /\ \A k \in 1 .. MAX_INFLIGHT : Load(s)[k] = IF s[k] = 0 THEN 0 ELSE Size(s[k])
<1>1. MAX_INFLIGHT \in Nat
      BY ShamAssumption
<1>2. \A k \in 1 .. MAX_INFLIGHT : (IF s[k] = 0 THEN 0 ELSE Size(s[k])) \in Nat
  <2>1. \A j \in Chunks : Size(j) \in Nat
        BY ChunkSizes, ShamAssumption
  <2>   QED BY <2>1
<1>3. Load(s) \in [1 .. MAX_INFLIGHT -> Nat]
      BY <1>2 DEF Load
<1>4. \A k \in 1 .. MAX_INFLIGHT : Load(s)[k] <= Load(s)[k]
      BY <1>3
<1>5. InFlight(s) \in Nat
      BY <1>1, <1>3, <1>4, SumCompare DEF InFlight
<1>   QED BY <1>3, <1>5 DEF Load

\* What is freed is no more in flight.
LEMMA FreedIsLess ==
    ASSUME NEW ack \in Nat, slot \in [1 .. MAX_INFLIGHT -> Chunks \cup {0}]
    PROVE  InFlight(Freed(ack)) <= InFlight(slot)
<1> DEFINE s == Freed(ack)
<1>1. s \in [1 .. MAX_INFLIGHT -> Chunks \cup {0}] /\ \A k \in 1 .. MAX_INFLIGHT : s[k] \in {0, slot[k]}
      BY DEF Freed
<1> HIDE DEF s
<1>2. \A k \in 1 .. MAX_INFLIGHT : Load(s)[k] <= Load(slot)[k]
  <2> SUFFICES ASSUME NEW k \in 1 .. MAX_INFLIGHT PROVE Load(s)[k] <= Load(slot)[k]
      OBVIOUS
  <2>1. /\ Load(s)[k] = IF s[k] = 0 THEN 0 ELSE Size(s[k])
        /\ Load(slot)[k] = IF slot[k] = 0 THEN 0 ELSE Size(slot[k])
        /\ Load(s)[k] \in Nat /\ Load(slot)[k] \in Nat
        BY <1>1, LoadOfSlots
  <2>   QED BY <2>1, <1>1
<1>3. Load(s) \in [1 .. MAX_INFLIGHT -> Nat] /\ Load(slot) \in [1 .. MAX_INFLIGHT -> Nat] /\ MAX_INFLIGHT \in Nat
      BY <1>1, LoadOfSlots, ShamAssumption
<1>   QED BY <1>2, <1>3, SumCompare DEF InFlight, s

\* A new chunk adds its size.
LEMMA NewLoad ==
    ASSUME IInv, SendChunk
    PROVE  /\ InFlight(slot') = InFlight(slot) + Size(sent + 1)
           /\ sent + 1 \in Chunks /\ Size(sent + 1) \in Nat
<1>1. /\ slot \in [1 .. MAX_INFLIGHT -> Chunks \cup {0}] /\ i \in 1 .. MAX_INFLIGHT
      /\ slot[i] = 0 /\ slot' = [slot EXCEPT ![i] = sent + 1] /\ MAX_INFLIGHT \in Nat
      BY ShamAssumption DEF IInv, TypeOK, SendChunk
<1>2. sent + 1 \in Chunks /\ sent + 1 # 0
  <2>1. sent \in 0 .. NChunks /\ sent # NChunks /\ NChunks \in Nat
        BY ChunkSizes DEF IInv, TypeOK, SendChunk, AllRead
  <2>   QED BY <2>1 DEF Chunks
<1>3. Size(sent + 1) \in Nat
      BY <1>2, ChunkSizes, ShamAssumption
<1> DEFINE new == sent + 1
           v == Size(new)
           f == Load(slot)
<1>4. f \in [1 .. MAX_INFLIGHT -> Nat] /\ f[i] = 0 /\ InFlight(slot) \in Nat
      BY <1>1, LoadOfSlots
<1> HIDE DEF new
<1>5. Load(slot') = [f EXCEPT ![i] = v]
  <2>1. slot' = [slot EXCEPT ![i] = new] /\ new # 0
        BY <1>1, <1>2 DEF new
  <2>   QED BY <2>1, <1>1 DEF Load
<1>6. v \in Nat
      BY <1>3 DEF new
<1> HIDE DEF v, f
<1>7. Sum([f EXCEPT ![i] = v], MAX_INFLIGHT) = Sum(f, MAX_INFLIGHT) - f[i] + v
      BY <1>1, <1>4, <1>6, SumUpdate
<1>8. InFlight(slot') = Sum([f EXCEPT ![i] = v], MAX_INFLIGHT) /\ InFlight(slot) = Sum(f, MAX_INFLIGHT)
      BY <1>5 DEF InFlight, f
<1>9. InFlight(slot') = InFlight(slot) + v
      BY <1>4, <1>6, <1>7, <1>8
<1>   QED BY <1>2, <1>3, <1>9 DEF v, new

\* The count of bytes in flight is renewed with each pass and never falls behind.
LEMMA WindowKept == IInv /\ [Next]_vars => WindowOK' /\ in_flight_bytes' \in Nat
<1> SUFFICES ASSUME IInv, [Next]_vars PROVE WindowOK' /\ in_flight_bytes' \in Nat
    OBVIOUS
<1>0. /\ slot \in [1 .. MAX_INFLIGHT -> Chunks \cup {0}] /\ in_flight_bytes \in Nat
      /\ InFlight(slot) \in Nat /\ InFlight(slot) <= in_flight_bytes
      BY LoadOfSlots DEF IInv, TypeOK, WindowOK
<1>1. CASE SendChunk
  <2>1. InFlight(slot') = InFlight(slot) + Size(sent + 1) /\ Size(sent + 1) \in Nat
        BY <1>1, NewLoad
  <2>2. in_flight_bytes' = in_flight_bytes + Size(sent + 1)
        BY <1>1 DEF SendChunk
  <2>   QED BY <1>0, <2>1, <2>2 DEF WindowOK
<1>2. ASSUME NEW s \in [1 .. MAX_INFLIGHT -> Chunks \cup {0}], slot' = s, InFlight(s) <= InFlight(slot),
             in_flight_bytes' = in_flight_bytes \/ in_flight_bytes' = InFlight(s)
      PROVE  WindowOK' /\ in_flight_bytes' \in Nat
  <2>1. InFlight(s) \in Nat /\ InFlight(slot') = InFlight(s)
        BY <1>2, LoadOfSlots
  <2>2. InFlight(s) <= in_flight_bytes' /\ in_flight_bytes' \in Nat
        BY <1>0, <1>2, <2>1
  <2>   QED BY <2>1, <2>2 DEF WindowOK
<1>3. CASE PollReceive
  <2>1. in_flight_bytes' = in_flight_bytes \/ in_flight_bytes' = InFlight(slot')
        BY <1>3 DEF PollReceive, RetransmitAndNext
  <2>2. slot' \in [1 .. MAX_INFLIGHT -> Chunks \cup {0}]
        BY SlotsKept
  <2>3. InFlight(slot') <= InFlight(slot)
    <3>1. CASE slot' = slot
          BY <3>1, <1>0
    <3>2. ASSUME NEW ack \in Nat, slot' = Freed(ack) PROVE InFlight(slot') <= InFlight(slot)
          BY <3>2, <1>0, FreedIsLess
    <3>3. ~SendChunk
          BY <1>3 DEF PollReceive, SendChunk
    <3>   QED BY <3>1, <3>2, <3>3, SlotSteps
  <2>   QED BY <1>2, <2>1, <2>2, <2>3
<1>4. CASE PollTimeout
  <2>1. in_flight_bytes' = in_flight_bytes \/ in_flight_bytes' = InFlight(slot)
        BY <1>4 DEF PollTimeout, RetransmitAndNext
  <2>2. slot' = slot
        BY <1>4 DEF PollTimeout
  <2>   QED BY <1>0, <1>2, <2>1, <2>2
<1>5. CASE WindowFull
  <2>1. slot' = slot /\ in_flight_bytes' = InFlight(slot)
        BY <1>5 DEF WindowFull
  <2>   QED BY <1>0, <1>2, <2>1
<1>6. ASSUME UNCHANGED <<slot, in_flight_bytes>> PROVE WindowOK' /\ in_flight_bytes' \in Nat
      BY <1>0, <1>2, <1>6
<1>7. CASE Connect \/ Connected \/ SkipUsed \/ Finish \/ ClosingTimeout \/ ClosingReceive
  <2>1. UNCHANGED <<slot, in_flight_bytes>>
        BY <1>7 DEF Connect, Connected, SkipUsed, Finish, ClosingTimeout, ClosingReceive, cvars
  <2>   QED BY <1>6, <2>1
<1>8. CASE Server \/ Network \/ UNCHANGED vars
  <2>1. UNCHANGED cvars
        BY <1>8 DEF Server, Listen, AwaitAck, ReceiveName, ReceiveData, ReceiveFin, ReceiveLast, Others,
                    Network, vars
  <2>   QED BY <1>6, <2>1 DEF cvars
<1>   QED BY <1>1, <1>3, <1>4, <1>5, <1>7, <1>8 DEF Next, Client

\* The other variables keep their types.
LEMMA PhasesKept ==
    IInv /\ [Next]_vars =>
        /\ client' \in {"start", "synack", "fill", "poll", "closing", "exit", "failed"}
        /\ server' \in {"listen", "await_ack", "name", "data", "last", "exit", "failed"}
<1> SUFFICES ASSUME IInv, [Next]_vars
             PROVE /\ client' \in {"start", "synack", "fill", "poll", "closing", "exit", "failed"}
                   /\ server' \in {"listen", "await_ack", "name", "data", "last", "exit", "failed"}
    OBVIOUS
<1>0. /\ client \in {"start", "synack", "fill", "poll", "closing", "exit", "failed"}
      /\ server \in {"listen", "await_ack", "name", "data", "last", "exit", "failed"}
      BY DEF IInv, TypeOK
<1>1. CASE Connect \/ Connected \/ SkipUsed \/ SendChunk \/ WindowFull \/ Finish
      BY <1>0, <1>1 DEF Connect, Connected, SkipUsed, SendChunk, WindowFull, Finish, Opened, svars
<1>2. CASE PollTimeout \/ PollReceive
      BY <1>0, <1>2 DEF PollTimeout, PollReceive, RetransmitAndNext, svars
<1>3. CASE ClosingTimeout
      BY <1>0, <1>3 DEF ClosingTimeout, cvars, svars
<1>4. CASE ClosingReceive
      BY <1>0, <1>4 DEF ClosingReceive, svars
<1>5. CASE Server
      BY <1>0, <1>5 DEF Server, Listen, AwaitAck, ReceiveName, ReceiveData, ReceiveFin, ReceiveLast,
                        Others, cvars, Opened
<1>6. CASE Network \/ UNCHANGED vars
      BY <1>0, <1>6 DEF Network, vars, cvars, svars
<1>   QED BY <1>1, <1>2, <1>3, <1>4, <1>5, <1>6 DEF Next, Client

\* The counters, flags and bounds keep theirs.
LEMMA CountersKept ==
    IInv /\ [Next]_vars =>
        /\ i' \in 1 .. MAX_INFLIGHT /\ remote_win' \in Nat /\ server_isn' \in Nat
        /\ {got_ack', got_fin'} \subseteq BOOLEAN
        /\ faults' \in 0 .. MaxFaults /\ retx' \in 0 .. MaxRetx
<1> SUFFICES ASSUME IInv, [Next]_vars
             PROVE  /\ i' \in 1 .. MAX_INFLIGHT /\ remote_win' \in Nat /\ server_isn' \in Nat
                    /\ {got_ack', got_fin'} \subseteq BOOLEAN
                    /\ faults' \in 0 .. MaxFaults /\ retx' \in 0 .. MaxRetx
    OBVIOUS
<1> DEFINE Kept == /\ i' \in 1 .. MAX_INFLIGHT /\ remote_win' \in Nat /\ server_isn' \in Nat
                   /\ {got_ack', got_fin'} \subseteq BOOLEAN
                   /\ faults' \in 0 .. MaxFaults /\ retx' \in 0 .. MaxRetx
<1>0. /\ i \in 1 .. MAX_INFLIGHT /\ remote_win \in Nat /\ server_isn \in Nat
      /\ {got_ack, got_fin} \subseteq BOOLEAN
      /\ faults \in 0 .. MaxFaults /\ retx \in 0 .. MaxRetx
      /\ MaxFaults \in Nat /\ MaxRetx \in Nat /\ MAX_INFLIGHT \in Nat \ {0}
      BY ShamAssumption DEF IInv, TypeOK
<1>1. s2c # <<>> => Head(s2c).win \in Nat
  <2>1. s2c \in Seq(Packets)
        BY DEF IInv, TypeOK
  <2>2. s2c # <<>> => Head(s2c) \in Packets
        BY <2>1
  <2>   QED BY <2>2 DEF Packets
<1>2. ASSUME UNCHANGED <<i, server_isn, got_ack, got_fin, faults, retx>>, remote_win' \in Nat
      PROVE  Kept
      BY <1>0, <1>2
<1>3. ASSUME NEW s, RetransmitAndNext(s), remote_win' \in Nat PROVE Kept
  <2>1. UNCHANGED <<server_isn, got_ack, got_fin, faults>>
        BY <1>3 DEF RetransmitAndNext, svars
  <2>2. i' \in 1 .. MAX_INFLIGHT
    <3>1. i' = IF i < MAX_INFLIGHT THEN i + 1 ELSE 1
          BY <1>3 DEF RetransmitAndNext
    <3>   QED BY <3>1, <1>0
  <2>3. retx' \in 0 .. MaxRetx
    <3>1. PICK due \in SUBSET {k \in 1 .. MAX_INFLIGHT : s[k] # 0} :
                  retx + Cardinality(due) <= MaxRetx /\ retx' = retx + Cardinality(due)
          BY <1>3 DEF RetransmitAndNext
    <3>2. IsFiniteSet(due)
      <4>1. IsFiniteSet(1 .. MAX_INFLIGHT)
            BY <1>0, FS_Interval
      <4>2. due \subseteq 1 .. MAX_INFLIGHT
            OBVIOUS
      <4>   QED BY <4>1, <4>2, FS_Subset
    <3>3. Cardinality(due) \in Nat
          BY <3>2, FS_CardinalityType
    <3>   QED BY <3>1, <3>3, <1>0
  <2>   QED BY <1>0, <1>3, <2>1, <2>2, <2>3
<1>4. CASE Connect \/ SkipUsed \/ SendChunk \/ Finish
  <2>1. UNCHANGED <<i, server_isn, got_ack, got_fin, faults, retx, remote_win>>
        BY <1>4 DEF Connect, SkipUsed, SendChunk, Finish, svars
  <2>   QED BY <1>0, <1>2, <2>1
<1>5. CASE Connected
  <2>1. UNCHANGED <<i, server_isn, got_ack, got_fin, faults, retx>>
        BY <1>5 DEF Connected, svars
  <2>2. remote_win' \in Nat
        BY <1>0, <1>1, <1>5 DEF Connected
  <2>   QED BY <1>2, <2>1, <2>2
<1>6. CASE WindowFull
      BY <1>0, <1>6 DEF WindowFull, svars
<1>7. CASE PollTimeout
  <2>1. remote_win' \in Nat
        BY <1>0, <1>7 DEF PollTimeout
  <2>   QED BY <1>3, <1>7, <2>1 DEF PollTimeout
<1>8. CASE PollReceive
  <2>1. remote_win' \in Nat
        BY <1>0, <1>1, <1>8 DEF PollReceive
  <2>   QED BY <1>3, <1>8, <2>1 DEF PollReceive
<1>9. CASE ClosingTimeout
      BY <1>0, <1>9 DEF ClosingTimeout, cvars, svars
<1>10. CASE ClosingReceive
  <2>1. UNCHANGED <<i, remote_win, server_isn, faults, retx>>
        BY <1>10 DEF ClosingReceive, svars
  <2>2. \E acks, fins : got_ack' = (got_ack \/ acks) /\ got_fin' = (got_fin \/ fins)
        BY <1>10 DEF ClosingReceive
  <2>3. got_ack' \in BOOLEAN /\ got_fin' \in BOOLEAN
        BY <2>2
  <2>   QED BY <1>0, <2>1, <2>3
<1>11. CASE Server
  <2>1. UNCHANGED <<i, remote_win, got_ack, got_fin, faults, retx>>
        BY <1>11 DEF Server, Listen, AwaitAck, ReceiveName, ReceiveData, ReceiveFin, ReceiveLast, Others, cvars
  <2>2. server_isn' \in {server_isn, server_isn + 1}
        BY <1>11 DEF Server, Listen, AwaitAck, ReceiveName, ReceiveData, ReceiveFin, ReceiveLast
  <2>   QED BY <1>0, <2>1, <2>2
<1>12. CASE Network
  <2>1. UNCHANGED <<i, remote_win, server_isn, got_ack, got_fin, retx>>
        BY <1>12 DEF Network, cvars, svars
  <2>2. faults' \in 0 .. MaxFaults
        BY <1>0, <1>12 DEF Network
  <2>   QED BY <1>0, <2>1, <2>2
<1>13. CASE UNCHANGED vars
      BY <1>0, <1>13 DEF vars, cvars, svars
<1>   QED BY <1>4, <1>5, <1>6, <1>7, <1>8, <1>9, <1>10, <1>11, <1>12, <1>13 DEF Next, Client

-----------------------------------------------------------------------------
(* The theorems. *)

\* Both programs start with nothing sent, buffered or written.
LEMMA Initially == Init => IInv
<1> SUFFICES ASSUME Init PROVE IInv
    OBVIOUS
<1>0. NChunks \in Nat /\ Chunks = 1 .. NChunks /\ MAX_INFLIGHT \in Nat \ {0} /\ MAX_BUF_PKTS \in Nat
      BY ShamAssumption, ChunkSizes DEF Chunks
<1>1. Copies(bufs) = 0 /\ InFlight(slot) = 0
  <2>1. bufs \in [1 .. NChunks -> {0}]
        BY <1>0 DEF Init
  <2>2. Load(slot) \in [1 .. MAX_INFLIGHT -> {0}]
        BY DEF Init, Load
  <2>   QED BY <1>0, <2>1, <2>2, SumZero DEF Copies, InFlight
<1>2. TypeOK
  <2>1. /\ client \in {"start", "synack", "fill", "poll", "closing", "exit", "failed"}
        /\ server \in {"listen", "await_ack", "name", "data", "last", "exit", "failed"}
        BY DEF Init
  <2>2. /\ slot \in [1 .. MAX_INFLIGHT -> Chunks \cup {0}]
        /\ i \in 1 .. MAX_INFLIGHT /\ sent \in 0 .. NChunks
        /\ {got_ack, got_fin} \subseteq BOOLEAN
    <3>1. slot = [k \in 1 .. MAX_INFLIGHT |-> 0] /\ i = 1 /\ sent = 0
          BY DEF Init
    <3>2. got_ack \in BOOLEAN /\ got_fin \in BOOLEAN
          BY Zenon DEF Init
    <3>3. i \in 1 .. MAX_INFLIGHT /\ sent \in 0 .. NChunks
          BY <3>1, <1>0
    <3>   QED BY <3>1, <3>2, <3>3
  <2>3. /\ {in_flight_bytes, remote_win, server_isn, expected} \subseteq Nat
        /\ faults \in 0 .. MaxFaults /\ retx \in 0 .. MaxRetx
        BY ShamAssumption DEF Init
  <2>4. bufs \in [Chunks -> 0 .. MAX_BUF_PKTS]
        BY <1>0 DEF Init
  <2>5. out \in Seq(Chunks) /\ c2s \in Seq(Packets) /\ s2c \in Seq(Packets)
        BY DEF Init
  <2>6. Len(c2s) <= ChannelCap /\ Len(s2c) <= ChannelCap
        BY ShamAssumption DEF Init
  <2>   QED BY <2>1, <2>2, <2>3, <2>4, <2>5, <2>6 DEF TypeOK
<1>3. RoomOK /\ WindowOK
      BY <1>0, <1>1 DEF RoomOK, WindowOK, Init
<1>4. ChannelsOK /\ ServerOK
      BY DEF Init, ChannelsOK, ServerOK, Over
<1>5. OutOK /\ CopiesOK
      BY <1>0 DEF Init, OutOK, WrittenInOrder, CopiesOK
<1>   QED BY <1>2, <1>3, <1>4, <1>5 DEF IInv

\* Every step of the client, the server and the network keeps the invariant.
LEMMA Inductive == IInv /\ [Next]_vars => IInv'
<1> SUFFICES ASSUME IInv, [Next]_vars PROVE IInv'
    OBVIOUS
<1>1. RoomOK' /\ OutOK' /\ ServerOK' /\ CopiesOK' /\ WindowOK'
      BY RoomKept, OutKept, ServerKept, CopiesKept, WindowKept
<1>2. ChannelsOK'
      BY ClientChannelKept, ServerChannelKept DEF ChannelsOK
<1>3. TypeOK'
  <2>1. expected' \in Nat /\ in_flight_bytes' \in Nat
        BY ExpectedGrows, WindowKept
  <2>2. c2s' \in Seq(Packets) /\ Len(c2s') <= ChannelCap
    <3>1. c2s' \in Seq(IF client' \in Over THEN Outgoing ELSE BeforeFin) /\ Len(c2s') <= ChannelCap
          BY ClientChannelKept
    <3>2. BeforeFin \subseteq Packets /\ Outgoing \subseteq Packets
          BY OutgoingPackets DEF Outgoing
    <3>   QED BY <3>1, <3>2
  <2>3. s2c' \in Seq(Packets) /\ Len(s2c') <= ChannelCap
        BY ServerChannelKept
  <2>4. slot' \in [1 .. MAX_INFLIGHT -> Chunks \cup {0}] /\ sent' \in 0 .. NChunks
        BY SlotsKept
  <2>5. bufs' \in [Chunks -> 0 .. MAX_BUF_PKTS] /\ out' \in Seq(Chunks)
        BY RoomKept, OutKept
  <2>   QED BY <2>1, <2>2, <2>3, <2>4, <2>5, PhasesKept, CountersKept DEF TypeOK
<1>   QED BY <1>1, <1>2, <1>3 DEF IInv

\* The invariant holds in every reachable state.
LEMMA Invariance == Spec => []IInv
BY Initially, Inductive, PTL DEF Spec

\* No variable leaves its type; in particular the window the server offers is
\* never negative and no more chunks are buffered than bufs[] has places.
THEOREM TypeCorrect == Spec => []TypeOK
<1>1. IInv => TypeOK
      BY DEF IInv
<1>   QED BY <1>1, Invariance, PTL

\* A slot of inflight[] is cleared only once its chunk is written to the file,
\* unless the server writes nothing at all.
THEOREM KeepsWhatIsNeeded == Spec => []NothingForgotten
<1>1. IInv => NothingForgotten
  <2> SUFFICES ASSUME IInv, NEW j \in 1 .. sent, \A k \in 1 .. MAX_INFLIGHT : slot[k] # j,
                      out # <<>>, j > Len(out)
               PROVE  FALSE
    <3>1. ASSUME IInv, NEW j \in 1 .. sent, \A k \in 1 .. MAX_INFLIGHT : slot[k] # j
          PROVE  End(j) <= expected /\ j \in Nat /\ Len(out) \in Nat
          BY <3>1 DEF IInv, TypeOK, CopiesOK
    <3>   QED BY <3>1 DEF NothingForgotten
  <2> DEFINE n == Len(out)
  <2>1. /\ End(j) <= expected /\ expected = End(n) /\ n \in Nat \ {0} /\ NChunks \in Nat
        /\ sent \in 0 .. NChunks /\ out \in Seq(Chunks)
        BY ChunkSizes DEF IInv, TypeOK, OutOK, WrittenInOrder, CopiesOK
  <2>2. n \in Chunks /\ j \in Chunks
        BY <2>1 DEF Chunks
  <2>3. Seqno(n) \in Nat /\ Seqno(j) \in Nat /\ Seqno(n) + MTU <= Seqno(j)
        BY <2>2, ChunkNumbers
  <2>4. Size(n) \in 1 .. MTU /\ Size(j) \in 1 .. MTU /\ MTU \in Nat
        BY <2>2, ChunkSizes, ShamAssumption
  <2>   QED BY <2>1, <2>3, <2>4 DEF End
<1>   QED BY <1>1, Invariance, PTL

\* Whatever the network does, what the server writes is a prefix of the file.
THEOREM WritesAPrefix == Spec => []WrittenInOrder
<1>1. IInv => WrittenInOrder
      BY DEF IInv, OutOK
<1>   QED BY <1>1, Invariance, PTL

\* A new chunk never makes the unacknowledged bytes exceed the window.
THEOREM RespectsWindow == Spec => WindowRespected
<1>1. IInv /\ [Next]_vars => [sent' > sent => InFlight(slot') <= remote_win]_vars
  <2> SUFFICES ASSUME IInv, [Next]_vars, sent' > sent PROVE InFlight(slot') <= remote_win
      OBVIOUS
  <2>1. sent \in Nat
        BY ChunkSizes DEF IInv, TypeOK
  <2>2. SendChunk
        BY <2>1, SlotSteps
  <2>3. /\ InFlight(slot') = InFlight(slot) + Size(sent + 1) /\ Size(sent + 1) \in Nat
        /\ InFlight(slot) \in Nat
        BY <2>2, NewLoad, LoadOfSlots DEF IInv, TypeOK
  <2>4. /\ in_flight_bytes + Size(sent + 1) <= remote_win
        /\ in_flight_bytes \in Nat /\ remote_win \in Nat /\ InFlight(slot) <= in_flight_bytes
        BY <2>2 DEF SendChunk, Fits, IInv, TypeOK, WindowOK
  <2>   QED BY <2>3, <2>4
<1>   QED BY <1>1, Invariance, PTL DEF Spec, WindowRespected

-----------------------------------------------------------------------------
(* A network without faults.  The file is complete when the FIN arrives     *)
(* because the packets of the client arrive in order: FifoInv follows the    *)
(* handshake at the head of the channel and the chunks behind it.            *)

\* Chunk j is among the packets up to the k-th, behind h of the handshake.
Has(ch, h, j, k) == \E m \in h + 1 .. k : ch[m] = Data(j)

\* What a channel in order holds when n chunks were sent and w are written: every
\* chunk sent is written or under way, no packet overtakes the chunk before it,
\* and FIN no chunk at all.
Arrives(ch, h, n, w) ==
    /\ \A j \in 1 .. n : j <= w \/ Has(ch, h, j, Len(ch))
    /\ \A k \in h + 1 .. Len(ch) :
         \/ ch[k] = Fin(FileEnd) /\ n = NChunks /\ \A j \in Chunks : j <= w \/ Has(ch, h, j, k - 1)
         \/ \E j \in 1 .. n : ch[k] = Data(j) /\ (j <= w + 1 \/ Has(ch, h, j - 1, k - 1))

\* The packets of the handshake that the server has yet to read.
Ahead == IF server = "await_ack" THEN 2 ELSE IF server = "name" THEN 1 ELSE 0

Early == {"start", "synack"}
Reading == {"await_ack", "name", "data"}

ShakeOK ==
    /\ client = "start" => server = "listen" /\ c2s = <<>> /\ s2c = <<>>
    /\ client = "synack" =>
         \/ server = "listen" /\ c2s = <<Syn>> /\ s2c = <<>>
         \/ server = "await_ack" /\ c2s = <<>> /\ s2c = <<Pkt("SYNACK", server_isn, 1, 0, DEFAULT_WIN)>>
    /\ client \notin Early => server # "listen"
    /\ client \in Early => sent = 0
    /\ client \notin Early /\ server = "await_ack" =>
         Len(c2s) >= 2 /\ c2s[1] = Ack(1, server_isn + 1, 0) /\ c2s[2] = Name
    /\ server = "name" => Len(c2s) >= 1 /\ c2s[1] = Name
    /\ server = "data" /\ out = <<>> => expected = 1 + NameLen

Replies == {p \in Packets : p.kind # "FIN"}
NoFinYet == server \notin {"last", "exit"} => ~got_fin /\ s2c \in Seq(Replies)

SlotsOK == /\ \A k \in 1 .. MAX_INFLIGHT : slot[k] <= sent
           /\ client \in Over => sent = NChunks
           /\ bufs = [j \in Chunks |-> 0]

InOrder == client \notin Early /\ server \in Reading =>
             /\ Arrives(c2s, Ahead, sent, Len(out))
             /\ client \notin Over => Len(c2s) <= Ahead + (sent - Len(out)) + retx

FifoInv == ShakeOK /\ NoFinYet /\ SlotsOK /\ InOrder

FifoAssumption == /\ Faults = {} /\ NameLen <= NameMax
                  /\ ChannelCap >= 2 + MAX_INFLIGHT + MaxRetx

-----------------------------------------------------------------------------
(* Channels in order. *)

\* Chunks can be told apart, from each other and from what is not a chunk.
LEMMA DataDistinct ==
    /\ \A j, k \in Chunks : Data(j) = Data(k) => j = k
    /\ \A j : Data(j).kind = "DATA" /\ \A n : Data(j) # Fin(n)
    /\ \A n : Fin(n).kind = "FIN"
<1>1. \A j : Data(j).kind = "DATA" /\ \A n : Data(j) # Fin(n)
      BY DEF Data, Fin, Pkt
<1>2. ASSUME NEW j \in Chunks, NEW k \in Chunks, Data(j) = Data(k) PROVE j = k
  <2>1. Seqno(j) = Seqno(k)
        BY <1>2 DEF Data, Pkt
  <2>2. /\ j < k => Seqno(j) + MTU <= Seqno(k)
        /\ k < j => Seqno(k) + MTU <= Seqno(j)
        /\ Seqno(j) \in Nat /\ Seqno(k) \in Nat
        BY ChunkNumbers
  <2>   QED BY <2>1, <2>2, ChunkSizes, ShamAssumption DEF Chunks
<1>3. \A n : Fin(n).kind = "FIN"
      BY DEF Fin, Pkt
<1>   QED BY <1>1, <1>2, <1>3

\* What fits in a socket buffer is put behind what is there.
LEMMA SentFits ==
    ASSUME NEW S, NEW ch \in Seq(S), NEW pkts \in Seq(S), Len(ch) + Len(pkts) <= ChannelCap
    PROVE  Sent(ch, pkts) = ch \o pkts
<1>1. ch \o pkts \in Seq(S) /\ Len(ch \o pkts) = Len(ch) + Len(pkts)
      OBVIOUS
<1>2. Least(Len(ch) + Len(pkts), ChannelCap) = Len(ch \o pkts)
      BY <1>1, ShamAssumption DEF Least
<1> DEFINE t == ch \o pkts
<1> HIDE DEF t
<1>3. t \in Seq(S) => SubSeq(t, 1, Len(t)) = t
      OBVIOUS
<1>   QED BY <1>1, <1>2, <1>3 DEF Sent, t

\* One or two packets fit in an empty buffer.
LEMMA SentAlone ==
    ASSUME NEW p, NEW q, ChannelCap >= 3
    PROVE  Sent(<<>>, <<p>>) = <<p>> /\ Sent(<<>>, <<p, q>>) = <<p, q>>
<1>1. Least(1, ChannelCap) = 1 /\ Least(2, ChannelCap) = 2
      BY ShamAssumption DEF Least
<1>2. /\ <<>> \o <<p>> = <<p>> /\ Len(<<p>>) = 1 /\ Len(<<>>) = 0
      /\ <<>> \o <<p, q>> = <<p, q>> /\ Len(<<p, q>>) = 2
      OBVIOUS
<1> DEFINE t == <<p>>
           u == <<p, q>>
<1>a. t \in Seq({p, q}) /\ Len(t) = 1 /\ u \in Seq({p, q}) /\ Len(u) = 2
      OBVIOUS
<1>3. SubSeq(t, 1, 1) = t /\ SubSeq(u, 1, 2) = u
  <2> HIDE DEF t, u
  <2>   QED BY <1>a
<1>   QED BY <1>1, <1>2, <1>3 DEF Sent

\* Of what does not fit the first packets are.
LEMMA SentSome ==
    ASSUME NEW S, NEW R \in SUBSET S, NEW ch \in Seq(S), NEW pkts \in Seq(R), Len(ch) <= ChannelCap
    PROVE  \E s \in Seq(R) : Sent(ch, pkts) = ch \o s
<1>0. ChannelCap \in Nat /\ pkts \in Seq(S)
      BY ShamAssumption
<1>1. CASE Len(ch) + Len(pkts) <= ChannelCap
      BY <1>0, <1>1, SentFits
<1>2. CASE Len(ch) + Len(pkts) > ChannelCap
  <2> DEFINE n == ChannelCap - Len(ch)
             s == SubSeq(pkts, 1, n)
  <2>1. n \in Nat /\ n <= Len(pkts) /\ Least(Len(ch) + Len(pkts), ChannelCap) = Len(ch) + n
        BY <1>0, <1>2 DEF Least
  <2> HIDE DEF n
  <2>2. s \in Seq(R) /\ s \in Seq(S) /\ Len(s) = n /\ \A k \in 1 .. n : s[k] = pkts[k]
    <3>1. s \in Seq(R) /\ Len(s) = n /\ \A k \in 1 .. n : s[k] = pkts[k]
          BY <2>1
    <3>2. \A t \in Seq(R) : t \in Seq(S)
          OBVIOUS
    <3>   QED BY <3>1, <3>2
  <2>3. SubSeq(ch \o pkts, 1, Len(ch) + n) = ch \o s
    <3> DEFINE a == SubSeq(ch \o pkts, 1, Len(ch) + n)
               b == ch \o s
    <3>0. ch \o pkts \in Seq(S) /\ Len(ch \o pkts) = Len(ch) + Len(pkts)
          BY <1>0
    <3>1. a \in Seq(S) /\ Len(a) = Len(ch) + n /\ \A k \in 1 .. Len(ch) + n : a[k] = (ch \o pkts)[k]
          BY <2>1, <3>0
    <3>2. b \in Seq(S) /\ Len(b) = Len(ch) + n
          BY <2>2
    <3>3. ASSUME NEW k \in 1 .. Len(ch) + n PROVE a[k] = b[k]
      <4>1. a[k] = IF k <= Len(ch) THEN ch[k] ELSE pkts[k - Len(ch)]
            BY <3>1, <2>1
      <4>2. b[k] = IF k <= Len(ch) THEN ch[k] ELSE s[k - Len(ch)]
            BY <2>1, <2>2
      <4>3. CASE k <= Len(ch)
            BY <4>1, <4>2, <4>3
      <4>4. CASE ~(k <= Len(ch))
        <5>1. k - Len(ch) \in 1 .. n
              BY <4>4, <2>1
        <5> HIDE DEF a, b, s
        <5>   QED BY <5>1, <4>1, <4>2, <4>4, <2>2
      <4>   QED BY <4>3, <4>4
    <3> HIDE DEF a, b
    <3>4. a = b
          BY <3>1, <3>2, <3>3
    <3>   QED BY <3>4 DEF a, b
  <2>   QED BY <2>1, <2>2, <2>3 DEF Sent
<1>3. Len(ch) \in Nat /\ Len(pkts) \in Nat
      OBVIOUS
<1>4. Len(ch) + Len(pkts) <= ChannelCap \/ Len(ch) + Len(pkts) > ChannelCap
      BY <1>0, <1>3
<1>   QED BY <1>1, <1>2, <1>4

\* What the client may send when it has sent n chunks.
Late(n) == {Data(j) : j \in 1 .. n} \cup {p \in {Fin(FileEnd)} : n = NChunks}

\* Chunks sent again and FINs arrive behind what they must not overtake.
LEMMA ArrivesBehind ==
    ASSUME NEW ch \in Seq(Outgoing), NEW h \in Nat, NEW n \in 0 .. NChunks, NEW w \in Nat, h <= Len(ch),
           NEW s \in Seq(Late(n)), Arrives(ch, h, n, w)
    PROVE  Arrives(ch \o s, h, n, w)
<1> DEFINE t == ch \o s
<1>0. NChunks \in Nat
      BY ChunkSizes
<1>1. /\ Len(t) = Len(ch) + Len(s) /\ Len(ch) \in Nat /\ Len(s) \in Nat
      /\ \A k \in 1 .. Len(ch) : t[k] = ch[k]
      /\ \A k \in Len(ch) + 1 .. Len(t) : t[k] = s[k - Len(ch)] /\ t[k] \in Late(n)
      OBVIOUS
<1> HIDE DEF t
<1>2. ASSUME NEW j, NEW k \in h .. Len(ch), Has(ch, h, j, k), NEW l \in k .. Len(t) PROVE Has(t, h, j, l)
  <2>1. PICK m \in h + 1 .. k : ch[m] = Data(j)
        BY <1>2 DEF Has
  <2>2. m \in h + 1 .. l /\ m \in 1 .. Len(ch)
        BY <1>1
  <2>   QED BY <2>1, <2>2, <1>1 DEF Has
<1>3. ASSUME NEW j \in 1 .. n PROVE j <= w \/ \A l \in Len(ch) .. Len(t) : Has(t, h, j, l)
  <2>1. j <= w \/ Has(ch, h, j, Len(ch))
        BY DEF Arrives
  <2>2. Len(ch) \in h .. Len(ch)
        BY <1>1
  <2>   QED BY <2>1, <2>2, <1>2
<1>4. ASSUME NEW k \in h + 1 .. Len(t)
      PROVE  \/ t[k] = Fin(FileEnd) /\ n = NChunks /\ \A j \in Chunks : j <= w \/ Has(t, h, j, k - 1)
             \/ \E j \in 1 .. n : t[k] = Data(j) /\ (j <= w + 1 \/ Has(t, h, j - 1, k - 1))
  <2>1. CASE k <= Len(ch)
    <3>0. k - 1 \in h .. Len(ch) /\ k - 1 \in k - 1 .. Len(t) /\ t[k] = ch[k] /\ k \in h + 1 .. Len(ch)
          BY <2>1, <1>1
    <3>1. \A j : Has(ch, h, j, k - 1) => Has(t, h, j, k - 1)
          BY <3>0, <1>2
    <3>2. \/ ch[k] = Fin(FileEnd) /\ n = NChunks /\ \A j \in Chunks : j <= w \/ Has(ch, h, j, k - 1)
          \/ \E j \in 1 .. n : ch[k] = Data(j) /\ (j <= w + 1 \/ Has(ch, h, j - 1, k - 1))
          BY <3>0 DEF Arrives
    <3>   QED BY <3>0, <3>1, <3>2
  <2>2. CASE k > Len(ch)
    <3>1. k - 1 \in Len(ch) .. Len(t) /\ t[k] \in Late(n)
          BY <2>2, <1>1
    <3>2. CASE t[k] = Fin(FileEnd) /\ n = NChunks
      <4>1. \A j \in Chunks : j <= w \/ Has(t, h, j, k - 1)
            BY <3>1, <3>2, <1>3 DEF Chunks
      <4>   QED BY <3>2, <4>1
    <3>3. ASSUME NEW j \in 1 .. n, t[k] = Data(j)
          PROVE  j <= w + 1 \/ Has(t, h, j - 1, k - 1)
      <4>1. CASE j = 1
            BY <4>1
      <4>2. CASE j # 1
        <5>1. j - 1 \in 1 .. n
              BY <4>2, <1>0
        <5>   QED BY <5>1, <3>1, <1>3
      <4>   QED BY <4>1, <4>2
    <3>   QED BY <3>1, <3>2, <3>3 DEF Late
  <2>   QED BY <2>1, <2>2, <1>1
<1>5. Len(t) \in Len(ch) .. Len(t)
      BY <1>1
<1>6. Arrives(t, h, n, w)
      BY <1>3, <1>4, <1>5 DEF Arrives
<1>   QED BY <1>6 DEF t

\* So does the next chunk.
LEMMA ArrivesNew ==
    ASSUME NEW ch \in Seq(Outgoing), NEW h \in Nat, NEW n \in Nat, n + 1 \in Chunks, NEW w \in Nat, h <= Len(ch),
           Arrives(ch, h, n, w)
    PROVE  Arrives(ch \o <<Data(n + 1)>>, h, n + 1, w)
<1> DEFINE d == Data(n + 1)
           t == ch \o <<d>>
<1>0. NChunks \in Nat /\ n < NChunks
      BY ChunkSizes DEF Chunks
<1>1. /\ Len(t) = Len(ch) + 1 /\ Len(ch) \in Nat
      /\ \A k \in 1 .. Len(ch) : t[k] = ch[k]
      /\ t[Len(t)] = d
  <2> HIDE DEF d
  <2>   QED OBVIOUS
<1> HIDE DEF t
<1>2. ASSUME NEW j, NEW k \in h .. Len(ch), Has(ch, h, j, k), NEW l \in k .. Len(t) PROVE Has(t, h, j, l)
      BY <1>1, <1>2 DEF Has
<1>3. ASSUME NEW j \in 1 .. n PROVE j <= w \/ \A l \in Len(ch) .. Len(t) : Has(t, h, j, l)
  <2>1. j <= w \/ Has(ch, h, j, Len(ch))
        BY DEF Arrives
  <2>2. Len(ch) \in h .. Len(ch)
        BY <1>1
  <2>   QED BY <2>1, <2>2, <1>2
<1>4. ASSUME NEW k \in h + 1 .. Len(t)
      PROVE  \E j \in 1 .. n + 1 : t[k] = Data(j) /\ (j <= w + 1 \/ Has(t, h, j - 1, k - 1))
  <2>1. CASE k <= Len(ch)
    <3>0. k - 1 \in h .. Len(ch) /\ k - 1 \in k - 1 .. Len(t) /\ t[k] = ch[k] /\ k \in h + 1 .. Len(ch)
          BY <2>1, <1>1
    <3>1. \A j : Has(ch, h, j, k - 1) => Has(t, h, j, k - 1)
          BY <3>0, <1>2
    <3>2. \E j \in 1 .. n : ch[k] = Data(j) /\ (j <= w + 1 \/ Has(ch, h, j - 1, k - 1))
          BY <3>0, <1>0 DEF Arrives
    <3>3. PICK j \in 1 .. n : ch[k] = Data(j) /\ (j <= w + 1 \/ Has(ch, h, j - 1, k - 1))
          BY <3>2
    <3>4. j \in 1 .. n + 1 /\ t[k] = Data(j)
          BY <3>0, <3>3
    <3>   QED BY <3>1, <3>3, <3>4
  <2>2. CASE k > Len(ch)
    <3>1. k - 1 \in Len(ch) .. Len(t) /\ t[k] = Data(n + 1) /\ n + 1 \in 1 .. n + 1
          BY <2>2, <1>1
    <3>2. n + 1 <= w + 1 \/ Has(t, h, n, k - 1)
      <4>1. CASE n = 0
            BY <4>1
      <4>2. CASE n # 0
        <5>1. n \in 1 .. n
              BY <4>2
        <5>   QED BY <5>1, <3>1, <1>3
      <4>   QED BY <4>1, <4>2
    <3>3. (n + 1) - 1 = n
          OBVIOUS
    <3>   QED BY <3>1, <3>2, <3>3
  <2>   QED BY <2>1, <2>2, <1>1
<1>5. ASSUME NEW j \in 1 .. n + 1 PROVE j <= w \/ Has(t, h, j, Len(t))
  <2>1. CASE j = n + 1
    <3>1. Len(t) \in h + 1 .. Len(t)
          BY <1>1
    <3>   QED BY <3>1, <2>1, <1>1 DEF Has
  <2>2. CASE j # n + 1
    <3>1. j \in 1 .. n /\ Len(t) \in Len(ch) .. Len(t)
          BY <2>2, <1>1
    <3>   QED BY <3>1, <1>3
  <2>   QED BY <2>1, <2>2
<1>6. Arrives(t, h, n + 1, w)
      BY <1>4, <1>5 DEF Arrives
<1>   QED BY <1>6 DEF t

\* The server reads a packet of the handshake.
LEMMA ArrivesAfterShake ==
    ASSUME NEW ch \in Seq(Outgoing), NEW h \in Nat \ {0}, NEW n \in Nat, NEW w \in Nat, h <= Len(ch),
           Arrives(ch, h, n, w)
    PROVE  Arrives(Tail(ch), h - 1, n, w)
<1> DEFINE t == Tail(ch)
<1>1. Len(t) = Len(ch) - 1 /\ Len(ch) \in Nat /\ \A k \in 1 .. Len(t) : t[k] = ch[k + 1]
      OBVIOUS
<1> HIDE DEF t
<1>2. ASSUME NEW j, NEW k \in 1 .. Len(ch), Has(ch, h, j, k) PROVE Has(t, h - 1, j, k - 1)
  <2>1. PICK m \in h + 1 .. k : ch[m] = Data(j)
        BY <1>2 DEF Has
  <2>2. m - 1 \in (h - 1) + 1 .. k - 1 /\ m - 1 \in 1 .. Len(t)
        BY <1>1
  <2>3. t[m - 1] = Data(j)
        BY <2>1, <2>2, <1>1
  <2>   QED BY <2>2, <2>3 DEF Has
<1>3. ASSUME NEW j \in 1 .. n PROVE j <= w \/ Has(t, h - 1, j, Len(t))
      BY <1>1, <1>2 DEF Arrives
<1>4. ASSUME NEW k \in (h - 1) + 1 .. Len(t)
      PROVE  \/ t[k] = Fin(FileEnd) /\ n = NChunks /\ \A j \in Chunks : j <= w \/ Has(t, h - 1, j, k - 1)
             \/ \E j \in 1 .. n : t[k] = Data(j) /\ (j <= w + 1 \/ Has(t, h - 1, j - 1, k - 1))
  <2>1. k + 1 \in h + 1 .. Len(ch) /\ t[k] = ch[k + 1] /\ (k + 1) - 1 = k /\ k \in 1 .. Len(ch)
        BY <1>1
  <2>2. \/ ch[k + 1] = Fin(FileEnd) /\ n = NChunks /\ \A j \in Chunks : j <= w \/ Has(ch, h, j, k)
        \/ \E j \in 1 .. n : ch[k + 1] = Data(j) /\ (j <= w + 1 \/ Has(ch, h, j - 1, k))
        BY <2>1 DEF Arrives
  <2>3. \A j : Has(ch, h, j, k) => Has(t, h - 1, j, k - 1)
        BY <2>1, <1>2
  <2>   QED BY <2>1, <2>2, <2>3
<1>5. Arrives(t, h - 1, n, w)
      BY <1>3, <1>4 DEF Arrives
<1>   QED BY <1>5 DEF t

\* The server reads a packet of the file: it is the end, the next chunk, or one it has.
LEMMA ArrivesFirst ==
    ASSUME NEW ch \in Seq(Outgoing), NEW n \in Nat, NEW w \in Nat, ch # <<>>, n <= NChunks,
           Arrives(ch, 0, n, w)
    PROVE  \/ Head(ch) = Fin(FileEnd) /\ n = NChunks /\ \A j \in Chunks : j <= w
           \/ \E j \in 1 .. n : /\ Head(ch) = Data(j) /\ j <= w + 1
                               /\ Arrives(Tail(ch), 0, n, IF j = w + 1 THEN j ELSE w)
<1> DEFINE t == Tail(ch)
<1>0. NChunks \in Nat
      BY ChunkSizes
<1>1. /\ Len(t) = Len(ch) - 1 /\ Len(ch) \in Nat \ {0} /\ \A k \in 1 .. Len(t) : t[k] = ch[k + 1]
      /\ Head(ch) = ch[1]
      OBVIOUS
<1> HIDE DEF t
<1>2. \A j : ~Has(ch, 0, j, 0)
      BY DEF Has
<1>3. \/ ch[1] = Fin(FileEnd) /\ n = NChunks /\ \A j \in Chunks : j <= w \/ Has(ch, 0, j, 1 - 1)
      \/ \E j \in 1 .. n : ch[1] = Data(j) /\ (j <= w + 1 \/ Has(ch, 0, j - 1, 1 - 1))
      BY <1>1 DEF Arrives
<1>4. CASE ch[1] = Fin(FileEnd) /\ n = NChunks /\ \A j \in Chunks : j <= w \/ Has(ch, 0, j, 1 - 1)
      BY <1>1, <1>2, <1>4
<1>5. ASSUME NEW i0 \in 1 .. n, ch[1] = Data(i0), i0 <= w + 1 \/ Has(ch, 0, i0 - 1, 1 - 1)
      PROVE  i0 <= w + 1 /\ Arrives(t, 0, n, IF i0 = w + 1 THEN i0 ELSE w)
  <2> DEFINE v == IF i0 = w + 1 THEN i0 ELSE w
  <2>1. i0 <= w + 1 /\ i0 <= v /\ w <= v /\ v \in Nat
        BY <1>2, <1>5
  <2> HIDE DEF v
  <2>2. ASSUME NEW j \in Chunks, NEW k \in 1 .. Len(ch), Has(ch, 0, j, k) PROVE j = i0 \/ Has(t, 0, j, k - 1)
    <3>1. PICK m \in 1 .. k : ch[m] = Data(j)
          BY <2>2 DEF Has
    <3>2. CASE m = 1
      <4>1. i0 \in Chunks
            BY <1>0 DEF Chunks
      <4>   QED BY <3>1, <3>2, <4>1, <1>5, DataDistinct
    <3>3. CASE m # 1
      <4>1. m - 1 \in 1 .. k - 1 /\ m - 1 \in 1 .. Len(t) /\ m = (m - 1) + 1
            BY <3>3, <1>1
      <4>2. t[m - 1] = Data(j)
            BY <3>1, <4>1, <1>1
      <4>3. m - 1 \in 0 + 1 .. k - 1
            BY <4>1
      <4>   QED BY <4>2, <4>3 DEF Has
    <3>   QED BY <3>2, <3>3
  <2>3. ASSUME NEW j \in 1 .. n PROVE j <= v \/ Has(t, 0, j, Len(t))
    <3>1. j <= w \/ Has(ch, 0, j, Len(ch))
          BY DEF Arrives
    <3>2. j \in Chunks /\ Len(ch) \in 1 .. Len(ch)
          BY <1>0, <1>1 DEF Chunks
    <3>   QED BY <3>1, <3>2, <2>1, <2>2, <1>1
  <2>4. ASSUME NEW k \in 1 .. Len(t)
        PROVE  \/ t[k] = Fin(FileEnd) /\ n = NChunks /\ \A j \in Chunks : j <= v \/ Has(t, 0, j, k - 1)
               \/ \E j \in 1 .. n : t[k] = Data(j) /\ (j <= v + 1 \/ Has(t, 0, j - 1, k - 1))
    <3>1. k + 1 \in 0 + 1 .. Len(ch) /\ t[k] = ch[k + 1] /\ (k + 1) - 1 = k /\ k \in 1 .. Len(ch)
          BY <1>1
    <3>2. \/ ch[k + 1] = Fin(FileEnd) /\ n = NChunks /\ \A j \in Chunks : j <= w \/ Has(ch, 0, j, k)
          \/ \E j \in 1 .. n : ch[k + 1] = Data(j) /\ (j <= w + 1 \/ Has(ch, 0, j - 1, k))
          BY <3>1 DEF Arrives
    <3>3. CASE ch[k + 1] = Fin(FileEnd) /\ n = NChunks /\ \A j \in Chunks : j <= w \/ Has(ch, 0, j, k)
      <4>1. ASSUME NEW j \in Chunks PROVE j <= v \/ Has(t, 0, j, k - 1)
        <5>1. j \in Nat
              BY <1>0 DEF Chunks
        <5>   QED BY <5>1, <3>1, <3>3, <2>1, <2>2
      <4>   QED BY <4>1, <3>1, <3>3
    <3>4. ASSUME NEW j \in 1 .. n, ch[k + 1] = Data(j), j <= w + 1 \/ Has(ch, 0, j - 1, k)
          PROVE  j <= v + 1 \/ Has(t, 0, j - 1, k - 1)
      <4>1. CASE j <= w + 1
            BY <4>1, <2>1
      <4>2. CASE ~(j <= w + 1)
        <5>1. j - 1 \in Chunks
              BY <4>2, <1>0 DEF Chunks
        <5>2. j - 1 = i0 \/ Has(t, 0, j - 1, k - 1)
              BY <5>1, <4>2, <3>1, <3>4, <2>2
        <5>   QED BY <5>2, <2>1
      <4>   QED BY <4>1, <4>2
    <3>   QED BY <3>1, <3>2, <3>3, <3>4
  <2>5. Arrives(t, 0, n, v)
        BY <2>3, <2>4 DEF Arrives
  <2>   QED BY <2>1, <2>5 DEF v
<1>6. CASE \E j \in 1 .. n : ch[1] = Data(j) /\ (j <= w + 1 \/ Has(ch, 0, j - 1, 1 - 1))
      BY <1>1, <1>5, <1>6 DEF t
<1>   QED BY <1>3, <1>4, <1>6

-----------------------------------------------------------------------------
(* What the server reads. *)

\* The number expected is that of the first chunk not written.
LEMMA ExpectedIsNext ==
    ASSUME IInv, FifoInv, FifoAssumption, server \in Reading, NEW j \in Chunks
    PROVE  /\ j > Len(out) => End(j) > expected
           /\ server = "data" /\ j <= Len(out) => Seqno(j) < expected
           /\ server = "data" /\ j = Len(out) + 1 => Seqno(j) = expected
<1> DEFINE l == Len(out)
<1>0. /\ NChunks \in Nat /\ l \in Nat /\ l <= NChunks /\ expected \in Nat /\ MTU \in Nat /\ NameLen \in Nat
      /\ j \in Nat \ {0} /\ out \in Seq(Chunks)
  <2>1. out \in Seq(Chunks) /\ expected \in Nat /\ l <= NChunks
        BY DEF IInv, OutOK, TypeOK
  <2>2. NChunks \in Nat /\ MTU \in Nat /\ NameLen \in Nat
        BY ChunkSizes, ShamAssumption
  <2>   QED BY <2>1, <2>2 DEF Chunks
<1>1. /\ Seqno(j) \in Nat /\ Size(j) \in 1 .. MTU /\ End(j) = Seqno(j) + Size(j) /\ Seqno(j) >= 1 + NameLen
      BY ChunkNumbers, ChunkSizes DEF End
<1>2. CASE server # "data"
  <2>1. expected = 0
        BY <1>2 DEF IInv, ServerOK, Reading
  <2>   QED BY <2>1, <1>0, <1>1, <1>2
<1>3. CASE server = "data" /\ out = <<>>
  <2>1. expected = 1 + NameLen /\ l = 0
        BY <1>3 DEF FifoInv, ShakeOK
  <2>2. j = 1 => Seqno(j) = 1 + NameLen
        BY ChunkNumbers
  <2>   QED BY <2>1, <2>2, <1>0, <1>1
<1>4. CASE server = "data" /\ out # <<>>
  <2>1. l \in Chunks /\ End(l) = expected
        BY <1>0, <1>4 DEF IInv, OutOK, WrittenInOrder, Chunks
  <2>2. Seqno(l) \in Nat /\ Size(l) \in 1 .. MTU /\ End(l) = Seqno(l) + Size(l)
        BY <2>1, ChunkNumbers, ChunkSizes DEF End
  <2>3. /\ j < l => Seqno(j) + MTU <= Seqno(l)
        /\ l < j => Seqno(l) + MTU <= Seqno(j)
        /\ j = l + 1 => End(l) = Seqno(j)
        BY <2>1, ChunkNumbers
  <2> HIDE DEF l
  <2>   QED BY <2>1, <2>2, <2>3, <1>0, <1>1 DEF l
<1>   QED BY <1>2, <1>3, <1>4

\* Numbers that are all in an array are no more than it has places.
LEMMA PlacesEnough ==
    ASSUME NEW M \in Nat, NEW a \in Nat, NEW b \in Nat, NEW s,
           \A j \in a + 1 .. b : \E k \in 1 .. M : s[k] = j
    PROVE  b - a <= M
<1> SUFFICES ASSUME b - a > M PROVE FALSE
    OBVIOUS
<1> DEFINE S == a + 1 .. b
           f == [j \in S |-> CHOOSE k \in 1 .. M : s[k] = j]
<1>1. \A j \in S : f[j] \in 1 .. M /\ s[f[j]] = j
      OBVIOUS
<1>2. f \in [S -> 1 .. M]
      BY <1>1
<1>3. /\ IsFiniteSet(S) /\ IsFiniteSet(1 .. M) /\ Cardinality(1 .. M) = M /\ Cardinality(S) = b - a
  <2>1. a + 1 \in Int /\ b \in Int /\ 1 \in Int /\ M \in Int
        OBVIOUS
  <2>2. Cardinality(S) = IF a + 1 > b THEN 0 ELSE b - (a + 1) + 1
        BY <2>1, FS_Interval
  <2>3. Cardinality(1 .. M) = IF 1 > M THEN 0 ELSE M - 1 + 1
        BY <2>1, FS_Interval
  <2>4. IsFiniteSet(S) /\ IsFiniteSet(1 .. M)
        BY <2>1, FS_Interval
  <2>   QED BY <2>2, <2>3, <2>4
<1> HIDE DEF f, S
<1>4. \E x, y \in S : x # y /\ f[x] = f[y]
      BY <1>2, <1>3, FS_PigeonHole
<1>   QED BY <1>1, <1>4

\* The first packet for the open file is the next chunk, one the server has, or
\* the FIN behind the last chunk.
LEMMA NextForTheFile ==
    ASSUME IInv, FifoInv, server = "data", c2s # <<>>
    PROVE  /\ client \notin Early /\ c2s \in Seq(Outgoing) /\ sent \in 0 .. NChunks /\ Len(out) \in Nat
           /\ \/ Head(c2s) = Fin(FileEnd) /\ sent = NChunks /\ \A j \in Chunks : j <= Len(out)
              \/ \E j \in 1 .. sent :
                   /\ Head(c2s) = Data(j) /\ j <= Len(out) + 1
                   /\ Arrives(Tail(c2s), 0, sent, IF j = Len(out) + 1 THEN j ELSE Len(out))
<1>1. client \notin Early
      BY DEF FifoInv, ShakeOK, Early
<1>2. Arrives(c2s, 0, sent, Len(out))
      BY <1>1 DEF FifoInv, InOrder, Ahead, Reading
<1>3. c2s \in Seq(Outgoing)
      BY OutgoingPackets DEF IInv, ChannelsOK
<1>4. sent \in 0 .. NChunks /\ Len(out) \in Nat /\ NChunks \in Nat
      BY ChunkSizes DEF IInv, TypeOK
<1>5. sent \in Nat /\ sent <= NChunks
      BY <1>4
<1>   QED BY <1>1, <1>2, <1>3, <1>4, <1>5, ArrivesFirst

\* A chunk is written if it is the next one, and else the file stays as it is;
\* none is buffered.
LEMMA DataInOrder ==
    ASSUME IInv, FifoInv, FifoAssumption, ReceiveData
    PROVE  \E j \in 1 .. sent :
             /\ Head(c2s) = Data(j) /\ j <= Len(out) + 1
             /\ Arrives(Tail(c2s), 0, sent, IF j = Len(out) + 1 THEN j ELSE Len(out))
             /\ \/ j = Len(out) + 1 /\ out' = out \o <<j>> /\ expected' = End(j)
                \/ j # Len(out) + 1 /\ UNCHANGED <<out, expected>>
             /\ bufs' = bufs
<1> DEFINE p == Head(c2s)
           l == Len(out)
           here == {j \in Chunks : Seqno(j) = p.seq}
           run == Following(bufs, p.seq + p.len)
<1>0. server = "data" /\ c2s # <<>> /\ p.kind # "FIN"
      BY DEF ReceiveData, Take
<1>1. PICK j \in 1 .. sent : /\ p = Data(j) /\ j <= l + 1
                             /\ Arrives(Tail(c2s), 0, sent, IF j = l + 1 THEN j ELSE l)
      BY <1>0, NextForTheFile, DataDistinct
<1>2. /\ NChunks \in Nat /\ sent \in 0 .. NChunks /\ j \in Chunks /\ l \in Nat /\ expected \in Nat
      /\ bufs \in [Chunks -> Nat] /\ out \in Seq(Chunks) /\ bufs = [k \in Chunks |-> 0]
      BY ChunkSizes, ShamAssumption DEF IInv, TypeOK, Chunks, FifoInv, SlotsOK
<1>3. p.seq = Seqno(j) /\ p.seq + p.len = End(j) /\ Seqno(j) \in Nat
      BY <1>1, <1>2, ChunkNumbers DEF Data, Pkt, End
<1>4. /\ j <= l => Seqno(j) < expected
      /\ j = l + 1 => Seqno(j) = expected
      BY <1>0, <1>2, ExpectedIsNext DEF Reading
<1>5. CASE j = l + 1
  <2>1. p.seq = expected
        BY <1>3, <1>4, <1>5
  <2>2. PICK m \in j .. NChunks :
               /\ here = {j} /\ run = j + 1 .. m
               /\ InARow(here \cup run) = [n \in 1 .. m + 1 - j |-> j + n - 1]
               /\ (IF run = {} THEN End(j) ELSE End(Max(run))) = End(m)
               /\ \A k \in run : bufs[k] > 0
    <3>1. here = {k \in Chunks : Seqno(k) = Seqno(j)} /\ run = Following(bufs, End(j))
          BY <1>3
    <3> HIDE DEF here, run, p
    <3>   QED BY <1>2, <3>1, InOrderRun
  <2>3. /\ out' = out \o InARow(here \cup run)
        /\ bufs' = [k \in Chunks |-> IF k \in run THEN bufs[k] - 1 ELSE bufs[k]]
        /\ expected' = IF run = {} THEN p.seq + p.len ELSE End(Max(run))
    <3>1. p.seq = expected /\ ~(p.seq > expected) /\ ~(p.seq < expected)
          BY <2>1, <1>2
    <3>   QED BY <3>1 DEF ReceiveData
  <2>4. m = j
    <3> SUFFICES ASSUME m # j PROVE FALSE
        OBVIOUS
    <3>1. j + 1 \in run /\ j + 1 \in Chunks
          BY <2>2, <1>2 DEF Chunks
    <3>2. bufs[j + 1] = 0
          BY <3>1, <1>2
    <3>3. bufs[j + 1] > 0
          BY <3>1, <2>2
    <3>   QED BY <3>2, <3>3
  <2> HIDE DEF run, here, p, l
  <2>5. run = {}
        BY <2>2, <2>4, <1>2 DEF Chunks
  <2>6. InARow(here \cup run) = <<j>>
    <3>1. m + 1 - j = 1 /\ j + 1 - 1 = j
          BY <2>4, <1>2 DEF Chunks
    <3>2. InARow(here \cup run) = [n \in 1 .. 1 |-> j + n - 1]
          BY <2>2, <3>1
    <3>   QED BY <3>1, <3>2, <1>2 DEF Chunks
  <2>7. bufs' = bufs
        BY <2>3, <2>5, <1>2
  <2>   QED BY <1>1, <1>3, <1>5, <2>3, <2>5, <2>6, <2>7 DEF p, l
<1>6. CASE j # l + 1
  <2>1. p.seq < expected
        BY <1>1, <1>2, <1>3, <1>4, <1>6
  <2>2. UNCHANGED <<out, expected, bufs>>
    <3>1. ~(p.seq = expected) /\ ~(p.seq > expected)
          BY <2>1, <1>2, <1>3
    <3>   QED BY <3>1 DEF ReceiveData
  <2>   QED BY <1>1, <1>6, <2>2
<1>   QED BY <1>5, <1>6

-----------------------------------------------------------------------------
(* The steps. *)

\* What the steps of the client and of the server change of each other's state.
LEMMA FifoRest ==
    ASSUME IInv, FifoInv, FifoAssumption, [Next]_vars
    PROVE  \/ Client /\ UNCHANGED svars
           \/ Server /\ UNCHANGED <<cvars, retx>>
           \/ UNCHANGED vars
<1>1. ~Network
  <2>1. \A ch : Disturbed(ch) = {}
        BY DEF FifoAssumption, Disturbed, Lost
  <2>   QED BY <2>1 DEF Network
<1>2. ASSUME Client PROVE UNCHANGED svars
      BY <1>2 DEF Client, Connect, Connected, SkipUsed, SendChunk, WindowFull, Finish, PollTimeout,
                  PollReceive, RetransmitAndNext, ClosingTimeout, ClosingReceive
<1>3. ASSUME Server PROVE UNCHANGED <<cvars, retx>>
      BY <1>3 DEF Server, Listen, AwaitAck, ReceiveName, ReceiveData, ReceiveFin, ReceiveLast, Others
<1>   QED BY <1>1, <1>2, <1>3 DEF Next

\* The client hears of no FIN before the server took one.
LEMMA NoFinKept ==
    ASSUME IInv, FifoInv, FifoAssumption, [Next]_vars
    PROVE  NoFinYet'
<1> SUFFICES ASSUME server' \notin {"last", "exit"} PROVE ~got_fin' /\ s2c' \in Seq(Replies)
    BY DEF NoFinYet
<1>1. server \notin {"last", "exit"}
  <2>1. server \in {"last", "exit"} => server' \in {"last", "exit"}
    <3>1. ASSUME server \in {"last", "exit"}, Server PROVE server' \in {"last", "exit"}
          BY <3>1 DEF Server, Listen, AwaitAck, ReceiveName, ReceiveData, ReceiveFin, ReceiveLast
    <3>   QED BY <3>1, FifoRest DEF svars, vars
  <2>   QED BY <2>1
<1>2. ~got_fin /\ s2c \in Seq(Replies)
      BY <1>1 DEF FifoInv, NoFinYet
<1>3. s2c # <<>> => Head(s2c).kind # "FIN" /\ Tail(s2c) \in Seq(Replies)
  <2>1. s2c # <<>> => Head(s2c) \in Replies /\ Tail(s2c) \in Seq(Replies)
        BY <1>2
  <2>   QED BY <2>1 DEF Replies
<1>4. CASE Client
  <2>1. s2c' = s2c \/ (s2c # <<>> /\ s2c' = Tail(s2c))
        BY <1>4 DEF Client, Connect, Connected, SkipUsed, SendChunk, WindowFull, Finish, PollTimeout,
                    PollReceive, ClosingTimeout, ClosingReceive
  <2>2. ~got_fin'
    <3>1. CASE ClosingReceive
          BY <3>1, <1>2, <1>3 DEF ClosingReceive
    <3>2. CASE ~ClosingReceive
      <4>1. got_fin' = got_fin
            BY <1>4, <3>2 DEF Client, Connect, Connected, SkipUsed, SendChunk, WindowFull, Finish, PollTimeout,
                              PollReceive, RetransmitAndNext, ClosingTimeout, cvars
      <4>   QED BY <4>1, <1>2
    <3>   QED BY <3>1, <3>2
  <2>   QED BY <2>1, <2>2, <1>2, <1>3
<1>5. CASE Server /\ UNCHANGED <<cvars, retx>>
  <2>1. got_fin' = got_fin
        BY <1>5 DEF cvars
  <2>2. ~ReceiveFin /\ ~ReceiveLast
        BY DEF ReceiveFin, ReceiveLast
  <2>3. ASSUME NEW p \in Replies, ToClient(<<p>>) PROVE s2c' \in Seq(Replies)
    <3>1. <<p>> \in Seq(Replies)
          OBVIOUS
    <3>   QED BY <3>1, <2>3, <1>2, ToClientKeeps
  <2>4. /\ server_isn \in Nat /\ DEFAULT_WIN \in Nat /\ expected' \in Nat /\ server_isn' \in Nat
        BY ExpectedGrows, ShamAssumption, CountersKept DEF IInv, TypeOK
  <2>5. CASE Listen
    <3> DEFINE p == Pkt("SYNACK", server_isn', 1, 0, DEFAULT_WIN)
    <3>1. p \in Replies
          BY <2>4 DEF Replies, Pkt, Packets, Kinds
    <3>2. ToClient(<<p>>) \/ s2c' = s2c
          BY <2>5 DEF Listen
    <3>   QED BY <3>1, <3>2, <2>1, <2>3, <1>2
  <2>6. CASE ReceiveData
    <3> DEFINE p == Ack(0, expected', Available(bufs'))
    <3>1. Available(bufs') \in Nat
          BY RoomKept, AvailableRoom DEF RoomOK
    <3>2. p \in Replies
          BY <3>1, <2>4 DEF Replies, Ack, Pkt, Packets, Kinds
    <3>3. ToClient(<<p>>)
          BY <2>6 DEF ReceiveData
    <3>   QED BY <3>2, <3>3, <2>1, <2>3, <1>2
  <2>7. CASE AwaitAck \/ ReceiveName
        BY <2>7, <2>1, <1>2 DEF AwaitAck, ReceiveName
  <2>   QED BY <1>5, <2>2, <2>5, <2>6, <2>7 DEF Server
<1>6. CASE UNCHANGED vars
      BY <1>2, <1>6 DEF vars, cvars
<1>   QED BY <1>4, <1>5, <1>6, FifoRest

\* Only chunks that were sent are in slots, and nothing is ever buffered.
LEMMA FifoSlotsKept ==
    ASSUME IInv, FifoInv, FifoAssumption, [Next]_vars
    PROVE  SlotsOK'
<1>0. /\ \A k \in 1 .. MAX_INFLIGHT : slot[k] <= sent
      /\ slot \in [1 .. MAX_INFLIGHT -> Chunks \cup {0}] /\ sent \in 0 .. NChunks /\ NChunks \in Nat
      /\ i \in 1 .. MAX_INFLIGHT
      BY ChunkSizes DEF FifoInv, SlotsOK, IInv, TypeOK
<1>1. ASSUME NEW k \in 1 .. MAX_INFLIGHT PROVE slot'[k] <= sent'
  <2>1. CASE SendChunk
        BY <1>0, <2>1 DEF SendChunk, Chunks
  <2>2. ASSUME NEW ack \in Nat, slot' = Freed(ack), sent' = sent PROVE slot'[k] <= sent'
        BY <1>0, <2>2 DEF Freed
  <2>3. CASE UNCHANGED <<sent, slot>>
        BY <1>0, <2>3
  <2>   QED BY <2>1, <2>2, <2>3, SlotSteps
<1>2. client' \in Over => sent' = NChunks
  <2>1. CASE Finish
        BY <2>1 DEF Finish, EndSeen, AllRead
  <2>2. CASE ~Finish
    <3>1. client' \in Over => client \in Over
      <4>1. ASSUME Client PROVE client' \in Over => client \in Over
            BY <4>1, <2>2 DEF Client, Connect, Connected, SkipUsed, SendChunk, WindowFull, PollTimeout,
                        PollReceive, RetransmitAndNext, ClosingTimeout, ClosingReceive, Opened, Over, cvars
      <4>2. ASSUME UNCHANGED cvars PROVE client' \in Over => client \in Over
            BY <4>2 DEF cvars
      <4>   QED BY <4>1, <4>2, FifoRest DEF vars
    <3>2. client \in Over => UNCHANGED sent
      <4>1. client \in Over => ~SendChunk /\ ~PollReceive
            BY DEF SendChunk, PollReceive, Over
      <4>   QED BY <4>1, SlotSteps
    <3>   QED BY <3>1, <3>2 DEF FifoInv, SlotsOK
  <2>   QED BY <2>1, <2>2
<1>3. bufs' = bufs
  <2>1. CASE ReceiveData
        BY <2>1, DataInOrder
  <2>2. CASE ~ReceiveData
    <3>1. Server => bufs' = bufs
          BY <2>2 DEF Server, Listen, AwaitAck, ReceiveName, ReceiveFin, ReceiveLast
    <3>   QED BY <3>1, FifoRest DEF svars, vars
  <2>   QED BY <2>1, <2>2
<1>4. bufs' = [j \in Chunks |-> 0]
      BY <1>3 DEF FifoInv, SlotsOK
<1>   QED BY <1>1, <1>2, <1>4 DEF SlotsOK

\* The ranges of the numbers.
LEMMA FifoRanges ==
    ASSUME IInv
    PROVE  /\ NChunks \in Nat /\ sent \in 0 .. NChunks /\ out \in Seq(Chunks) /\ Len(out) \in Nat
           /\ c2s \in Seq(Outgoing) /\ Len(c2s) \in Nat /\ Len(c2s) <= ChannelCap
           /\ slot \in [1 .. MAX_INFLIGHT -> Chunks \cup {0}] /\ i \in 1 .. MAX_INFLIGHT
           /\ {retx, server_isn, expected} \subseteq Nat /\ retx <= MaxRetx
           /\ {MAX_INFLIGHT, MaxRetx, ChannelCap} \subseteq Nat
<1>1. sent \in 0 .. NChunks /\ out \in Seq(Chunks) /\ Len(c2s) <= ChannelCap
      BY DEF IInv, TypeOK
<1>2. c2s \in Seq(Outgoing) /\ Len(c2s) \in Nat
      BY OutgoingPackets DEF IInv, ChannelsOK
<1>3. slot \in [1 .. MAX_INFLIGHT -> Chunks \cup {0}] /\ i \in 1 .. MAX_INFLIGHT
      BY DEF IInv, TypeOK
<1>4. {server_isn, expected} \subseteq Nat /\ retx \in 0 .. MaxRetx
      BY DEF IInv, TypeOK
<1>5. {MAX_INFLIGHT, MaxRetx, ChannelCap} \subseteq Nat
      BY ShamAssumption
<1>6. NChunks \in Nat
      BY ChunkSizes
<1>7. Len(out) \in Nat
      BY <1>1
<1>   QED BY <1>1, <1>2, <1>3, <1>4, <1>5, <1>6, <1>7

\* Chunks sent again and FINs are among what the client sends.
LEMMA LateIsOutgoing ==
    ASSUME NEW n \in 0 .. NChunks, NChunks \in Nat
    PROVE  Late(n) \subseteq Outgoing
<1>1. \A j \in 1 .. n : j \in Chunks
      BY DEF Chunks
<1>2. \A j \in 1 .. n : Data(j) \in Outgoing
      BY <1>1, OutgoingPackets
<1>   QED BY <1>2, OutgoingPackets DEF Late

\* Whatever the client sends when the handshake is over comes behind it.
LEMMA SentBehind ==
    ASSUME IInv, FifoInv, client \notin Early, client' \notin Early, UNCHANGED svars,
           server \in Reading => \E s \in Seq(Outgoing) : c2s' = c2s \o s
    PROVE  ShakeOK'
<1>1. server' # "listen"
      BY DEF FifoInv, ShakeOK, svars
<1>2. c2s \in Seq(Outgoing)
      BY OutgoingPackets DEF IInv, ChannelsOK
<1>3. ASSUME server \in {"await_ack", "name"}
      PROVE  /\ Len(c2s') >= Len(c2s) /\ \A k \in 1 .. Len(c2s) : c2s'[k] = c2s[k]
             /\ Len(c2s) \in Nat /\ Len(c2s') \in Nat
  <2>1. PICK s \in Seq(Outgoing) : c2s' = c2s \o s
        BY <1>3 DEF Reading
  <2>2. Len(c2s \o s) = Len(c2s) + Len(s) /\ \A k \in 1 .. Len(c2s) : (c2s \o s)[k] = c2s[k]
        BY <1>2
  <2>   QED BY <1>2, <2>1, <2>2
<1>4. server' = "await_ack" =>
        Len(c2s') >= 2 /\ c2s'[1] = Ack(1, server_isn' + 1, 0) /\ c2s'[2] = Name
  <2> SUFFICES ASSUME server' = "await_ack"
               PROVE Len(c2s') >= 2 /\ c2s'[1] = Ack(1, server_isn' + 1, 0) /\ c2s'[2] = Name
      OBVIOUS
  <2>1. server = "await_ack" /\ server_isn' = server_isn
        BY DEF svars
  <2>2. Len(c2s) >= 2 /\ c2s[1] = Ack(1, server_isn + 1, 0) /\ c2s[2] = Name
        BY <2>1 DEF FifoInv, ShakeOK
  <2>3. 1 \in 1 .. Len(c2s) /\ 2 \in 1 .. Len(c2s) /\ Len(c2s') >= 2
        BY <2>1, <2>2, <1>3
  <2>4. c2s'[1] = c2s[1] /\ c2s'[2] = c2s[2]
        BY <2>1, <2>3, <1>3
  <2>   QED BY <2>1, <2>2, <2>3, <2>4
<1>5. server' = "name" => Len(c2s') >= 1 /\ c2s'[1] = Name
  <2> SUFFICES ASSUME server' = "name" PROVE Len(c2s') >= 1 /\ c2s'[1] = Name
      OBVIOUS
  <2>1. server = "name"
        BY DEF svars
  <2>2. Len(c2s) >= 1 /\ c2s[1] = Name
        BY <2>1 DEF FifoInv, ShakeOK
  <2>3. 1 \in 1 .. Len(c2s) /\ Len(c2s') >= 1
        BY <2>1, <2>2, <1>3
  <2>4. c2s'[1] = c2s[1]
        BY <2>1, <2>3, <1>3
  <2>   QED BY <2>2, <2>3, <2>4
<1>6. server' = "data" /\ out' = <<>> => expected' = 1 + NameLen
      BY DEF FifoInv, ShakeOK, svars
<1>7. client' \notin {"start", "synack"}
      BY DEF Early
<1>   QED BY <1>1, <1>4, <1>5, <1>6, <1>7 DEF ShakeOK, Early

\* The client sends nothing, or chunks again, or FINs.
LEMMA OrderBehind ==
    ASSUME IInv, FifoInv, client \notin Early, client' \notin Early, UNCHANGED <<svars, sent>>,
           client' \notin Over => client \notin Over, retx' \in Nat,
           server \in Reading =>
             \E s \in Seq(Late(sent)) : /\ c2s' = c2s \o s
                                        /\ client' \notin Over => Len(s) = retx' - retx
    PROVE  ShakeOK' /\ InOrder'
<1>0. /\ NChunks \in Nat /\ sent \in 0 .. NChunks /\ Len(out) \in Nat /\ c2s \in Seq(Outgoing) /\ Len(c2s) \in Nat
      /\ out' = out /\ server' = server /\ sent' = sent /\ retx \in Nat
      BY FifoRanges DEF svars
<1>1. Late(sent) \subseteq Outgoing
  <2>1. \A j \in 1 .. sent : Data(j) \in Outgoing
        BY <1>0, OutgoingPackets DEF Chunks
  <2>   QED BY <2>1, OutgoingPackets DEF Late
<1>2. ShakeOK'
  <2>1. server \in Reading => \E s \in Seq(Outgoing) : c2s' = c2s \o s
        BY <1>1
  <2>   QED BY <2>1, SentBehind
<1>3. ASSUME server \in Reading
      PROVE  /\ Arrives(c2s', Ahead, sent, Len(out))
             /\ client' \notin Over => Len(c2s') <= Ahead + (sent - Len(out)) + retx'
  <2>1. PICK s \in Seq(Late(sent)) : c2s' = c2s \o s /\ (client' \notin Over => Len(s) = retx' - retx)
        BY <1>3
  <2>2. /\ Arrives(c2s, Ahead, sent, Len(out))
        /\ client \notin Over => Len(c2s) <= Ahead + (sent - Len(out)) + retx
        BY <1>3 DEF FifoInv, InOrder
  <2>3. Ahead \in Nat /\ Ahead <= Len(c2s)
        BY <1>0 DEF Ahead, FifoInv, ShakeOK
  <2>4. Arrives(c2s', Ahead, sent, Len(out))
        BY <1>0, <2>1, <2>2, <2>3, ArrivesBehind
  <2>5. client' \notin Over => Len(c2s') <= Ahead + (sent - Len(out)) + retx'
    <3> SUFFICES ASSUME client' \notin Over PROVE Len(c2s') <= Ahead + (sent - Len(out)) + retx'
        OBVIOUS
    <3>1. Len(c2s') = Len(c2s) + Len(s) /\ Len(s) \in Nat
          BY <1>0, <2>1
    <3>2. Len(s) = retx' - retx
          BY <2>1
    <3>3. retx \in Nat /\ retx' \in Nat
          BY <1>0
    <3>4. Len(c2s) <= Ahead + (sent - Len(out)) + retx
          BY <2>2
    <3>5. sent \in Nat /\ Len(out) \in Nat /\ Ahead \in Nat /\ Len(c2s) \in Nat
          BY <1>0, <2>3
    <3>   QED BY <3>1, <3>2, <3>3, <3>4, <3>5
  <2>   QED BY <2>4, <2>5
<1>4. Ahead' = Ahead
      BY <1>0 DEF Ahead
<1>   QED BY <1>0, <1>2, <1>3, <1>4 DEF InOrder

\* The chunks that are not written are all in slots.
LEMMA Outstanding ==
    ASSUME IInv, FifoInv, FifoAssumption, server \in Reading, NEW j \in Len(out) + 1 .. sent
    PROVE  \E k \in 1 .. MAX_INFLIGHT : slot[k] = j
<1>0. /\ NChunks \in Nat /\ sent \in 0 .. NChunks /\ Len(out) \in Nat /\ expected \in Nat
      BY ChunkSizes DEF IInv, TypeOK
<1>1. j \in Chunks /\ j \in 1 .. sent /\ j > Len(out)
      BY <1>0 DEF Chunks
<1>2. End(j) > expected /\ End(j) \in Nat
      BY <1>1, ExpectedIsNext, ChunkNumbers
<1>3. (\A k \in 1 .. MAX_INFLIGHT : slot[k] # j) => End(j) <= expected
      BY <1>1 DEF IInv, CopiesOK
<1>   QED BY <1>0, <1>2, <1>3

\* There is room for all the client may have under way before it has read the file.
LEMMA RoomForAll ==
    ASSUME IInv, FifoInv, FifoAssumption, client \notin Early, client \notin Over, server \in Reading,
           NEW n \in Nat, retx + n <= MaxRetx
    PROVE  Len(c2s) + n <= ChannelCap
<1>0. /\ sent \in Nat /\ Len(out) \in Nat /\ MAX_INFLIGHT \in Nat /\ MaxRetx \in Nat /\ retx \in Nat
      /\ ChannelCap \in Nat /\ Len(c2s) \in Nat
      BY FifoRanges
<1>1. sent - Len(out) <= MAX_INFLIGHT
      BY <1>0, Outstanding, PlacesEnough
<1>2. Len(c2s) <= Ahead + (sent - Len(out)) + retx
      BY DEF FifoInv, InOrder
<1>3. Ahead \in 0 .. 2
      BY DEF Ahead
<1>   QED BY <1>0, <1>1, <1>2, <1>3 DEF FifoAssumption

\* The handshake.
LEMMA FifoConnects ==
    ASSUME IInv, FifoInv, FifoAssumption, Connect \/ Connected
    PROVE  ShakeOK' /\ InOrder'
<1>0. /\ ChannelCap \in Nat /\ ChannelCap >= 3 /\ NChunks \in Nat /\ retx \in Nat
      /\ out \in Seq(Chunks) /\ retx' = retx /\ sent' = sent
  <2>1. MAX_INFLIGHT \in Nat \ {0} /\ MaxRetx \in Nat /\ ChannelCap \in Nat
        BY ShamAssumption
  <2>2. ChannelCap >= 3
        BY <2>1 DEF FifoAssumption
  <2>3. retx' = retx /\ sent' = sent
        BY DEF Connect, Connected
  <2>   QED BY <2>1, <2>2, <2>3, FifoRanges
<1>1. CASE Connect
  <2>1. /\ server = "listen" /\ c2s = <<>> /\ s2c = <<>> /\ sent = 0 /\ UNCHANGED <<svars, s2c>>
        /\ client' = "synack" /\ ToServer(<<Syn>>)
        BY <1>1 DEF Connect, FifoInv, ShakeOK, Early
  <2>2. c2s' = <<Syn>>
    <3>1. c2s' = Sent(<<>>, <<Syn>>)
          BY <2>1 DEF ToServer
    <3>   QED BY <3>1, <1>0, SentAlone
  <2>   QED BY <1>0, <2>1, <2>2 DEF ShakeOK, InOrder, Early, svars
<1>2. CASE Connected
  <2>1. /\ server = "await_ack" /\ c2s = <<>> /\ sent = 0
        /\ s2c = <<Pkt("SYNACK", server_isn, 1, 0, DEFAULT_WIN)>>
        BY <1>2 DEF Connected, FifoInv, ShakeOK, Early
  <2>2. /\ client' \in {"fill", "failed"} /\ UNCHANGED svars
        /\ ToServer(<<Ack(1, server_isn + 1, 0), Name>>)
    <3>1. Head(s2c).kind = "SYNACK" /\ Head(s2c).seq = server_isn
          BY <2>1 DEF Pkt
    <3>   QED BY <1>2, <3>1 DEF Connected, Opened
  <2> DEFINE a == Ack(1, server_isn + 1, 0)
  <2> HIDE DEF a
  <2>3. c2s' = <<a, Name>>
    <3>1. c2s' = Sent(<<>>, <<a, Name>>)
          BY <2>1, <2>2 DEF ToServer, a
    <3>   QED BY <3>1, <1>0, SentAlone
  <2>4. /\ server' = "await_ack" /\ server_isn' = server_isn /\ out' = out /\ sent' = 0 /\ Ahead' = 2
        BY <2>1, <2>2, <1>0 DEF svars, Ahead
  <2>5. ShakeOK'
    <3>1. Len(c2s') >= 2 /\ c2s'[1] = a /\ c2s'[2] = Name
          BY <2>3
    <3>   QED BY <2>2, <2>4, <3>1 DEF ShakeOK, Early, a
  <2>6. Arrives(c2s', 2, 0, Len(out')) /\ Len(c2s') <= 2 + (0 - Len(out')) + retx'
    <3>1. Len(c2s') = 2
          BY <2>3
    <3>2. out' = <<>> /\ Len(out') = 0
          BY <2>1, <2>4 DEF IInv, ServerOK
    <3>   QED BY <3>1, <3>2, <1>0 DEF Arrives
  <2>   QED BY <2>4, <2>5, <2>6 DEF InOrder
<1>   QED BY <1>1, <1>2

\* The client reads and sends the next chunk.
LEMMA FifoSends ==
    ASSUME IInv, FifoInv, FifoAssumption, SendChunk
    PROVE  ShakeOK' /\ InOrder'
<1> DEFINE d == Data(sent + 1)
<1>0. /\ NChunks \in Nat /\ sent \in 0 .. NChunks /\ sent + 1 \in Chunks /\ Len(out) \in Nat
      /\ c2s \in Seq(Outgoing) /\ Len(c2s) \in Nat /\ retx \in Nat /\ MAX_INFLIGHT \in Nat /\ MaxRetx \in Nat
      /\ slot \in [1 .. MAX_INFLIGHT -> Chunks \cup {0}] /\ i \in 1 .. MAX_INFLIGHT /\ slot[i] = 0
      /\ ChannelCap \in Nat /\ retx <= MaxRetx
  <2>1. slot[i] = 0 /\ sent # NChunks
        BY DEF SendChunk, AllRead
  <2>2. sent + 1 \in Chunks
        BY <2>1, FifoRanges DEF Chunks
  <2>   QED BY <2>1, <2>2, FifoRanges
<1>1. /\ client = "fill" /\ client' = "poll" /\ sent' = sent + 1 /\ UNCHANGED <<svars, retx>>
      /\ slot' = [slot EXCEPT ![i] = sent + 1] /\ ToServer(<<d>>)
      BY DEF SendChunk
<1>2. d \in Outgoing
      BY <1>0, OutgoingPackets
<1> HIDE DEF d
<1>3. ASSUME server \in Reading
      PROVE  c2s' = c2s \o <<d>> /\ Len(c2s) <= Ahead + (sent - Len(out)) + retx
  <2>1. ASSUME NEW j \in Len(out) + 1 .. sent + 1 PROVE \E k \in 1 .. MAX_INFLIGHT : slot'[k] = j
    <3>1. CASE j = sent + 1
          BY <3>1, <1>0, <1>1
    <3>2. CASE j # sent + 1
      <4>1. j \in Len(out) + 1 .. sent
            BY <3>2, <1>0
      <4>2. PICK k \in 1 .. MAX_INFLIGHT : slot[k] = j
            BY <4>1, <1>3, Outstanding
      <4>3. k # i /\ slot'[k] = j
            BY <4>1, <4>2, <1>0, <1>1
      <4>   QED BY <4>3
    <3>   QED BY <3>1, <3>2
  <2>2. (sent + 1) - Len(out) <= MAX_INFLIGHT
    <3>1. PICK s : s = slot'
          OBVIOUS
    <3>2. Len(out) \in Nat /\ sent + 1 \in Nat /\ MAX_INFLIGHT \in Nat
          BY <1>0
    <3>3. \A j \in Len(out) + 1 .. sent + 1 : \E k \in 1 .. MAX_INFLIGHT : s[k] = j
          BY <2>1, <3>1
    <3>   QED BY <3>2, <3>3, PlacesEnough
  <2>3. Len(c2s) <= Ahead + (sent - Len(out)) + retx
        BY <1>1, <1>3 DEF FifoInv, InOrder, Early, Over
  <2>4. Ahead \in 0 .. 2
        BY DEF Ahead
  <2>5. Len(c2s) + 1 <= ChannelCap
        BY <2>2, <2>3, <2>4, <1>0 DEF FifoAssumption
  <2>6. <<d>> \in Seq(Outgoing) /\ Len(<<d>>) = 1
        BY <1>2
  <2>7. Sent(c2s, <<d>>) = c2s \o <<d>>
        BY <2>5, <2>6, <1>0, SentFits
  <2>   QED BY <2>3, <2>7, <1>1, <1>3 DEF ToServer, Reading
<1>4. ShakeOK'
  <2>1. <<d>> \in Seq(Outgoing)
        BY <1>2
  <2>   QED BY <2>1, <1>1, <1>3, SentBehind DEF Early
<1>5. ASSUME server \in Reading
      PROVE  /\ Arrives(c2s', Ahead, sent + 1, Len(out))
             /\ Len(c2s') <= Ahead + ((sent + 1) - Len(out)) + retx
  <2>1. Arrives(c2s, Ahead, sent, Len(out))
        BY <1>1, <1>5 DEF FifoInv, InOrder, Early
  <2>2. Ahead \in Nat /\ Ahead <= Len(c2s)
        BY <1>0, <1>1 DEF Ahead, FifoInv, ShakeOK, Early
  <2>3. sent \in Nat /\ Len(out) \in Nat
        BY <1>0
  <2>4. Arrives(c2s \o <<d>>, Ahead, sent + 1, Len(out))
        BY <2>1, <2>2, <2>3, <1>0, ArrivesNew DEF d
  <2>5. Len(c2s \o <<d>>) = Len(c2s) + 1
        BY <1>0, <1>2
  <2>6. c2s' = c2s \o <<d>> /\ Len(c2s) <= Ahead + (sent - Len(out)) + retx
        BY <1>3, <1>5
  <2>7. Len(c2s') <= Ahead + ((sent + 1) - Len(out)) + retx
    <3>1. Len(c2s') = Len(c2s) + 1 /\ Len(c2s) \in Nat /\ sent \in Nat /\ Len(out) \in Nat /\ retx \in Nat
          BY <2>5, <2>6, <1>0
    <3>   QED BY <3>1, <2>2, <2>6
  <2>   QED BY <2>4, <2>6, <2>7
<1>6. Ahead' = Ahead /\ server' = server /\ out' = out
      BY <1>1 DEF Ahead, svars
<1>   QED BY <1>1, <1>4, <1>5, <1>6 DEF InOrder

\* The client has read the file and takes leave.
LEMMA FifoFinishes ==
    ASSUME IInv, FifoInv, FifoAssumption, Finish
    PROVE  ShakeOK' /\ InOrder'
<1> DEFINE f == Fin(FileEnd)
<1>1. /\ client = "fill" /\ client' = "closing" /\ UNCHANGED <<svars, sent>> /\ retx' = retx
      /\ sent = NChunks /\ ToServer(<<f, f>>)
      BY DEF Finish, EndSeen, AllRead
<1>2. f \in Late(sent) /\ f \in Outgoing
      BY <1>1, OutgoingPackets DEF Late
<1>3. Late(sent) \subseteq Outgoing
      BY FifoRanges, LateIsOutgoing
<1>4. ASSUME server \in Reading PROVE \E s \in Seq(Late(sent)) : c2s' = c2s \o s
  <2> HIDE DEF f
  <2>1. <<f, f>> \in Seq(Late(sent))
        BY <1>2
  <2>2. \E s \in Seq(Late(sent)) : Sent(c2s, <<f, f>>) = c2s \o s
        BY <1>3, <2>1, FifoRanges, SentSome
  <2>   QED BY <1>1, <1>4, <2>2 DEF ToServer, Reading
<1>5. client \notin Early /\ client' \notin Early /\ client' \in Over /\ retx' \in Nat
      BY <1>1, FifoRanges DEF Early, Over
<1>   QED BY <1>1, <1>4, <1>5, OrderBehind

\* The client does not look at the socket.
LEMMA FifoGoesOn ==
    ASSUME IInv, FifoInv, FifoAssumption, SkipUsed \/ WindowFull
    PROVE  ShakeOK' /\ InOrder'
<1>1. /\ client = "fill" /\ client' \in {"fill", "poll"} /\ UNCHANGED <<svars, sent>> /\ retx' = retx /\ c2s' = c2s
      BY DEF SkipUsed, WindowFull
<1>2. <<>> \in Seq(Late(sent)) /\ c2s' = c2s \o <<>> /\ Len(<<>>) = retx' - retx
      BY <1>1, FifoRanges
<1>3. client \notin Early /\ client' \notin Early /\ client \notin Over /\ retx' \in Nat
      BY <1>1, FifoRanges DEF Early, Over
<1>   QED BY <1>1, <1>2, <1>3, OrderBehind

\* The client sends again what is not acknowledged.
LEMMA FifoResends ==
    ASSUME IInv, FifoInv, FifoAssumption, PollTimeout \/ PollReceive
    PROVE  ShakeOK' /\ InOrder'
<1>1. /\ client = "poll" /\ client' = "fill" /\ UNCHANGED <<svars, sent>>
      BY DEF PollTimeout, PollReceive, RetransmitAndNext
<1>2. PICK slots : RetransmitAndNext(slots) /\ \A k \in 1 .. MAX_INFLIGHT : slots[k] \in {0, slot[k]}
  <2>1. ASSUME PollTimeout PROVE \E slots : RetransmitAndNext(slots) /\ \A k \in 1 .. MAX_INFLIGHT : slots[k] \in {0, slot[k]}
    <3>1. RetransmitAndNext(slot) /\ \A k \in 1 .. MAX_INFLIGHT : slot[k] \in {0, slot[k]}
          BY <2>1 DEF PollTimeout
    <3>   QED BY <3>1
  <2>2. ASSUME PollReceive PROVE \E slots : RetransmitAndNext(slots) /\ \A k \in 1 .. MAX_INFLIGHT : slots[k] \in {0, slot[k]}
    <3>1. RetransmitAndNext(slot')
          BY <2>2 DEF PollReceive
    <3>2. \A ack : \A k \in 1 .. MAX_INFLIGHT : Freed(ack)[k] \in {0, slot[k]}
          BY DEF Freed
    <3>3. slot' = slot \/ slot' = Freed(Head(s2c).ack)
          BY <2>2 DEF PollReceive
    <3>4. \A k \in 1 .. MAX_INFLIGHT : slot'[k] \in {0, slot[k]}
          BY <3>2, <3>3
    <3>   QED BY <3>1, <3>4
  <2>   QED BY <2>1, <2>2
<1>3. PICK due \in SUBSET {k \in 1 .. MAX_INFLIGHT : slots[k] # 0} :
         /\ retx + Cardinality(due) <= MaxRetx
         /\ retx' = retx + Cardinality(due)
         /\ ToServer(Resent(slots, due))
      BY <1>2 DEF RetransmitAndNext
<1> DEFINE s == Resent(slots, due)
<1>4. \A k \in due : k \in 1 .. MAX_INFLIGHT /\ slots[k] \in 1 .. sent /\ slots[k] \in Chunks
  <2>1. \A k \in due : k \in 1 .. MAX_INFLIGHT /\ slots[k] = slot[k] /\ slot[k] # 0
        BY <1>2
  <2>2. \A k \in 1 .. MAX_INFLIGHT : slot[k] <= sent /\ slot[k] \in Chunks \cup {0}
        BY FifoRanges DEF FifoInv, SlotsOK
  <2>   QED BY <2>1, <2>2, FifoRanges DEF Chunks
<1>5. s \in Seq({Data(slots[k]) : k \in due}) /\ s \in Seq(FileData) /\ Len(s) = Cardinality(due)
  <2>1. due \in SUBSET {k \in 1 .. MAX_INFLIGHT : slots[k] \in Chunks}
        BY <1>4
  <2>   QED BY <2>1, ResentIsData
<1>6. Cardinality(due) \in Nat
  <2>1. IsFiniteSet(1 .. MAX_INFLIGHT)
        BY FifoRanges, FS_Interval
  <2>2. due \subseteq 1 .. MAX_INFLIGHT
        OBVIOUS
  <2>   QED BY <2>1, <2>2, FS_Subset, FS_CardinalityType
<1> HIDE DEF s
<1>7. s \in Seq(Late(sent))
  <2> DEFINE D == {Data(slots[k]) : k \in due}
             L == Late(sent)
  <2>1. D \subseteq L
        BY <1>4 DEF Late
  <2>2. s \in Seq(D)
        BY <1>5
  <2> HIDE DEF D, L
  <2>3. s \in Seq(L)
        BY <2>1, <2>2
  <2>   QED BY <2>3 DEF L
<1>8. client \notin Early /\ client' \notin Early /\ client \notin Over /\ retx' \in Nat
      BY <1>1, <1>3, <1>6, FifoRanges DEF Early, Over
<1>9. ASSUME server \in Reading PROVE c2s' = c2s \o s /\ Len(s) = retx' - retx
  <2>1. Len(c2s) + Len(s) <= ChannelCap
        BY <1>3, <1>5, <1>6, <1>8, <1>9, RoomForAll
  <2>2. s \in Seq(Outgoing)
        BY <1>7, LateIsOutgoing, FifoRanges
  <2>3. Sent(c2s, s) = c2s \o s
        BY <2>1, <2>2, FifoRanges, SentFits
  <2>4. retx \in Nat
        BY FifoRanges
  <2>   QED BY <2>3, <2>4, <1>3, <1>5, <1>6, <1>9 DEF ToServer, Reading, s
<1>   QED BY <1>1, <1>7, <1>8, <1>9, OrderBehind

\* The client repeats its FIN.
LEMMA FifoCloses ==
    ASSUME IInv, FifoInv, FifoAssumption, ClosingTimeout \/ ClosingReceive
    PROVE  ShakeOK' /\ InOrder'
<1> DEFINE f == Fin(FileEnd)
<1>1. /\ client = "closing" /\ client' \in Over /\ UNCHANGED <<svars, sent>> /\ retx' = retx
      BY DEF ClosingTimeout, ClosingReceive, cvars, Over
<1>2. f \in Late(sent)
      BY <1>1 DEF Late, FifoInv, SlotsOK, Over
<1>3. Late(sent) \subseteq Outgoing
      BY FifoRanges, LateIsOutgoing
<1>4. ASSUME server \in Reading PROVE \E s \in Seq(Late(sent)) : c2s' = c2s \o s
  <2>1. PICK acked : ToServer(FinUnless(acked))
    <3>1. CASE ClosingTimeout
          BY <3>1 DEF ClosingTimeout
    <3>2. CASE ClosingReceive
      <4>1. ~got_fin /\ s2c # <<>> /\ Head(s2c).kind # "FIN"
        <5>1. ~got_fin /\ s2c \in Seq(Replies) /\ s2c # <<>>
              BY <1>4, <3>2 DEF Reading, FifoInv, NoFinYet, ClosingReceive
        <5>   QED BY <5>1 DEF Replies
      <4> DEFINE fins == ~AcksFin(Head(s2c)) /\ Head(s2c).kind = "FIN"
                 last == <<Ack(0, Head(s2c).seq + 1, 0)>>
      <4>2. /\ got_fin' = got_fin
            /\ client' = (IF got_ack' /\ got_fin' THEN "exit" ELSE "closing")
            /\ ToServer(<<>> \o (IF client' = "exit" THEN last ELSE FinUnless(got_ack')))
        <5>1. fins = FALSE
              BY <4>1
        <5>2. got_fin' = (got_fin \/ fins)
              BY <3>2 DEF ClosingReceive
        <5>3. got_fin' = got_fin
          <6>1. got_fin \in BOOLEAN
                BY DEF IInv, TypeOK
          <6>   QED BY <4>1, <5>1, <5>2, <6>1
        <5>4. ToServer((IF fins THEN last ELSE <<>>) \o
                       (IF client' = "exit" THEN last ELSE FinUnless(got_ack')))
              BY <3>2 DEF ClosingReceive
        <5>5. client' = (IF got_ack' /\ got_fin' THEN "exit" ELSE "closing")
              BY <3>2 DEF ClosingReceive
        <5> HIDE DEF fins
        <5>   QED BY <5>1, <5>3, <5>4, <5>5
      <4>3. client' # "exit"
            BY <4>1, <4>2
      <4>4. <<>> \o FinUnless(got_ack') = FinUnless(got_ack')
            BY DEF FinUnless
      <4>5. ToServer(<<>> \o FinUnless(got_ack'))
            BY <4>2, <4>3
      <4>   QED BY <4>4, <4>5
    <3>   QED BY <3>1, <3>2
  <2> HIDE DEF f
  <2>2. <<>> \in Seq(Late(sent)) /\ <<f>> \in Seq(Late(sent))
        BY <1>2
  <2>3. FinUnless(acked) \in Seq(Late(sent))
        BY <2>2 DEF FinUnless, f
  <2>4. \E s \in Seq(Late(sent)) : Sent(c2s, FinUnless(acked)) = c2s \o s
        BY <1>3, <2>3, FifoRanges, SentSome
  <2>   QED BY <1>1, <1>4, <2>1, <2>4 DEF ToServer, Reading
<1>5. client \notin Early /\ client' \notin Early /\ retx' \in Nat
      BY <1>1, FifoRanges DEF Early, Over
<1>   QED BY <1>1, <1>4, <1>5, OrderBehind

\* The server reads the handshake.
LEMMA FifoShakes ==
    ASSUME IInv, FifoInv, FifoAssumption, Listen
    PROVE  ShakeOK' /\ InOrder'
<1>1. server = "listen" /\ c2s # <<>> /\ c2s' = Tail(c2s) /\ UNCHANGED <<cvars, out, expected>>
      BY DEF Listen, Take, Others
<1>2. client = "synack" /\ c2s = <<Syn>> /\ s2c = <<>>
      BY <1>1 DEF FifoInv, ShakeOK, Early
<1>3. Head(c2s).kind = "SYN"
      BY <1>2 DEF Syn, Pkt
<1> DEFINE p == Pkt("SYNACK", server_isn', 1, 0, DEFAULT_WIN)
<1>4. server' = "await_ack" /\ s2c' = Sent(<<>>, <<p>>)
      BY <1>2, <1>3 DEF Listen, ToClient
<1>5. c2s' = <<>> /\ client' = "synack" /\ sent' = sent
      BY <1>1, <1>2 DEF cvars
<1>6. s2c' = <<p>>
  <2> HIDE DEF p
  <2>1. ChannelCap >= 3
        BY ShamAssumption DEF FifoAssumption
  <2>   QED BY <2>1, <1>4, SentAlone
<1>   QED BY <1>2, <1>4, <1>5, <1>6 DEF ShakeOK, InOrder, Early, FifoInv

\* Behind the handshake the packets stay in order while it is read.
LEMMA InOrderShakes ==
    ASSUME IInv, FifoInv, client \notin Early, client' = client, UNCHANGED <<sent, retx, out>>,
           server \in {"await_ack", "name"}, c2s' = Tail(c2s), Len(c2s) >= Ahead, Ahead' = Ahead - 1
    PROVE  InOrder'
<1>1. /\ Arrives(c2s, Ahead, sent, Len(out))
      /\ client \notin Over => Len(c2s) <= Ahead + (sent - Len(out)) + retx
      BY DEF FifoInv, InOrder, Reading
<1>2. Ahead \in Nat \ {0}
      BY DEF Ahead
<1>3. /\ c2s \in Seq(Outgoing) /\ Len(c2s) \in Nat /\ sent \in Nat /\ Len(out) \in Nat /\ retx \in Nat
      BY FifoRanges
<1>4. Arrives(Tail(c2s), Ahead - 1, sent, Len(out))
      BY <1>1, <1>2, <1>3, ArrivesAfterShake
<1>5. client \notin Over => Len(c2s') <= (Ahead - 1) + (sent - Len(out)) + retx
  <2>1. Len(c2s') = Len(c2s) - 1
        BY <1>2, <1>3
  <2>   QED BY <2>1, <1>1, <1>2, <1>3
<1>   QED BY <1>4, <1>5 DEF InOrder

\* The server reads a packet of the handshake that the client sent behind its SYN.
LEMMA FifoGreets ==
    ASSUME IInv, FifoInv, FifoAssumption, AwaitAck \/ ReceiveName
    PROVE  ShakeOK' /\ InOrder'
<1>1. /\ server \in {"await_ack", "name"} /\ c2s # <<>> /\ c2s' = Tail(c2s) /\ UNCHANGED <<cvars, retx, out, server_isn>>
      BY DEF AwaitAck, ReceiveName, Take, Others
<1>2. client \notin Early /\ client' = client /\ sent' = sent
      BY <1>1 DEF FifoInv, ShakeOK, Early, cvars
<1>3. /\ c2s \in Seq(Outgoing) /\ Len(c2s) \in Nat /\ Len(c2s') = Len(c2s) - 1 /\ Head(c2s) = c2s[1]
      /\ \A k \in 1 .. Len(c2s) - 1 : c2s'[k] = c2s[k + 1]
  <2>1. c2s \in Seq(Outgoing)
        BY FifoRanges
  <2>2. Len(Tail(c2s)) = Len(c2s) - 1 /\ \A k \in 1 .. Len(c2s) - 1 : Tail(c2s)[k] = c2s[k + 1]
        BY <1>1, <2>1
  <2>   QED BY <1>1, <2>1, <2>2
<1>4. CASE AwaitAck
  <2>1. server = "await_ack" /\ Ahead = 2
        BY <1>4 DEF AwaitAck, Ahead
  <2>2. Len(c2s) >= 2 /\ c2s[1] = Ack(1, server_isn + 1, 0) /\ c2s[2] = Name
        BY <1>2, <2>1 DEF FifoInv, ShakeOK
  <2>3. server' = "name"
    <3>1. Head(c2s).kind = "ACK" /\ Head(c2s).ack = server_isn + 1
          BY <1>3, <2>2 DEF Ack, Pkt
    <3>   QED BY <1>4, <3>1 DEF AwaitAck
  <2>4. Len(c2s') >= 1 /\ c2s'[1] = Name /\ Ahead' = 1
    <3>1. 1 \in 1 .. Len(c2s) - 1
          BY <1>3, <2>2
    <3>   QED BY <1>3, <2>2, <2>3, <3>1 DEF Ahead
  <2>   QED BY <1>1, <1>2, <1>3, <2>1, <2>2, <2>3, <2>4, InOrderShakes DEF ShakeOK, Early
<1>5. CASE ReceiveName
  <2>1. server = "name" /\ Ahead = 1
        BY <1>5 DEF ReceiveName, Ahead
  <2>2. Len(c2s) >= 1 /\ c2s[1] = Name
        BY <1>2, <2>1 DEF FifoInv, ShakeOK
  <2>3. server' \in {"data", "failed"} /\ expected' = 1 + NameLen
    <3>1. Head(c2s).seq = 1 /\ Head(c2s).len = NameLen
          BY <1>3, <2>2 DEF Name, Pkt
    <3>2. NameLen # 0 /\ NameKept(NameLen) = NameLen
          BY ShamAssumption DEF NameKept, Least, FifoAssumption
    <3>   QED BY <1>5, <3>1, <3>2 DEF ReceiveName, Opened
  <2>4. Ahead' = 0
        BY <2>3 DEF Ahead
  <2>   QED BY <1>1, <1>2, <1>3, <2>1, <2>2, <2>3, <2>4, InOrderShakes DEF ShakeOK, Early
<1>   QED BY <1>4, <1>5

\* The server reads a packet for the file.
LEMMA FifoWrites ==
    ASSUME IInv, FifoInv, FifoAssumption, ReceiveData
    PROVE  /\ ShakeOK' /\ InOrder'
           /\ \/ Len(out) + 1 \in Chunks /\ out' = Append(out, Len(out) + 1)
              \/ out' = out
<1>1. /\ server = "data" /\ c2s # <<>> /\ c2s' = Tail(c2s) /\ UNCHANGED <<cvars, retx, server>>
      BY DEF ReceiveData, Take, Others
<1>2. client \notin Early /\ client' = client /\ sent' = sent
      BY <1>1 DEF FifoInv, ShakeOK, Early, cvars
<1>3. PICK j \in 1 .. sent :
             /\ j <= Len(out) + 1
             /\ Arrives(Tail(c2s), 0, sent, IF j = Len(out) + 1 THEN j ELSE Len(out))
             /\ \/ j = Len(out) + 1 /\ out' = out \o <<j>>
                \/ j # Len(out) + 1 /\ UNCHANGED <<out, expected>>
      BY DataInOrder
<1>4. /\ Len(out) \in Nat /\ out \in Seq(Chunks) /\ Len(c2s) \in Nat /\ Len(c2s') = Len(c2s) - 1
      /\ sent \in 0 .. NChunks /\ NChunks \in Nat /\ retx \in Nat /\ j \in Chunks
  <2>1. c2s \in Seq(Outgoing)
        BY FifoRanges
  <2>2. Len(Tail(c2s)) = Len(c2s) - 1
        BY <1>1, <2>1
  <2>   QED BY <1>1, <2>2, FifoRanges DEF Chunks
<1>5. Ahead = 0 /\ Ahead' = 0
      BY <1>1 DEF Ahead
<1>6. client \notin Over => Len(c2s) <= sent - Len(out) + retx
  <2>1. client \notin Over => Len(c2s) <= Ahead + (sent - Len(out)) + retx
        BY <1>1, <1>2 DEF FifoInv, InOrder, Reading
  <2>   QED BY <2>1, <1>4, <1>5
<1>7. CASE j = Len(out) + 1
  <2>1. out' = out \o <<j>> /\ out' = Append(out, j) /\ Len(out') = j /\ out' # <<>>
        BY <1>3, <1>4, <1>7
  <2>2. Arrives(c2s', 0, sent, j)
        BY <1>1, <1>3, <1>7
  <2>3. client' \notin Over => Len(c2s') <= 0 + (sent' - Len(out')) + retx'
        BY <1>1, <1>2, <1>4, <1>6, <1>7, <2>1
  <2>   QED BY <1>1, <1>2, <1>4, <1>5, <1>7, <2>1, <2>2, <2>3 DEF ShakeOK, InOrder, Early
<1>8. CASE j # Len(out) + 1
  <2>1. out' = out /\ expected' = expected
        BY <1>3, <1>8
  <2>2. Arrives(c2s', 0, sent, Len(out))
        BY <1>1, <1>3, <1>8
  <2>3. client' \notin Over => Len(c2s') <= 0 + (sent' - Len(out')) + retx'
        BY <1>1, <1>2, <1>4, <1>6, <2>1
  <2>4. out' = <<>> => expected' = 1 + NameLen
        BY <1>1, <2>1 DEF FifoInv, ShakeOK
  <2>   QED BY <1>1, <1>2, <1>5, <2>1, <2>2, <2>3, <2>4 DEF ShakeOK, InOrder, Early
<1>   QED BY <1>7, <1>8

\* When the server takes the FIN, the whole file is written.
LEMMA FifoEnds ==
    ASSUME IInv, FifoInv, FifoAssumption, ReceiveFin
    PROVE  \A j \in Chunks : j <= Len(out)
<1>1. server = "data" /\ c2s # <<>> /\ Head(c2s).kind = "FIN"
      BY DEF ReceiveFin, Take
<1>2. \A j : Head(c2s) # Data(j)
      BY <1>1, DataDistinct
<1>   QED BY <1>1, <1>2, NextForTheFile

\* After the exchange of FINs nothing is left to say.
LEMMA FifoLeaves ==
    ASSUME IInv, FifoInv, FifoAssumption, ReceiveFin \/ ReceiveLast
    PROVE  ShakeOK' /\ InOrder' /\ out' = out
<1>1. /\ server \in {"data", "last"} /\ server' \in {"last", "exit"} /\ UNCHANGED <<cvars, out>>
      BY DEF ReceiveFin, ReceiveLast, Others
<1>2. client \notin Early /\ client' = client
      BY <1>1 DEF FifoInv, ShakeOK, Early, cvars
<1>   QED BY <1>1, <1>2 DEF ShakeOK, InOrder, Early, Reading

LEMMA FifoInitially == Init => FifoInv
<1> SUFFICES ASSUME Init PROVE FifoInv
    OBVIOUS
<1>1. <<>> \in Seq(Replies)
      OBVIOUS
<1>   QED BY <1>1 DEF Init, FifoInv, ShakeOK, NoFinYet, SlotsOK, InOrder, Early, Over

LEMMA FifoInductive ==
    ASSUME IInv, FifoInv, FifoAssumption, [Next]_vars
    PROVE  FifoInv'
<1>1. ShakeOK' /\ InOrder'
  <2>1. CASE Client
        BY <2>1, FifoConnects, FifoSends, FifoFinishes, FifoGoesOn, FifoResends, FifoCloses DEF Client
  <2>2. CASE Server
        BY <2>2, FifoShakes, FifoGreets, FifoWrites, FifoLeaves DEF Server
  <2>3. CASE UNCHANGED vars
    <3>1. ShakeOK' = ShakeOK
          BY <2>3 DEF vars, cvars, svars, ShakeOK
    <3>2. InOrder' = InOrder
          BY <2>3 DEF vars, cvars, svars, InOrder, Ahead, Arrives, Has
    <3>   QED BY <3>1, <3>2 DEF FifoInv
  <2>   QED BY <2>1, <2>2, <2>3, FifoRest
<1>   QED BY <1>1, NoFinKept, FifoSlotsKept DEF FifoInv

-----------------------------------------------------------------------------
(* The refinement. *)

\* What is written is a beginning of the file.
LEMMA WrittenIsPrefix ==
    ASSUME IInv
    PROVE  out = Delivery!Prefix(Len(out)) /\ Len(out) \in Nat
<1>1. out \in Seq(Chunks) /\ \A n \in 1 .. Len(out) : out[n] = n
      BY DEF IInv, TypeOK, OutOK, WrittenInOrder
<1>   QED BY <1>1 DEF Delivery!Prefix

\* Every step of the transfer delivers a chunk, completes the file or does neither.
LEMMA StepOfDelivery ==
    ASSUME IInv, FifoInv, FifoAssumption, [Next]_vars
    PROVE  [Delivery!Deliver \/ Delivery!Complete]_Delivery!vars
<1> DEFINE done == server \in {"last", "exit"}
<1>1. UNCHANGED <<out, server>> => UNCHANGED Delivery!vars
      BY DEF Delivery!vars
<1>2. CASE ReceiveData
  <2>1. ~done /\ ~done'
        BY <1>2 DEF ReceiveData
  <2>2. CASE out' = out
        BY <2>1, <2>2, <1>2 DEF ReceiveData, Delivery!vars
  <2>3. CASE Len(out) + 1 \in Chunks /\ out' = Append(out, Len(out) + 1)
    <3>1. out = Delivery!Prefix(Len(out)) /\ Len(out) \in Nat
          BY WrittenIsPrefix
    <3>2. out' = Delivery!Prefix(Len(out) + 1)
      <4>1. \A n \in Nat : Append(Delivery!Prefix(n), n + 1) = Delivery!Prefix(n + 1)
            BY DEF Delivery!Prefix
      <4>   QED BY <2>3, <3>1, <4>1
    <3>3. Len(out) + 1 \in Len(out) + 1 .. NChunks
          BY <2>3, <3>1, FifoRanges DEF Chunks
    <3>4. Delivery!Deliver
          BY <2>1, <3>2, <3>3 DEF Delivery!Deliver
    <3>   QED BY <3>4
  <2>   QED BY <2>2, <2>3, <1>2, FifoWrites
<1>3. CASE ReceiveFin
  <2>1. ~done /\ done' /\ out' = out
        BY <1>3 DEF ReceiveFin
  <2>2. Len(out) = NChunks
    <3>1. \A j \in 1 .. NChunks : j <= Len(out)
          BY <1>3, FifoEnds DEF Chunks
    <3>2. Len(out) <= NChunks
          BY DEF IInv, OutOK
    <3>   QED BY <3>1, <3>2, FifoRanges
  <2>3. out = Delivery!Prefix(NChunks)
        BY <2>2, WrittenIsPrefix
  <2>4. Delivery!Complete
        BY <2>1, <2>3 DEF Delivery!Complete
  <2>   QED BY <2>4
<1>4. CASE ReceiveLast
  <2>1. done /\ done' /\ out' = out
        BY <1>4 DEF ReceiveLast
  <2>   QED BY <2>1 DEF Delivery!vars
<1>5. CASE Listen \/ AwaitAck \/ ReceiveName
  <2>1. ~done /\ ~done' /\ out' = out
        BY <1>5 DEF Listen, AwaitAck, ReceiveName, Opened
  <2>   QED BY <2>1 DEF Delivery!vars
<1>6. CASE UNCHANGED svars
      BY <1>6, <1>1 DEF svars
<1>   QED BY <1>2, <1>3, <1>4, <1>5, <1>6, FifoRest DEF Server, vars

\* Without faults, with a name the server keeps whole and socket buffers that hold
\* the handshake, the chunks in the client's slots and what it sends again, the
\* server's file is a prefix of the client's that only grows, and it is complete
\* before the server answers FIN.
THEOREM RefinesDelivery ==
    ASSUME FifoAssumption
    PROVE  Spec => ImplementsDelivery
<1>1. Init => Delivery!Init
      BY DEF Init, Delivery!Init
<1>2. IInv /\ FifoInv /\ [Next]_vars => FifoInv'
      BY FifoInductive
<1>3. IInv /\ FifoInv /\ [Next]_vars => [Delivery!Deliver \/ Delivery!Complete]_Delivery!vars
      BY StepOfDelivery
<1>   QED BY <1>1, <1>2, <1>3, FifoInitially, Invariance, PTL DEF Spec, ImplementsDelivery, Delivery!Spec
=============================================================================
