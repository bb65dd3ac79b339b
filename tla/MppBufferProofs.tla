--------------------------- MODULE MppBufferProofs ---------------------------
(***************************************************************************)
(* What MppBuffer guarantees for every value of its constants: how the     *)
(* lists, their counters and the references agree, and what follows for    *)
(* who gets a buffer and for how long the group is there.                  *)
(*                                                                         *)
(* The group's usage is a sum over its lists.  A sum is a last partial     *)
(* sum, so that what an operation does to a list is an operation on its    *)
(* partial sums.                                                           *)
(***************************************************************************)
EXTENDS MppBuffer, WellFoundedInduction, FiniteSetTheorems, SequenceTheorems,
        TLAPS

-----------------------------------------------------------------------------
(* Sums *)

\* acc[i] is what f gives to the first i elements of s, up to n of them.
PartialSums(f, s, n, acc) ==
    /\ acc \in [0 .. n -> Int]
    /\ acc[0] = 0
    /\ \A i \in 1 .. n : acc[i] = acc[i - 1] + f[s[i]]

Sums(f, s, acc) == PartialSums(f, s, Len(s), acc)

\* n is what f gives to the elements of s together.
Total(f, s, n) == \E acc \in [0 .. Len(s) -> Int] : Sums(f, s, acc) /\ n = acc[Len(s)]

\* t is s without its p-th element.
Left(s, p, t) ==
    /\ p \in 1 .. Len(s) /\ Len(t) = Len(s) - 1
    /\ \A i \in 1 .. Len(s) - 1 : t[i] = IF i < p THEN s[i] ELSE s[i + 1]

\* Induction on the natural numbers, for a set.
LEMMA NatSetInduction ==
    ASSUME NEW T, 0 \in T, \A n \in Nat : n \in T => n + 1 \in T
    PROVE  Nat \subseteq T
<1> DEFINE R == OpToRel(<, Nat)
           U == Nat \ T
<1>1. SUFFICES ASSUME U # {} PROVE FALSE
  OBVIOUS
<1>2. IsWellFoundedOn(R, Nat)
  BY NatLessThanWellFounded
<1>3. PICK x \in U : \A y \in U : ~ (<<y, x>> \in R)
  <2> HIDE DEF R
  <2> U \subseteq Nat
    OBVIOUS
  <2> HIDE DEF U
  <2> QED BY <1>1, <1>2, WFMin
<1>4. x # 0 /\ x - 1 \in Nat /\ (x - 1) + 1 = x
  OBVIOUS
<1>5. x - 1 \in U
  BY <1>4
<1>6. <<x - 1, x>> \in R
  BY <1>4 DEF OpToRel
<1> QED BY <1>3, <1>5, <1>6

\* Partial sums of natural numbers are natural numbers.
LEMMA SumsNatural ==
    ASSUME NEW B, NEW f \in [B -> Nat], NEW s \in Seq(B), NEW acc, Sums(f, s, acc)
    PROVE  \A i \in 0 .. Len(s) : acc[i] \in Nat
<1> DEFINE T == {n \in Nat : n <= Len(s) => acc[n] \in Nat}
<1>1. 0 \in T
  BY DEF Sums, PartialSums
<1>2. ASSUME NEW n \in Nat, n \in T PROVE n + 1 \in T
  <2> SUFFICES ASSUME n + 1 <= Len(s) PROVE acc[n + 1] \in Nat
    OBVIOUS
  <2>1. n + 1 \in 1 .. Len(s) /\ (n + 1) - 1 = n /\ n <= Len(s)
    OBVIOUS
  <2>2. s[n + 1] \in B
    BY <2>1
  <2> QED BY <1>2, <2>1, <2>2 DEF Sums, PartialSums
<1>3. Nat \subseteq T
  <2> HIDE DEF T
  <2> QED BY <1>1, <1>2, NatSetInduction
<1> QED BY <1>3

\* So is their total.
LEMMA TotalNatural ==
    ASSUME NEW B, NEW f \in [B -> Nat], NEW s \in Seq(B), NEW n, Total(f, s, n)
    PROVE  n \in Nat
  BY SumsNatural DEF Total

\* A sequence has one total.
LEMMA TotalUnique ==
    ASSUME NEW B, NEW f \in [B -> Nat], NEW s \in Seq(B), NEW n, NEW m,
           Total(f, s, n), Total(f, s, m)
    PROVE  n = m
<1>1. PICK a \in [0 .. Len(s) -> Int] : Sums(f, s, a) /\ n = a[Len(s)]
  BY DEF Total
<1>2. PICK b \in [0 .. Len(s) -> Int] : Sums(f, s, b) /\ m = b[Len(s)]
  BY DEF Total
<1> DEFINE T == {k \in Nat : k <= Len(s) => a[k] = b[k]}
<1>3. 0 \in T
  BY <1>1, <1>2 DEF Sums, PartialSums
<1>4. ASSUME NEW k \in Nat, k \in T PROVE k + 1 \in T
  <2> SUFFICES ASSUME k + 1 <= Len(s) PROVE a[k + 1] = b[k + 1]
    OBVIOUS
  <2>1. k + 1 \in 1 .. Len(s) /\ (k + 1) - 1 = k /\ k <= Len(s)
    OBVIOUS
  <2> QED BY <1>1, <1>2, <1>4, <2>1 DEF Sums, PartialSums
<1>5. Nat \subseteq T
  <2> HIDE DEF T
  <2> QED BY <1>3, <1>4, NatSetInduction
<1>6. Len(s) \in T
  BY <1>5
<1> QED BY <1>1, <1>2, <1>6

\* The empty list weighs nothing.
LEMMA TotalEmpty ==
    ASSUME NEW f
    PROVE  Total(f, <<>>, 0)
<1> DEFINE acc == [i \in 0 .. 0 |-> 0]
<1>1. Sums(f, <<>>, acc) /\ acc \in [0 .. Len(<<>>) -> Int] /\ acc[Len(<<>>)] = 0
  BY DEF Sums, PartialSums
<1> QED BY <1>1 DEF Total

\* A list of buffers that have a size weighs something.
LEMMA TotalPositive ==
    ASSUME NEW B, NEW f \in [B -> Nat], NEW s \in Seq(B), NEW n, Total(f, s, n),
           s # <<>>, \A i \in 1 .. Len(s) : f[s[i]] > 0
    PROVE  n > 0
<1>1. PICK acc \in [0 .. Len(s) -> Int] : Sums(f, s, acc) /\ n = acc[Len(s)]
  BY DEF Total
<1>2. Len(s) \in 1 .. Len(s) /\ Len(s) - 1 \in 0 .. Len(s)
  OBVIOUS
<1>3. acc[Len(s)] = acc[Len(s) - 1] + f[s[Len(s)]]
  BY <1>1, <1>2 DEF Sums, PartialSums
<1>4. acc[Len(s) - 1] \in Nat
  BY <1>1, <1>2, SumsNatural
<1>5. s[Len(s)] \in B
  BY <1>2
<1> QED BY <1>1, <1>2, <1>3, <1>4, <1>5

\* An element put last adds its weight.
LEMMA TotalAppend ==
    ASSUME NEW B, NEW f \in [B -> Nat], NEW s \in Seq(B), NEW n, Total(f, s, n),
           NEW b \in B
    PROVE  Total(f, Append(s, b), n + f[b])
<1>1. PICK a \in [0 .. Len(s) -> Int] : Sums(f, s, a) /\ n = a[Len(s)]
  BY DEF Total
<1> DEFINE t == Append(s, b)
           c == [i \in 0 .. Len(s) + 1 |-> IF i = Len(s) + 1 THEN n + f[b] ELSE a[i]]
<1>2. /\ Len(t) = Len(s) + 1 /\ Len(s) \in Nat
      /\ \A i \in 1 .. Len(s) : t[i] = s[i]
      /\ t[Len(s) + 1] = b
  OBVIOUS
<1>3. n \in Int /\ f[b] \in Int
  BY <1>1, <1>2
<1>4. c \in [0 .. Len(t) -> Int] /\ c[0] = 0 /\ c[Len(t)] = n + f[b]
  BY <1>1, <1>2, <1>3 DEF Sums, PartialSums
<1>5. ASSUME NEW i \in 1 .. Len(t) PROVE c[i] = c[i - 1] + f[t[i]]
  <2>1. CASE i = Len(s) + 1
    BY <1>1, <1>2, <2>1
  <2>2. CASE i \in 1 .. Len(s)
    BY <1>1, <1>2, <2>2 DEF Sums, PartialSums
  <2> QED BY <1>2, <2>1, <2>2
<1> HIDE DEF t, c
<1>6. Sums(f, t, c)
  BY <1>4, <1>5 DEF Sums, PartialSums
<1> QED BY <1>4, <1>6 DEF Total, t

\* The model's usage, a recursive sum, is the total of the sizes.
LEMMA SizeOfTotal ==
    ASSUME NEW B, size \in [B -> Nat], NEW s \in Seq(B)
    PROVE  Total(size, s, SizeOf(s))
<1> DEFINE T == {n \in Nat : n <= Len(s) => \E g \in [0 .. n -> Int] : PartialSums(size, s, n, g)}
<1>1. 0 \in T
  <2> DEFINE g == [i \in 0 .. 0 |-> 0]
  <2>1. g \in [0 .. 0 -> Int] /\ PartialSums(size, s, 0, g)
    BY DEF PartialSums
  <2> HIDE DEF g
  <2> QED BY <2>1
<1>2. ASSUME NEW n \in Nat, n \in T PROVE n + 1 \in T
  <2>1. SUFFICES ASSUME n + 1 <= Len(s)
               PROVE  \E g \in [0 .. n + 1 -> Int] : PartialSums(size, s, n + 1, g)
    OBVIOUS
  <2>2. PICK g \in [0 .. n -> Int] : PartialSums(size, s, n, g)
    BY <1>2, <2>1
  <2> DEFINE e == size[s[n + 1]]
             h == [i \in 0 .. n + 1 |-> IF i = n + 1 THEN g[n] + e ELSE g[i]]
  <2>3. e \in Int
    <3>1. n + 1 \in 1 .. Len(s)
      BY <2>1
    <3> QED BY <3>1
  <2> HIDE DEF e
  <2>4. h \in [0 .. n + 1 -> Int] /\ h[0] = 0
    BY <2>2, <2>3 DEF PartialSums
  <2>5. ASSUME NEW i \in 1 .. n + 1 PROVE h[i] = h[i - 1] + size[s[i]]
    <3>1. CASE i = n + 1
      BY <2>2, <3>1 DEF e
    <3>2. CASE i \in 1 .. n
      BY <2>2, <3>2 DEF PartialSums
    <3> QED BY <3>1, <3>2
  <2> HIDE DEF h
  <2> QED BY <2>4, <2>5 DEF PartialSums
<1>3. Len(s) \in T
  <2> HIDE DEF T
  <2>1. Nat \subseteq T
    BY <1>1, <1>2, NatSetInduction
  <2> QED BY <2>1
<1>4. PICK g \in [0 .. Len(s) -> Int] : PartialSums(size, s, Len(s), g)
  BY <1>3
<1>5. g = [i \in 0 .. Len(s) |-> IF i = 0 THEN 0 ELSE g[i - 1] + size[s[i]]]
  <2>1. ASSUME NEW i \in 0 .. Len(s)
        PROVE  g[i] = IF i = 0 THEN 0 ELSE g[i - 1] + size[s[i]]
    <3>1. i = 0 \/ i \in 1 .. Len(s)
      OBVIOUS
    <3> QED BY <1>4, <3>1 DEF PartialSums
  <2> QED BY <2>1
<1> DEFINE sum == CHOOSE a : a = [i \in 0 .. Len(s) |-> IF i = 0 THEN 0 ELSE a[i - 1] + size[s[i]]]
<1>6. sum = [i \in 0 .. Len(s) |-> IF i = 0 THEN 0 ELSE sum[i - 1] + size[s[i]]]
  BY <1>5
<1>7. SizeOf(s) = sum[Len(s)]
  BY DEF SizeOf
<1> HIDE DEF sum
<1>8. sum \in [0 .. Len(s) -> Int]
  <2> DEFINE U == {n \in Nat : n <= Len(s) => sum[n] \in Int}
  <2>1. 0 \in U
    BY <1>6
  <2>2. ASSUME NEW n \in Nat, n \in U PROVE n + 1 \in U
    <3> SUFFICES ASSUME n + 1 <= Len(s) PROVE sum[n + 1] \in Int
      OBVIOUS
    <3>1. n + 1 \in 1 .. Len(s) /\ (n + 1) - 1 = n
      OBVIOUS
    <3>2. size[s[n + 1]] \in Nat
      BY <3>1
    <3>3. sum[n + 1] = sum[n] + size[s[n + 1]]
      BY <1>6, <3>1
    <3> QED BY <2>2, <3>2, <3>3
  <2> HIDE DEF U
  <2>3. Nat \subseteq U
    BY <2>1, <2>2, NatSetInduction
  <2>4. ASSUME NEW n \in 0 .. Len(s) PROVE sum[n] \in Int
    BY <2>3 DEF U
  <2> QED BY <1>6, <2>4
<1>9. Sums(size, s, sum)
  <2>1. sum[0] = 0
    BY <1>6
  <2>2. ASSUME NEW i \in 1 .. Len(s) PROVE sum[i] = sum[i - 1] + size[s[i]]
    <3>1. i \in 0 .. Len(s) /\ i # 0
      OBVIOUS
    <3>2. sum[i] = IF i = 0 THEN 0 ELSE sum[i - 1] + size[s[i]]
      BY <1>6, <3>1
    <3> QED BY <3>1, <3>2
  <2> QED BY <1>8, <2>1, <2>2 DEF Sums, PartialSums
<1> QED BY <1>7, <1>8, <1>9 DEF Total

\* What f gives to the elements of s is all that counts.
LEMMA TotalFrame ==
    ASSUME NEW f, NEW g, NEW s, NEW n, Len(s) \in Nat, Total(f, s, n),
           \A i \in 1 .. Len(s) : f[s[i]] = g[s[i]]
    PROVE  Total(g, s, n)
  BY DEF Total, Sums, PartialSums

\* An element taken out, wherever it stands, takes its weight.
LEMMA TotalLeft ==
    ASSUME NEW B, NEW f \in [B -> Nat], NEW s \in Seq(B), NEW n, Total(f, s, n),
           NEW p, NEW t \in Seq(B), Left(s, p, t)
    PROVE  Total(f, t, n - f[s[p]])
<1>1. PICK a \in [0 .. Len(s) -> Int] : Sums(f, s, a) /\ n = a[Len(s)]
  BY DEF Total
<1> DEFINE d == f[s[p]]
           c == [i \in 0 .. Len(s) - 1 |-> IF i < p THEN a[i] ELSE a[i + 1] - d]
<1>a. \A i \in 0 .. Len(s) : a[i] \in Int
  OBVIOUS
<1>b. \A i \in 1 .. Len(s) : f[s[i]] \in Int
  OBVIOUS
<1>2. /\ p \in 1 .. Len(s) /\ Len(t) = Len(s) - 1 /\ Len(s) \in Nat
      /\ d \in Int /\ a[p] = a[p - 1] + d
  BY <1>1 DEF Left, Sums, PartialSums
<1> HIDE DEF d
<1>3. c \in [0 .. Len(t) -> Int] /\ c[0] = 0
  <2>1. ASSUME NEW i \in 0 .. Len(s) - 1
        PROVE  (IF i < p THEN a[i] ELSE a[i + 1] - d) \in Int
    <3>1. i \in 0 .. Len(s) /\ i + 1 \in 0 .. Len(s)
      BY <1>2
    <3>2. a[i] \in Int /\ a[i + 1] \in Int
      BY <1>a, <3>1
    <3> QED BY <1>2, <3>2
  <2>2. a[0] = 0
    BY <1>1 DEF Sums, PartialSums
  <2>3. 0 \in 0 .. Len(s) - 1 /\ 0 < p
    BY <1>2
  <2> QED BY <1>2, <2>1, <2>2, <2>3
<1>4. c[Len(t)] = n - d
  <2>1. CASE Len(t) < p
    <3>1. Len(s) = p
      BY <1>2, <2>1
    <3> QED BY <1>1, <1>2, <2>1, <3>1
  <2>2. CASE Len(t) >= p
    BY <1>1, <1>2, <2>2
  <2> QED BY <1>2, <2>1, <2>2
<1>5. ASSUME NEW i \in 1 .. Len(t) PROVE c[i] = c[i - 1] + f[t[i]]
  <2>1. /\ i \in 0 .. Len(s) - 1 /\ i - 1 \in 0 .. Len(s) - 1 /\ i \in 1 .. Len(s)
        /\ i + 1 \in 1 .. Len(s) /\ (i + 1) - 1 = i /\ (i - 1) + 1 = i
    BY <1>2
  <2>2. /\ a[i] = a[i - 1] + f[s[i]] /\ a[i + 1] = a[i] + f[s[i + 1]]
        /\ t[i] = IF i < p THEN s[i] ELSE s[i + 1]
    BY <1>1, <2>1, <1>2 DEF Sums, PartialSums, Left
  <2>3. /\ a[i - 1] \in Int /\ a[i] \in Int /\ a[i + 1] \in Int
        /\ f[s[i]] \in Int /\ f[s[i + 1]] \in Int
    BY <1>a, <1>b, <2>1
  <2>4. /\ c[i] = IF i < p THEN a[i] ELSE a[i + 1] - d
        /\ c[i - 1] = IF i - 1 < p THEN a[i - 1] ELSE a[i] - d
    BY <2>1
  <2> HIDE DEF c
  <2>5. \A x, y, e \in Int : d \in Int /\ x = y + e => x - d = (y - d) + e
    OBVIOUS
  <2>8. CASE i < p
    BY <1>2, <2>2, <2>3, <2>4, <2>8
  <2>6. CASE i = p
    <3>1. c[i] = a[i + 1] - d /\ c[i - 1] = a[i - 1] /\ t[i] = s[i + 1]
      BY <1>2, <2>2, <2>4, <2>6
    <3>2. a[i] = a[i - 1] + d
      BY <1>2, <2>6
    <3>3. f[t[i]] = f[s[i + 1]] /\ d \in Int
      BY <1>2, <3>1
    <3>4. a[i + 1] - d = (a[i] - d) + f[s[i + 1]]
      BY <2>2, <2>3, <2>5, <3>3
    <3>5. a[i] - d = a[i - 1]
      BY <2>3, <3>2, <3>3
    <3> QED BY <3>1, <3>3, <3>4, <3>5
  <2>7. CASE i > p
    <3>1. ~(i < p) /\ ~(i - 1 < p)
      BY <1>2, <2>7
    <3>2. c[i] = a[i + 1] - d /\ c[i - 1] = a[i] - d /\ t[i] = s[i + 1]
      BY <2>2, <2>4, <3>1
    <3>3. f[t[i]] = f[s[i + 1]] /\ d \in Int
      BY <1>2, <3>2
    <3>4. a[i + 1] - d = (a[i] - d) + f[s[i + 1]]
      BY <2>2, <2>3, <2>5, <3>3
    <3> QED BY <3>2, <3>3, <3>4
  <2> QED BY <1>2, <2>6, <2>7, <2>8
<1> HIDE DEF c
<1>6. Sums(f, t, c)
  BY <1>3, <1>5 DEF Sums, PartialSums
<1> QED BY <1>3, <1>4, <1>6 DEF Total, d

\* The two parts of a list cut after k elements.
LEMMA Cut ==
    ASSUME NEW B, NEW s \in Seq(B), NEW k \in 0 .. Len(s)
    PROVE  /\ SubSeq(s, 1, k) \in Seq(B) /\ Len(SubSeq(s, 1, k)) = k
           /\ \A i \in 1 .. k : SubSeq(s, 1, k)[i] = s[i]
           /\ SubSeq(s, k + 1, Len(s)) \in Seq(B)
           /\ Len(SubSeq(s, k + 1, Len(s))) = Len(s) - k
           /\ \A i \in 1 .. Len(s) - k : SubSeq(s, k + 1, Len(s))[i] = s[i + k]
  OBVIOUS

\* The total of the second part is what the first leaves.
LEMMA TotalCut ==
    ASSUME NEW B, NEW f \in [B -> Nat], NEW s \in Seq(B), NEW n, Total(f, s, n),
           NEW k \in 0 .. Len(s), NEW m, Total(f, SubSeq(s, 1, k), m)
    PROVE  Total(f, SubSeq(s, k + 1, Len(s)), n - m)
<1>1. PICK a \in [0 .. Len(s) -> Int] : Sums(f, s, a) /\ n = a[Len(s)]
  BY DEF Total
<1> DEFINE u == SubSeq(s, 1, k)
           t == SubSeq(s, k + 1, Len(s))
           b == [i \in 0 .. k |-> a[i]]
           c == [i \in 0 .. Len(s) - k |-> a[i + k] - a[k]]
<1>a. \A i \in 0 .. Len(s) : a[i] \in Int
  OBVIOUS
<1>2. /\ u \in Seq(B) /\ Len(u) = k /\ \A i \in 1 .. k : u[i] = s[i]
      /\ t \in Seq(B) /\ Len(t) = Len(s) - k /\ k \in Nat /\ Len(s) \in Nat
      /\ \A i \in 1 .. Len(s) - k : t[i] = s[i + k]
  BY Cut
<1> HIDE DEF t, u
<1>3. m = a[k]
  <2>1. b \in [0 .. Len(u) -> Int] /\ b[Len(u)] = a[k]
    <3>1. \A i \in 0 .. k : i \in 0 .. Len(s)
      BY <1>2
    <3>2. \A i \in 0 .. k : a[i] \in Int
      BY <1>a, <3>1
    <3> QED BY <1>2, <3>2
  <2>2. Sums(f, u, b)
    BY <1>1, <1>2, <2>1 DEF Sums, PartialSums
  <2>3. Total(f, u, a[k])
    BY <2>1, <2>2 DEF Total
  <2> QED BY <1>2, <2>3, TotalUnique DEF u
<1>4. /\ c \in [0 .. Len(t) -> Int] /\ c[0] = 0 /\ c[Len(t)] = n - m
  BY <1>1, <1>2, <1>3
<1>5. ASSUME NEW i \in 1 .. Len(t) PROVE c[i] = c[i - 1] + f[t[i]]
  <2>1. /\ i + k \in 1 .. Len(s) /\ (i - 1) + k = (i + k) - 1
        /\ i \in 0 .. Len(s) - k /\ i - 1 \in 0 .. Len(s) - k
        /\ (i + k) - 1 \in 0 .. Len(s)
    BY <1>2
  <2>2. a[i + k] = a[(i + k) - 1] + f[s[i + k]] /\ t[i] = s[i + k]
    BY <1>1, <1>2, <2>1 DEF Sums, PartialSums
  <2>3. f[s[i + k]] \in Nat /\ a[(i + k) - 1] \in Int /\ a[k] \in Int
    <3>1. s[i + k] \in B /\ k \in 0 .. Len(s)
      BY <2>1
    <3> QED BY <2>1, <3>1
  <2>4. c[i] = a[i + k] - a[k] /\ c[i - 1] = a[(i + k) - 1] - a[k]
    BY <2>1
  <2> HIDE DEF c
  <2>5. \A x, y, z \in Int, w \in Nat : x = y + w => x - z = (y - z) + w
    OBVIOUS
  <2>6. f[t[i]] = f[s[i + k]] /\ a[i + k] \in Int
    BY <2>2, <2>3
  <2>7. a[i + k] - a[k] = (a[(i + k) - 1] - a[k]) + f[s[i + k]]
    BY <2>2, <2>3, <2>5, <2>6
  <2> QED BY <2>4, <2>6, <2>7
<1> HIDE DEF c
<1>6. Sums(f, t, c)
  BY <1>4, <1>5 DEF Sums, PartialSums
<1> QED BY <1>4, <1>6 DEF Total, t

\* A buffer removed from a list that has it is taken out at some place.
LEMMA WithoutLeft ==
    ASSUME NEW B, NEW s \in Seq(B), NEW b \in ToSet(s)
    PROVE  /\ Without(s, b) \in Seq(B)
           /\ \E p \in 1 .. Len(s) : s[p] = b /\ Left(s, p, Without(s, b))
<1> DEFINE at == {i \in DOMAIN s : s[i] = b}
           p == CHOOSE i \in at : TRUE
<1>1. at # {}
  BY DEF ToSet
<1>2. p \in 1 .. Len(s) /\ s[p] = b /\ Len(s) \in Nat
  BY <1>1
<1>3. Without(s, b) = RemoveAt(s, p)
  BY <1>1 DEF Without
<1> HIDE DEF p
<1> DEFINE u == SubSeq(s, 1, p - 1)
           v == SubSeq(s, p + 1, Len(s))
<1>4. /\ u \in Seq(B) /\ Len(u) = p - 1 /\ \A i \in 1 .. p - 1 : u[i] = s[i]
      /\ v \in Seq(B) /\ Len(v) = Len(s) - p
      /\ \A i \in 1 .. Len(s) - p : v[i] = s[i + p]
  <2>1. p - 1 \in 0 .. Len(s) /\ p \in 0 .. Len(s)
    BY <1>2
  <2> QED BY <2>1, Cut
<1> HIDE DEF u, v
<1>5. /\ u \o v \in Seq(B) /\ Len(u \o v) = Len(s) - 1
      /\ \A i \in 1 .. Len(s) - 1 : (u \o v)[i] = IF i < p THEN u[i] ELSE v[i - (p - 1)]
  <2>1. /\ u \o v \in Seq(B) /\ Len(u \o v) = Len(u) + Len(v)
        /\ \A i \in 1 .. Len(u) + Len(v) :
               (u \o v)[i] = IF i <= Len(u) THEN u[i] ELSE v[i - Len(u)]
    BY <1>4, ConcatProperties
  <2>2. Len(u) + Len(v) = Len(s) - 1
    BY <1>2, <1>4
  <2>3. ASSUME NEW i \in 1 .. Len(s) - 1 PROVE i <= Len(u) <=> i < p
    BY <1>2, <1>4
  <2> QED BY <1>4, <2>1, <2>2, <2>3
<1>6. ASSUME NEW i \in 1 .. Len(s) - 1
      PROVE  (u \o v)[i] = IF i < p THEN s[i] ELSE s[i + 1]
  <2>1. CASE i < p
    BY <1>2, <1>4, <1>5, <2>1
  <2>2. CASE i >= p
    <3>1. i - (p - 1) \in 1 .. Len(s) - p /\ (i - (p - 1)) + p = i + 1
      BY <1>2, <2>2
    <3>2. ~(i < p)
      BY <1>2, <2>2
    <3> QED BY <1>4, <1>5, <3>1, <3>2
  <2>3. i < p \/ i >= p
    BY <1>2
  <2> QED BY <2>1, <2>2, <2>3
<1>7. RemoveAt(s, p) = u \o v
  BY DEF RemoveAt, u, v
<1> QED BY <1>2, <1>3, <1>5, <1>6, <1>7 DEF Left

-----------------------------------------------------------------------------
(* Lists without repetition *)

Distinct(s) == \A i, j \in 1 .. Len(s) : i # j => s[i] # s[j]

\* The elements of a list are those at its places.
LEMMA ElementsAt ==
    ASSUME NEW B, NEW s \in Seq(B)
    PROVE  ToSet(s) = {s[i] : i \in 1 .. Len(s)} /\ ToSet(s) \subseteq B
  BY DEF ToSet

\* A list without repetition is as long as it has elements.
LEMMA LengthCounts ==
    ASSUME NEW B, NEW s \in Seq(B), Distinct(s)
    PROVE  Cardinality(ToSet(s)) = Len(s) /\ IsFiniteSet(ToSet(s))
<1>1. s \in [1 .. Len(s) -> ToSet(s)] /\ Len(s) \in Nat
  BY DEF ToSet
<1>2. s \in Bijection(1 .. Len(s), ToSet(s))
  <2>1. \A i, j \in 1 .. Len(s) : s[i] = s[j] => i = j
    BY DEF Distinct
  <2>2. \A b \in ToSet(s) : \E i \in 1 .. Len(s) : s[i] = b
    BY DEF ToSet
  <2> QED BY <1>1, <2>1, <2>2 DEF Bijection, Injection, Surjection, IsInjective
<1>3. ExistsBijection(1 .. Len(s), ToSet(s))
  BY <1>2 DEF ExistsBijection
<1> QED BY <1>1, <1>3, FS_CountingElements, FS_NatBijection

\* A new buffer put last keeps a list free of repetition.
LEMMA SetAppend ==
    ASSUME NEW B, NEW s \in Seq(B), Distinct(s), NEW b \in B, b \notin ToSet(s)
    PROVE  /\ Distinct(Append(s, b)) /\ Append(s, b) \in Seq(B)
           /\ ToSet(Append(s, b)) = ToSet(s) \cup {b}
           /\ Len(Append(s, b)) = Len(s) + 1
<1>1. /\ Len(Append(s, b)) = Len(s) + 1 /\ Len(s) \in Nat
      /\ \A i \in 1 .. Len(s) : Append(s, b)[i] = s[i]
      /\ Append(s, b)[Len(s) + 1] = b
      /\ Append(s, b) \in Seq(B)
  OBVIOUS
<1>2. \A i \in 1 .. Len(s) : s[i] # b
  BY DEF ToSet
<1>3. \A i \in 1 .. Len(s) + 1 : i \in 1 .. Len(s) \/ i = Len(s) + 1
  BY <1>1
<1>4. Distinct(Append(s, b))
  <2>1. ASSUME NEW i \in 1 .. Len(s) + 1, NEW j \in 1 .. Len(s) + 1, i # j
        PROVE  Append(s, b)[i] # Append(s, b)[j]
    BY <1>1, <1>2, <1>3, <2>1 DEF Distinct
  <2> QED BY <1>1, <2>1 DEF Distinct
<1>5. ToSet(Append(s, b)) = ToSet(s) \cup {b}
  <2>1. 1 .. Len(s) + 1 = (1 .. Len(s)) \cup {Len(s) + 1}
    BY <1>1
  <2>2. ToSet(Append(s, b)) = {Append(s, b)[i] : i \in 1 .. Len(s) + 1}
    BY <1>1, ElementsAt
  <2>3. ToSet(s) = {s[i] : i \in 1 .. Len(s)}
    BY ElementsAt
  <2> QED BY <1>1, <2>1, <2>2, <2>3
<1> QED BY <1>1, <1>4, <1>5

\* So does taking one out, and the others stay.
LEMMA SetLeft ==
    ASSUME NEW B, NEW s \in Seq(B), Distinct(s), NEW p, NEW t \in Seq(B), Left(s, p, t)
    PROVE  Distinct(t) /\ ToSet(t) = ToSet(s) \ {s[p]}
<1> DEFINE from(i) == IF i < p THEN i ELSE i + 1
<1>1. /\ p \in 1 .. Len(s) /\ Len(t) = Len(s) - 1 /\ Len(s) \in Nat
      /\ \A i \in 1 .. Len(t) : t[i] = s[from(i)]
  BY DEF Left
<1>2. \A i \in 1 .. Len(t) : from(i) \in 1 .. Len(s) /\ from(i) # p
  BY <1>1
<1>3. \A i, j \in 1 .. Len(t) : i # j => from(i) # from(j)
  BY <1>1
<1>4. \A k \in 1 .. Len(s) : k # p => \E i \in 1 .. Len(t) : from(i) = k
  <2>1. ASSUME NEW k \in 1 .. Len(s), k # p
        PROVE  \E i \in 1 .. Len(t) : from(i) = k
    <3>1. CASE k < p
      <4>1. k \in 1 .. Len(t) /\ from(k) = k
        BY <1>1, <3>1
      <4> QED BY <4>1
    <3>2. CASE k > p
      <4>1. k - 1 \in 1 .. Len(t) /\ from(k - 1) = k
        BY <1>1, <3>2
      <4> QED BY <4>1
    <3> QED BY <1>1, <2>1, <3>1, <3>2
  <2> QED BY <2>1
<1> HIDE DEF from
<1>5. Distinct(t)
  BY <1>1, <1>2, <1>3 DEF Distinct
<1>6. ToSet(t) = ToSet(s) \ {s[p]}
  <2>1. ASSUME NEW b \in ToSet(t) PROVE b \in ToSet(s) \ {s[p]}
    <3>1. PICK i \in 1 .. Len(t) : b = t[i]
      BY ElementsAt
    <3>2. b = s[from(i)] /\ from(i) \in 1 .. Len(s) /\ from(i) # p
      BY <1>1, <1>2, <3>1
    <3>3. b \in ToSet(s) /\ b # s[p]
      BY <1>1, <3>2, ElementsAt DEF Distinct
    <3> QED BY <3>3
  <2>2. ASSUME NEW b \in ToSet(s), b # s[p] PROVE b \in ToSet(t)
    <3>1. PICK k \in 1 .. Len(s) : b = s[k]
      BY ElementsAt
    <3>2. PICK i \in 1 .. Len(t) : from(i) = k
      BY <1>4, <2>2, <3>1
    <3>3. b = t[i]
      BY <1>1, <3>1, <3>2
    <3> QED BY <3>3, ElementsAt
  <2> QED BY <2>1, <2>2
<1> QED BY <1>5, <1>6

\* So does dropping the first k.
LEMMA SetCut ==
    ASSUME NEW B, NEW s \in Seq(B), Distinct(s), NEW k \in 0 .. Len(s)
    PROVE  /\ Distinct(SubSeq(s, k + 1, Len(s)))
           /\ ToSet(SubSeq(s, k + 1, Len(s))) \subseteq ToSet(s)
<1> DEFINE t == SubSeq(s, k + 1, Len(s))
<1>1. /\ t \in Seq(B) /\ Len(t) = Len(s) - k /\ k \in Nat /\ Len(s) \in Nat
      /\ \A i \in 1 .. Len(s) - k : t[i] = s[i + k]
  BY Cut
<1> HIDE DEF t
<1>2. \A i \in 1 .. Len(t) : i + k \in 1 .. Len(s) /\ t[i] = s[i + k]
  BY <1>1
<1>3. Distinct(t)
  <2>1. ASSUME NEW i \in 1 .. Len(t), NEW j \in 1 .. Len(t), i # j PROVE t[i] # t[j]
    <3>1. i + k # j + k
      BY <1>1, <2>1
    <3> QED BY <1>2, <3>1 DEF Distinct
  <2> QED BY <2>1 DEF Distinct
<1>4. ToSet(t) \subseteq ToSet(s)
  <2>1. ASSUME NEW b \in ToSet(t) PROVE b \in ToSet(s)
    <3>1. PICK i \in 1 .. Len(t) : b = t[i]
      BY <1>1, ElementsAt
    <3> QED BY <1>2, <3>1, ElementsAt
  <2> QED BY <2>1
<1> QED BY <1>3, <1>4 DEF t

-----------------------------------------------------------------------------
(* The books of a group *)

Lists == [used : Seq(Buffers), unused : Seq(Buffers), count_used : Nat,
          count_unused : Nat, buffer_count : Nat, usage : Nat]

\* Lists l of m buffers, with sizes f: no buffer is twice in them, and the counters
\* say what they hold.
Books(l, f, m) ==
    /\ l \in Lists
    /\ Distinct(l.used) /\ Distinct(l.unused)
    /\ ToSet(l.used) \cup ToSet(l.unused) \subseteq 1 .. m
    /\ ToSet(l.used) \cap ToSet(l.unused) = {}
    /\ l.count_used = Len(l.used) /\ l.count_unused = Len(l.unused)
    /\ l.buffer_count = l.count_used + l.count_unused
    /\ \E u, v \in Nat :
           Total(f, l.used, u) /\ Total(f, l.unused, v) /\ l.usage = u + v

\* The fields of a group's lists whose books are in order.
LEMMA BooksTypes ==
    ASSUME NEW l, NEW f, NEW m, Books(l, f, m)
    PROVE  /\ l.used \in Seq(Buffers) /\ l.unused \in Seq(Buffers)
           /\ l.count_used \in Nat /\ l.count_unused \in Nat
           /\ l.buffer_count \in Nat /\ l.usage \in Nat
           /\ Len(l.used) \in Nat /\ Len(l.unused) \in Nat
  BY DEF Books, Lists

\* A buffer inserted or committed keeps the books in order (mpp_buffer_create).
LEMMA AddedBooks ==
    ASSUME size \in [Buffers -> Nat], made \in Nat, Books(lists, size, made),
           made + 1 \in Buffers, NEW n \in Nat, NEW use \in BOOLEAN
    PROVE  /\ Books(Added(lists, made + 1, n, use), [size EXCEPT ![made + 1] = n], made + 1)
           /\ ToSet(Added(lists, made + 1, n, use).used) =
                  ToSet(lists.used) \cup (IF use THEN {made + 1} ELSE {})
           /\ ToSet(Added(lists, made + 1, n, use).unused) =
                  ToSet(lists.unused) \cup (IF use THEN {} ELSE {made + 1})
           /\ Added(lists, made + 1, n, use).used # <<>> \/ Added(lists, made + 1, n, use).unused # <<>>
<1> DEFINE b == made + 1
           g == [size EXCEPT ![b] = n]
           r == Added(lists, b, n, use)
<1>1. lists \in Lists /\ lists.used \in Seq(Buffers) /\ lists.unused \in Seq(Buffers)
  BY BooksTypes DEF Books
<1>2. PICK u \in Nat, v \in Nat :
          Total(size, lists.used, u) /\ Total(size, lists.unused, v) /\ lists.usage = u + v
  BY DEF Books
<1>3. b \notin ToSet(lists.used) /\ b \notin ToSet(lists.unused) /\ b \notin 1 .. made
  BY DEF Books
<1>4. g \in [Buffers -> Nat] /\ g[b] = n /\ \A c \in Buffers : c # b => g[c] = size[c]
  OBVIOUS
<1>5. Total(g, lists.used, u) /\ Total(g, lists.unused, v)
  <2>1. \A i \in 1 .. Len(lists.used) : lists.used[i] \in Buffers /\ lists.used[i] # b
    BY <1>1, <1>3 DEF ToSet
  <2>2. \A i \in 1 .. Len(lists.unused) : lists.unused[i] \in Buffers /\ lists.unused[i] # b
    BY <1>1, <1>3 DEF ToSet
  <2>3. /\ \A i \in 1 .. Len(lists.used) : size[lists.used[i]] = g[lists.used[i]]
        /\ \A i \in 1 .. Len(lists.unused) : size[lists.unused[i]] = g[lists.unused[i]]
    BY <1>4, <2>1, <2>2
  <2>4. Len(lists.used) \in Nat /\ Len(lists.unused) \in Nat
    BY <1>1
  <2> HIDE DEF g
  <2> QED BY <1>2, <2>3, <2>4, TotalFrame
<1>6. /\ Distinct(Append(lists.used, b)) /\ Append(lists.used, b) \in Seq(Buffers)
      /\ ToSet(Append(lists.used, b)) = ToSet(lists.used) \cup {b}
      /\ Len(Append(lists.used, b)) = Len(lists.used) + 1
      /\ Distinct(Append(lists.unused, b)) /\ Append(lists.unused, b) \in Seq(Buffers)
      /\ ToSet(Append(lists.unused, b)) = ToSet(lists.unused) \cup {b}
      /\ Len(Append(lists.unused, b)) = Len(lists.unused) + 1
  BY <1>1, <1>3, SetAppend DEF Books
<1>7. Total(g, Append(lists.used, b), u + n) /\ Total(g, Append(lists.unused, b), v + n)
  <2> HIDE DEF g, b
  <2> QED BY <1>1, <1>4, <1>5, TotalAppend DEF b
<1>8. u + n \in Nat /\ v + n \in Nat /\ lists.usage + n = (u + n) + v /\ lists.usage + n = u + (v + n)
  BY <1>2
<1>9. ToSet(lists.used) \cup ToSet(lists.unused) \cup {b} \subseteq 1 .. b
  BY DEF Books
<1>10. Append(lists.used, b) # <<>> /\ Append(lists.unused, b) # <<>>
  <2>1. \A s \in Seq(Buffers), c \in Buffers : Append(s, c) # <<>>
    OBVIOUS
  <2> HIDE DEF b
  <2> QED BY <1>1, <2>1 DEF b
<1>13. /\ lists.count_used + 1 \in Nat /\ lists.count_unused + 1 \in Nat
       /\ lists.buffer_count + 1 \in Nat /\ lists.usage + n \in Nat
  BY BooksTypes
<1> HIDE DEF g, b
<1>11. CASE use
  <2>1. /\ r \in Lists /\ r.used = Append(lists.used, b) /\ r.unused = lists.unused
        /\ r.count_used = lists.count_used + 1 /\ r.count_unused = lists.count_unused
        /\ r.buffer_count = lists.buffer_count + 1 /\ r.usage = lists.usage + n
    BY <1>1, <1>6, <1>11, <1>13 DEF Added, Lists, r
  <2> HIDE DEF r
  <2>2. \E x, y \in Nat : Total(g, r.used, x) /\ Total(g, r.unused, y) /\ r.usage = x + y
    BY <1>2, <1>5, <1>7, <1>8, <2>1
  <2>3. r.buffer_count = r.count_used + r.count_unused
    BY <1>1, <2>1 DEF Books, Lists
  <2>4. ToSet(r.used) \cap ToSet(r.unused) = {}
    BY <1>3, <1>6, <2>1 DEF Books
  <2>5. Books(r, g, b)
    BY <1>1, <1>6, <1>9, <2>1, <2>2, <2>3, <2>4 DEF Books
  <2> QED BY <1>6, <1>10, <1>11, <2>1, <2>5 DEF r, g, b
<1>12. CASE ~use
  <2>1. /\ r \in Lists /\ r.unused = Append(lists.unused, b) /\ r.used = lists.used
        /\ r.count_used = lists.count_used /\ r.count_unused = lists.count_unused + 1
        /\ r.buffer_count = lists.buffer_count + 1 /\ r.usage = lists.usage + n
    BY <1>1, <1>6, <1>12, <1>13 DEF Added, Lists, r
  <2> HIDE DEF r
  <2>2. \E x, y \in Nat : Total(g, r.used, x) /\ Total(g, r.unused, y) /\ r.usage = x + y
    BY <1>2, <1>5, <1>7, <1>8, <2>1
  <2>3. r.buffer_count = r.count_used + r.count_unused
    BY <1>1, <2>1 DEF Books, Lists
  <2>4. ToSet(r.used) \cap ToSet(r.unused) = {}
    BY <1>3, <1>6, <2>1 DEF Books
  <2>5. Books(r, g, b)
    BY <1>1, <1>6, <1>9, <2>1, <2>2, <2>3, <2>4 DEF Books
  <2> QED BY <1>6, <1>10, <1>12, <2>1, <2>5 DEF r, g, b
<1> QED BY <1>11, <1>12

\* What leaving a list does to it.
LEMMA Leaves ==
    ASSUME NEW f \in [Buffers -> Nat], NEW s \in Seq(Buffers), Distinct(s),
           NEW b \in ToSet(s), NEW n \in Nat, Total(f, s, n)
    PROVE  /\ Without(s, b) \in Seq(Buffers) /\ Distinct(Without(s, b))
           /\ Len(Without(s, b)) = Len(s) - 1 /\ Len(s) > 0
           /\ ToSet(Without(s, b)) = ToSet(s) \ {b}
           /\ Total(f, Without(s, b), n - f[b]) /\ n - f[b] \in Nat
<1>1. Without(s, b) \in Seq(Buffers)
  BY WithoutLeft
<1>2. PICK p \in 1 .. Len(s) : s[p] = b /\ Left(s, p, Without(s, b))
  BY WithoutLeft
<1>3. Len(Without(s, b)) = Len(s) - 1 /\ Len(s) > 0
  BY <1>2 DEF Left
<1>4. Distinct(Without(s, b)) /\ ToSet(Without(s, b)) = ToSet(s) \ {b}
  BY <1>1, <1>2, SetLeft
<1>5. Total(f, Without(s, b), n - f[b])
  BY <1>1, <1>2, TotalLeft
<1>6. n - f[b] \in Nat
  BY <1>1, <1>5, TotalNatural
<1> QED BY <1>1, <1>3, <1>4, <1>5, <1>6

\* What joining a list does to it.
LEMMA Joins ==
    ASSUME NEW f \in [Buffers -> Nat], NEW s \in Seq(Buffers), Distinct(s),
           NEW b \in Buffers, b \notin ToSet(s), NEW n \in Nat, Total(f, s, n)
    PROVE  /\ Append(s, b) \in Seq(Buffers) /\ Distinct(Append(s, b))
           /\ Len(Append(s, b)) = Len(s) + 1 /\ Append(s, b) # <<>>
           /\ ToSet(Append(s, b)) = ToSet(s) \cup {b}
           /\ Total(f, Append(s, b), n + f[b]) /\ n + f[b] \in Nat
<1>1. n + f[b] \in Nat /\ Append(s, b) # <<>>
  OBVIOUS
<1> QED BY <1>1, SetAppend, TotalAppend

\* So does an unused buffer that is handed out again (mpp_buffer_get_unused).
LEMMA TakenBooks ==
    ASSUME size \in [Buffers -> Nat], NEW m \in Nat, NEW l, Books(l, size, m),
           NEW b \in ToSet(l.unused)
    PROVE  /\ Books(Taken(l, b), size, m)
           /\ ToSet(Taken(l, b).used) = ToSet(l.used) \cup {b}
           /\ ToSet(Taken(l, b).unused) = ToSet(l.unused) \ {b}
           /\ Taken(l, b).used # <<>>
<1> DEFINE r == Taken(l, b)
<1>1. l \in Lists /\ l.used \in Seq(Buffers) /\ l.unused \in Seq(Buffers)
  BY BooksTypes DEF Books
<1>2. PICK u \in Nat, v \in Nat :
          Total(size, l.used, u) /\ Total(size, l.unused, v) /\ l.usage = u + v
  BY DEF Books
<1>3. b \in Buffers /\ b \notin ToSet(l.used)
  BY <1>1, ElementsAt DEF Books
<1>4. /\ Without(l.unused, b) \in Seq(Buffers) /\ Distinct(Without(l.unused, b))
      /\ Len(Without(l.unused, b)) = Len(l.unused) - 1 /\ Len(l.unused) > 0
      /\ ToSet(Without(l.unused, b)) = ToSet(l.unused) \ {b}
      /\ Total(size, Without(l.unused, b), v - size[b]) /\ v - size[b] \in Nat
  BY <1>1, <1>2, Leaves DEF Books
<1>5. /\ Append(l.used, b) \in Seq(Buffers) /\ Distinct(Append(l.used, b))
      /\ Len(Append(l.used, b)) = Len(l.used) + 1 /\ Append(l.used, b) # <<>>
      /\ ToSet(Append(l.used, b)) = ToSet(l.used) \cup {b}
      /\ Total(size, Append(l.used, b), u + size[b]) /\ u + size[b] \in Nat
  BY <1>1, <1>2, <1>3, Joins DEF Books
<1>6. l.count_unused = Len(l.unused) /\ l.count_used = Len(l.used)
  BY DEF Books
<1>7. /\ r \in Lists
      /\ r.unused = Without(l.unused, b) /\ r.used = Append(l.used, b)
      /\ r.count_used = l.count_used + 1 /\ r.count_unused = l.count_unused - 1
      /\ r.buffer_count = l.buffer_count /\ r.usage = l.usage
  <2>1. l.count_unused - 1 \in Nat /\ l.count_used + 1 \in Nat
    BY <1>1, <1>4, <1>6 DEF Lists
  <2> QED BY <1>1, <1>4, <1>5, <2>1 DEF Taken, Lists
<1> HIDE DEF r
<1>8. r.count_used + r.count_unused = r.buffer_count
  BY <1>1, <1>7 DEF Books, Lists
<1>9. r.usage = (u + size[b]) + (v - size[b])
  BY <1>2, <1>3, <1>7
<1>10. \E x, y \in Nat : Total(size, r.used, x) /\ Total(size, r.unused, y) /\ r.usage = x + y
  BY <1>4, <1>5, <1>7, <1>9
<1>11. Books(r, size, m)
  <2>1. ToSet(r.used) \cup ToSet(r.unused) \subseteq 1 .. m /\ ToSet(r.used) \cap ToSet(r.unused) = {}
    <3>1. ToSet(l.used) \cup ToSet(l.unused) \subseteq 1 .. m /\ ToSet(l.used) \cap ToSet(l.unused) = {}
      BY DEF Books
    <3> QED BY <1>4, <1>5, <1>7, <3>1
  <2>2. r.count_used = Len(r.used) /\ r.count_unused = Len(r.unused)
    BY <1>4, <1>5, <1>6, <1>7
  <2> QED BY <1>4, <1>5, <1>7, <1>8, <1>10, <2>1, <2>2 DEF Books
<1> QED BY <1>4, <1>5, <1>7, <1>11 DEF r

\* So does a buffer whose last reference was put, when it is kept (put_buffer).
LEMMA ReusedBooks ==
    ASSUME size \in [Buffers -> Nat], NEW m \in Nat, NEW l, Books(l, size, m),
           NEW b \in ToSet(l.used)
    PROVE  /\ Books(Reused(l, b), size, m)
           /\ ToSet(Reused(l, b).used) = ToSet(l.used) \ {b}
           /\ ToSet(Reused(l, b).unused) = ToSet(l.unused) \cup {b}
           /\ Reused(l, b).unused # <<>>
           /\ Len(Reused(l, b).used) < Len(l.used)
           /\ Reused(l, b).buffer_count = l.buffer_count
<1> DEFINE r == Reused(l, b)
<1>1. l \in Lists /\ l.used \in Seq(Buffers) /\ l.unused \in Seq(Buffers)
  BY BooksTypes DEF Books
<1>2. PICK u \in Nat, v \in Nat :
          Total(size, l.used, u) /\ Total(size, l.unused, v) /\ l.usage = u + v
  BY DEF Books
<1>3. b \in Buffers /\ b \notin ToSet(l.unused)
  BY <1>1, ElementsAt DEF Books
<1>4. /\ Without(l.used, b) \in Seq(Buffers) /\ Distinct(Without(l.used, b))
      /\ Len(Without(l.used, b)) = Len(l.used) - 1 /\ Len(l.used) > 0
      /\ ToSet(Without(l.used, b)) = ToSet(l.used) \ {b}
      /\ Total(size, Without(l.used, b), u - size[b]) /\ u - size[b] \in Nat
  BY <1>1, <1>2, Leaves DEF Books
<1>5. /\ Append(l.unused, b) \in Seq(Buffers) /\ Distinct(Append(l.unused, b))
      /\ Len(Append(l.unused, b)) = Len(l.unused) + 1 /\ Append(l.unused, b) # <<>>
      /\ ToSet(Append(l.unused, b)) = ToSet(l.unused) \cup {b}
      /\ Total(size, Append(l.unused, b), v + size[b]) /\ v + size[b] \in Nat
  BY <1>1, <1>2, <1>3, Joins DEF Books
<1>6. l.count_unused = Len(l.unused) /\ l.count_used = Len(l.used)
  BY DEF Books
<1>7. /\ r \in Lists
      /\ r.used = Without(l.used, b) /\ r.unused = Append(l.unused, b)
      /\ r.count_used = l.count_used - 1 /\ r.count_unused = l.count_unused + 1
      /\ r.buffer_count = l.buffer_count /\ r.usage = l.usage
  <2>1. l.count_used - 1 \in Nat /\ l.count_unused + 1 \in Nat
    BY <1>1, <1>4, <1>6 DEF Lists
  <2> QED BY <1>1, <1>4, <1>5, <2>1 DEF Reused, Lists
<1> HIDE DEF r
<1>8. r.count_used + r.count_unused = r.buffer_count
  BY <1>1, <1>7 DEF Books, Lists
<1>9. r.usage = (u - size[b]) + (v + size[b])
  BY <1>2, <1>3, <1>7
<1>10. \E x, y \in Nat : Total(size, r.used, x) /\ Total(size, r.unused, y) /\ r.usage = x + y
  BY <1>4, <1>5, <1>7, <1>9
<1>11. Books(r, size, m)
  BY <1>1, <1>4, <1>5, <1>6, <1>7, <1>8, <1>10 DEF Books
<1>12. Len(r.used) < Len(l.used)
  BY <1>1, <1>4, <1>7
<1> QED BY <1>4, <1>5, <1>7, <1>11, <1>12 DEF r

\* So does one that is freed instead (put_buffer, discarded or misc).
LEMMA FreedBooks ==
    ASSUME size \in [Buffers -> Nat], NEW m \in Nat, NEW l, Books(l, size, m),
           NEW b \in ToSet(l.used)
    PROVE  /\ Books(Freed(l, b), size, m)
           /\ ToSet(Freed(l, b).used) = ToSet(l.used) \ {b}
           /\ Freed(l, b).unused = l.unused
           /\ Len(Freed(l, b).used) < Len(l.used)
           /\ Freed(l, b).buffer_count < l.buffer_count
<1> DEFINE r == Freed(l, b)
<1>1. l \in Lists /\ l.used \in Seq(Buffers) /\ l.unused \in Seq(Buffers)
  BY BooksTypes DEF Books
<1>2. PICK u \in Nat, v \in Nat :
          Total(size, l.used, u) /\ Total(size, l.unused, v) /\ l.usage = u + v
  BY DEF Books
<1>3. b \in Buffers
  BY <1>1, ElementsAt
<1>4. /\ Without(l.used, b) \in Seq(Buffers) /\ Distinct(Without(l.used, b))
      /\ Len(Without(l.used, b)) = Len(l.used) - 1 /\ Len(l.used) > 0
      /\ ToSet(Without(l.used, b)) = ToSet(l.used) \ {b}
      /\ Total(size, Without(l.used, b), u - size[b]) /\ u - size[b] \in Nat
  BY <1>1, <1>2, Leaves DEF Books
<1>5. /\ l.count_unused = Len(l.unused) /\ l.count_used = Len(l.used)
      /\ l.buffer_count = l.count_used + l.count_unused
  BY DEF Books
<1>6. l.usage - size[b] = (u - size[b]) + v
  BY <1>2, <1>3
<1>7. /\ r \in Lists
      /\ r.used = Without(l.used, b) /\ r.unused = l.unused
      /\ r.count_used = l.count_used - 1 /\ r.count_unused = l.count_unused
      /\ r.buffer_count = l.buffer_count - 1 /\ r.usage = l.usage - size[b]
  <2>1. l.count_used - 1 \in Nat /\ l.buffer_count - 1 \in Nat
    BY <1>1, <1>4, <1>5 DEF Lists
  <2>2. l.usage - size[b] \in Nat
    BY <1>2, <1>4, <1>6
  <2> QED BY <1>1, <1>4, <2>1, <2>2 DEF Freed, Lists
<1> HIDE DEF r
<1>8. r.count_used + r.count_unused = r.buffer_count
  BY <1>1, <1>5, <1>7 DEF Lists
<1>9. \E x, y \in Nat : Total(size, r.used, x) /\ Total(size, r.unused, y) /\ r.usage = x + y
  BY <1>2, <1>4, <1>6, <1>7
<1>10. Books(r, size, m)
  BY <1>1, <1>4, <1>5, <1>7, <1>8, <1>9 DEF Books
<1>11. Len(r.used) < Len(l.used) /\ r.buffer_count < l.buffer_count
  <2>1. l.buffer_count \in Nat /\ Len(l.used) \in Nat
    BY BooksTypes
  <2> QED BY <1>4, <1>7, <2>1
<1> QED BY <1>4, <1>7, <1>10, <1>11 DEF r

\* So does freeing the first k unused buffers (those too small, mpp_buffer_get_unused).
LEMMA FreedFirstBooks ==
    ASSUME size \in [Buffers -> Nat], NEW m \in Nat, NEW l, Books(l, size, m),
           NEW k \in 0 .. Len(l.unused)
    PROVE  /\ Books(FreedFirst(l, k), size, m)
           /\ FreedFirst(l, k).used = l.used
           /\ FreedFirst(l, k).unused = SubSeq(l.unused, k + 1, Len(l.unused))
           /\ ToSet(FreedFirst(l, k).unused) \subseteq ToSet(l.unused)
           /\ Len(FreedFirst(l, k).unused) = Len(l.unused) - k
<1> DEFINE r == FreedFirst(l, k)
           s == l.unused
           t == SubSeq(s, k + 1, Len(s))
           w == SizeOf(SubSeq(s, 1, k))
<1>1. l \in Lists /\ l.used \in Seq(Buffers) /\ s \in Seq(Buffers) /\ k \in Nat
  <2>1. l.used \in Seq(Buffers) /\ l.unused \in Seq(Buffers) /\ Len(l.unused) \in Nat
    BY BooksTypes
  <2>2. k \in Nat
    BY <2>1
  <2> QED BY <2>1, <2>2 DEF Books
<1>2. PICK u \in Nat, v \in Nat :
          Total(size, l.used, u) /\ Total(size, s, v) /\ l.usage = u + v
  BY DEF Books
<1>3. /\ SubSeq(s, 1, k) \in Seq(Buffers) /\ t \in Seq(Buffers)
      /\ Len(t) = Len(s) - k
  BY <1>1, Cut
<1>4. Total(size, SubSeq(s, 1, k), w)
  BY <1>3, SizeOfTotal
<1>5. Total(size, t, v - w) /\ w \in Nat
  BY <1>1, <1>2, <1>3, <1>4, TotalCut, TotalNatural
<1>6. v - w \in Nat
  BY <1>3, <1>5, TotalNatural
<1>7. Distinct(t) /\ ToSet(t) \subseteq ToSet(s)
  BY <1>1, SetCut DEF Books
<1>8. /\ l.count_unused = Len(s) /\ l.count_used = Len(l.used)
      /\ l.buffer_count = l.count_used + l.count_unused
  BY DEF Books
<1> HIDE DEF t, w
<1>9. l.usage - w = u + (v - w)
  BY <1>2, <1>5
<1>10. /\ r \in Lists
       /\ r.used = l.used /\ r.unused = t
       /\ r.count_used = l.count_used /\ r.count_unused = l.count_unused - k
       /\ r.buffer_count = l.buffer_count - k /\ r.usage = l.usage - w
  <2>1. l.count_unused - k \in Nat /\ l.buffer_count - k \in Nat
    BY <1>1, <1>8 DEF Lists
  <2>2. l.usage - w \in Nat
    BY <1>2, <1>6, <1>9
  <2> QED BY <1>1, <1>3, <2>1, <2>2 DEF FreedFirst, Lists, t, w
<1> HIDE DEF r
<1>11. r.count_used + r.count_unused = r.buffer_count
  BY <1>1, <1>8, <1>10 DEF Lists
<1>12. \E x, y \in Nat : Total(size, r.used, x) /\ Total(size, r.unused, y) /\ r.usage = x + y
  BY <1>2, <1>5, <1>6, <1>9, <1>10
<1>13. Books(r, size, m)
  <2>1. ToSet(r.used) \cup ToSet(r.unused) \subseteq 1 .. m /\ ToSet(r.used) \cap ToSet(r.unused) = {}
    BY <1>7, <1>10 DEF Books
  <2> QED BY <1>3, <1>7, <1>8, <1>10, <1>11, <1>12, <2>1 DEF Books
<1> QED BY <1>3, <1>7, <1>10, <1>13 DEF r, t

\* A group uses no memory exactly when it has no buffer.
LEMMA NoUsageNoBuffer ==
    ASSUME NEW f \in [Buffers -> Nat], NEW m, NEW l, Books(l, f, m),
           \A b \in 1 .. m : b \in Buffers => f[b] > 0
    PROVE  l.usage = 0 <=> l.used = <<>> /\ l.unused = <<>>
<1>1. l.used \in Seq(Buffers) /\ l.unused \in Seq(Buffers)
  BY BooksTypes
<1>2. PICK u \in Nat, v \in Nat :
          Total(f, l.used, u) /\ Total(f, l.unused, v) /\ l.usage = u + v
  BY DEF Books
<1>3. ASSUME NEW s \in Seq(Buffers), ToSet(s) \subseteq 1 .. m
      PROVE  \A i \in 1 .. Len(s) : f[s[i]] > 0
  <2>1. ASSUME NEW i \in 1 .. Len(s) PROVE f[s[i]] > 0
    <3>1. s[i] \in ToSet(s) /\ s[i] \in Buffers
      BY ElementsAt
    <3> QED BY <1>3, <3>1
  <2> QED BY <2>1
<1>4. ToSet(l.used) \subseteq 1 .. m /\ ToSet(l.unused) \subseteq 1 .. m
  BY DEF Books
<1>5. /\ \A i \in 1 .. Len(l.used) : f[l.used[i]] > 0
      /\ \A i \in 1 .. Len(l.unused) : f[l.unused[i]] > 0
  BY <1>1, <1>3, <1>4
<1>6. l.used # <<>> => u > 0
  BY <1>1, <1>2, <1>5, TotalPositive
<1>7. l.unused # <<>> => v > 0
  BY <1>1, <1>2, <1>5, TotalPositive
<1>8. l.used = <<>> => u = 0
  <2>1. l.used = <<>> => Total(f, l.used, 0)
    BY TotalEmpty
  <2> QED BY <1>1, <1>2, <2>1, TotalUnique
<1>9. l.unused = <<>> => v = 0
  <2>1. l.unused = <<>> => Total(f, l.unused, 0)
    BY TotalEmpty
  <2> QED BY <1>1, <1>2, <2>1, TotalUnique
<1> QED BY <1>2, <1>6, <1>7, <1>8, <1>9

\* So does freeing all unused buffers (mpp_buffer_group_clear, deinit).
LEMMA FreedAllBooks ==
    ASSUME size \in [Buffers -> Nat], NEW m \in Nat, NEW l, Books(l, size, m)
    PROVE  /\ Books(FreedFirst(l, Len(l.unused)), size, m)
           /\ FreedFirst(l, Len(l.unused)).used = l.used
           /\ FreedFirst(l, Len(l.unused)).unused = <<>>
           /\ FreedFirst(l, Len(l.unused)).buffer_count = Len(l.used)
           /\ Len(l.used) <= l.buffer_count
<1> DEFINE n == Len(l.unused)
           r == FreedFirst(l, n)
<1>1. /\ l.unused \in Seq(Buffers) /\ n \in Nat /\ Len(l.used) \in Nat
  BY BooksTypes
<1>2. n \in 0 .. Len(l.unused)
  BY <1>1
<1> HIDE DEF n
<1>3. /\ Books(r, size, m) /\ r.used = l.used /\ Len(r.unused) = Len(l.unused) - n
  BY <1>2, FreedFirstBooks
<1> HIDE DEF r
<1>4. r.unused \in Seq(Buffers) /\ Len(r.unused) = 0
  BY <1>1, <1>3, BooksTypes DEF n
<1>5. r.unused = <<>>
  BY <1>4
<1>6. r.buffer_count = Len(l.used)
  <2>1. /\ r.buffer_count = r.count_used + r.count_unused
        /\ r.count_used = Len(r.used) /\ r.count_unused = Len(r.unused)
    BY <1>3 DEF Books
  <2> QED BY <1>1, <1>3, <1>4, <2>1
<1>7. Len(l.used) <= l.buffer_count
  <2>1. /\ l.buffer_count = l.count_used + l.count_unused
        /\ l.count_used = Len(l.used) /\ l.count_unused = n
    BY DEF Books, n
  <2> QED BY <1>1, <2>1
<1> QED BY <1>3, <1>5, <1>6, <1>7 DEF r, n

-----------------------------------------------------------------------------
(* The invariant *)

Typed ==
    /\ kind \in Kinds /\ group \in {"live", "walked", "leaving", "orphan", "gone"}
    /\ made \in 0 .. MaxBuffers /\ taken \in 0 .. made
    /\ discard \subseteq 1 .. made /\ releasing \subseteq 1 .. made /\ old \subseteq 1 .. made
    /\ size \in [Buffers -> Sizes \cup {0}]
    /\ ref \in [Buffers -> 0 .. MaxRefs] /\ held \in [Buffers -> 0 .. MaxRefs]
    /\ gpc \in {"idle", "get", "create", "insert"} /\ want \in Sizes \cup {0}
    /\ promised \in BOOLEAN

\* Who has a reference, or put the last, finds the buffer used, until put_buffer is
\* through with it.
Holders ==
    /\ ToSet(lists.used) = {b \in Buffers : held[b] > 0} \cup releasing \cup ({taken} \ {0})
    /\ \A b \in Buffers : ref[b] = held[b]
    /\ \A b \in releasing : held[b] = 0
    /\ taken \notin releasing /\ (taken # 0 => held[taken] = 0)

\* Every buffer made has a size, so that a group without usage has no buffer.
SizesGiven ==
    /\ \A b \in 1 .. made : size[b] \in Sizes
    /\ gpc # "idle" => want \in Sizes

\* The owner puts the group when the getter has stopped, and a group that is gone
\* has no used buffer but one that put_buffer has unlinked.
Ends ==
    /\ gpc # "idle" => group = "live"
    /\ group = "gone" => ToSet(lists.used) \subseteq {taken}

\* What is still used of the buffers from before the last clear is to be discarded.
OldDiscarded ==
    /\ ToSet(lists.unused) \cap old = {}
    /\ ToSet(lists.used) \cap old \subseteq discard

\* The getter that was promised a buffer has room for one: in use are less than the
\* limit, and once it has found no other, there are no others.
Promise ==
    /\ gpc \in {"create", "insert"} => kind # "external"
    /\ promised => kind = "internal"
    /\ promised /\ gpc = "get" => Limit = 0 \/ Len(lists.used) < Limit
    /\ promised /\ gpc = "create" => Limit = 0 \/ lists.buffer_count < Limit

IInv ==
    /\ Typed /\ Books(lists, size, made) /\ Holders /\ SizesGiven
    /\ Ends /\ OldDiscarded /\ Promise

\* What the invariant says of lists and counters, for the steps below.
LEMMA Facts ==
    ASSUME IInv
    PROVE  /\ size \in [Buffers -> Nat] /\ made \in Nat /\ Sizes \subseteq Nat \ {0}
           /\ MaxBuffers \in Nat /\ MaxRefs \in Nat \ {0}
           /\ lists.used \in Seq(Buffers) /\ lists.unused \in Seq(Buffers)
           /\ Len(lists.used) \in Nat /\ Len(lists.unused) \in Nat
           /\ ToSet(lists.used) \subseteq 1 .. made /\ ToSet(lists.unused) \subseteq 1 .. made
           /\ ToSet(lists.used) \cap ToSet(lists.unused) = {}
           /\ 1 .. made \subseteq Buffers /\ 0 \notin Buffers
           /\ (taken # 0 => taken \in 1 .. made /\ taken \in ToSet(lists.used))
           /\ lists.count_used = Len(lists.used)
           /\ lists.buffer_count = Len(lists.used) + Len(lists.unused)
<1>1. Sizes \subseteq Nat \ {0} /\ MaxBuffers \in Nat /\ MaxRefs \in Nat \ {0}
  BY SizeAssumption, BoundAssumption
<1>2. /\ size \in [Buffers -> Nat] /\ made \in Nat /\ 1 .. made \subseteq Buffers
  <2>1. made \in 0 .. MaxBuffers /\ size \in [Buffers -> Sizes \cup {0}]
    BY DEF IInv, Typed
  <2>2. made \in Nat /\ 1 .. made \subseteq Buffers
    BY <1>1, <2>1 DEF Buffers
  <2>3. Sizes \cup {0} \subseteq Nat
    BY <1>1
  <2> QED BY <2>1, <2>2, <2>3
<1>3. /\ lists.used \in Seq(Buffers) /\ lists.unused \in Seq(Buffers)
      /\ Len(lists.used) \in Nat /\ Len(lists.unused) \in Nat
  BY BooksTypes DEF IInv
<1>4. 0 \notin Buffers
  BY DEF Buffers
<1>5. taken # 0 => taken \in 1 .. made /\ taken \in ToSet(lists.used)
  BY <1>2 DEF IInv, Typed, Holders
<1> QED BY <1>1, <1>2, <1>3, <1>4, <1>5 DEF IInv, Books

\* The initial state has the invariant.
LEMMA Start == Init => IInv
<1> SUFFICES ASSUME Init PROVE IInv
  OBVIOUS
<1>1. Sizes \subseteq Nat \ {0} /\ MaxBuffers \in Nat /\ MaxRefs \in Nat \ {0}
  BY SizeAssumption, BoundAssumption
<1>2. Typed
  <2>1. 0 \in 0 .. MaxBuffers /\ 0 \in 0 .. MaxRefs
    BY <1>1
  <2>2. /\ size = [b \in Buffers |-> 0] /\ ref = [b \in Buffers |-> 0]
        /\ held = [b \in Buffers |-> 0]
    BY DEF Init
  <2>3. /\ size \in [Buffers -> Sizes \cup {0}]
        /\ ref \in [Buffers -> 0 .. MaxRefs] /\ held \in [Buffers -> 0 .. MaxRefs]
    BY <2>1, <2>2
  <2>4. taken \in 0 .. made
    BY DEF Init
  <2> QED BY <2>1, <2>3, <2>4 DEF Init, Typed
<1>3. Books(lists, size, made)
  <2>1. lists \in Lists /\ lists.used = <<>> /\ lists.unused = <<>>
    BY DEF Init, NoBuffers, Lists
  <2>2. ToSet(<<>>) = {} /\ Distinct(<<>>)
    BY DEF ToSet, Distinct
  <2>3. Total(size, lists.used, 0) /\ Total(size, lists.unused, 0) /\ lists.usage = 0 + 0
    BY <2>1, TotalEmpty DEF Init, NoBuffers
  <2>4. \E u, v \in Nat :
            Total(size, lists.used, u) /\ Total(size, lists.unused, v) /\ lists.usage = u + v
    BY <2>3
  <2>5. /\ lists.count_used = Len(lists.used) /\ lists.count_unused = Len(lists.unused)
        /\ lists.buffer_count = lists.count_used + lists.count_unused
    BY DEF Init, NoBuffers
  <2> QED BY <2>1, <2>2, <2>4, <2>5 DEF Books
<1>4. ToSet(lists.used) = {} /\ ToSet(lists.unused) = {}
  BY DEF Init, NoBuffers, ToSet
<1>5. Holders /\ OldDiscarded
  BY <1>4 DEF Init, Holders, OldDiscarded
<1>6. SizesGiven /\ Ends /\ Promise
  BY DEF Init, SizesGiven, Ends, Promise
<1> QED BY <1>2, <1>3, <1>5, <1>6 DEF IInv

-----------------------------------------------------------------------------
(* Getter *)

\* No more unused buffers are too small than there are unused buffers.
LEMMA TooSmallInList ==
    ASSUME lists.unused \in Seq(Buffers)
    PROVE  TooSmall \in 0 .. Len(lists.unused)
<1> DEFINE d == DOMAIN lists.unused
           T == {n \in d : \A i \in 1 .. n : size[lists.unused[i]] < want}
<1>1. d = 1 .. Len(lists.unused) /\ Len(lists.unused) \in Nat
  OBVIOUS
<1>2. IsFiniteSet(d) /\ Cardinality(d) = Len(lists.unused)
  <2> HIDE DEF d
  <2>1. IsFiniteSet(1 .. Len(lists.unused)) /\ Cardinality(1 .. Len(lists.unused)) = Len(lists.unused)
    BY <1>1, FS_Interval
  <2> QED BY <1>1, <2>1
<1>3. T \subseteq d
  OBVIOUS
<1>4. TooSmall = Cardinality(T)
  BY DEF TooSmall
<1> HIDE DEF T, d
<1>5. IsFiniteSet(T) /\ Cardinality(T) <= Cardinality(d)
  BY <1>2, <1>3, FS_Subset
<1>6. Cardinality(T) \in Nat
  BY <1>5, FS_CardinalityType
<1> QED BY <1>1, <1>2, <1>4, <1>5, <1>6

\* What a search leaves of the lists, and what it takes of them.
LEMMA SearchedLists ==
    ASSUME IInv
    PROVE  /\ Books(Searched, size, made)
           /\ Searched.used = lists.used /\ ToSet(Searched.unused) \subseteq ToSet(lists.unused)
           /\ TooSmall < Len(lists.unused) =>
                  lists.unused[TooSmall + 1] \in ToSet(Searched.unused)
           /\ kind # "external" /\ ~ (TooSmall < Len(lists.unused)) =>
                  Searched.buffer_count = Len(lists.used)
<1> DEFINE k == TooSmall
           s == lists.unused
<1>1. /\ size \in [Buffers -> Nat] /\ made \in Nat /\ s \in Seq(Buffers)
      /\ Len(s) \in Nat /\ Books(lists, size, made)
  BY Facts DEF IInv
<1>2. k \in 0 .. Len(s)
  BY <1>1, TooSmallInList
<1> HIDE DEF k
<1>3. CASE kind = "external"
  <2>1. Searched = lists
    BY <1>3 DEF Searched
  <2>2. k < Len(s) => s[k + 1] \in ToSet(s)
    <3>1. k < Len(s) => k + 1 \in 1 .. Len(s)
      BY <1>1, <1>2
    <3> QED BY <1>1, <3>1, ElementsAt
  <2> QED BY <1>1, <1>3, <2>1, <2>2 DEF k
<1>4. CASE kind # "external"
  <2> DEFINE r == FreedFirst(lists, k)
  <2>1. Searched = r
    BY <1>4 DEF Searched, k
  <2>2. /\ Books(r, size, made) /\ r.used = lists.used
        /\ r.unused = SubSeq(s, k + 1, Len(s)) /\ ToSet(r.unused) \subseteq ToSet(s)
        /\ Len(r.unused) = Len(s) - k
    BY <1>1, <1>2, FreedFirstBooks
  <2> HIDE DEF r
  <2>3. ASSUME k < Len(s) PROVE s[k + 1] \in ToSet(r.unused)
    <3>1. 1 \in 1 .. Len(s) - k /\ 1 + k = k + 1
      BY <1>1, <1>2, <2>3
    <3>2. /\ r.unused \in Seq(Buffers) /\ Len(r.unused) = Len(s) - k
          /\ \A i \in 1 .. Len(s) - k : r.unused[i] = s[i + k]
      <4> HIDE DEF s
      <4> QED BY <1>1, <1>2, <2>2, Cut
    <3>3. r.unused[1] = s[k + 1] /\ 1 \in 1 .. Len(r.unused)
      <4> HIDE DEF s
      <4> QED BY <3>1, <3>2
    <3>4. ToSet(r.unused) = {r.unused[i] : i \in 1 .. Len(r.unused)}
      BY <3>2, ElementsAt
    <3> QED BY <3>3, <3>4
  <2>4. ASSUME ~ (k < Len(s)) PROVE r.buffer_count = Len(lists.used)
    <3>1. k = Len(s)
      BY <1>1, <1>2, <2>4
    <3> QED BY <1>1, <3>1, FreedAllBooks DEF r
  <2> QED BY <2>1, <2>2, <2>3, <2>4 DEF k
<1> QED BY <1>3, <1>4

\* The parser's look at the unused buffers keeps the invariant.
LEMMA LookKeeps ==
    ASSUME IInv, NEW n \in Sizes, Look(n)
    PROVE  IInv'
<1>1. Typed'
  BY DEF IInv, Typed, Look, bufferVars
<1>2. Books(lists, size, made)'
  BY DEF IInv, Look, bufferVars
<1>3. Holders' /\ SizesGiven' /\ Ends' /\ OldDiscarded'
  BY DEF IInv, Look, bufferVars, Holders, SizesGiven, Ends, OldDiscarded
<1>4. Promise'
  <2>1. promised' => Limit = 0 \/ Len(lists.used) < Limit
    <3>1. /\ lists.count_used = Len(lists.used) /\ Len(lists.used) \in Nat /\ Limit \in Nat
      BY Facts, BoundAssumption
    <3>2. promised' => Unused >= 1
      BY DEF Look
    <3>3. Unused >= 1 => Limit = 0 \/ Len(lists.used) < Limit
      BY <3>1 DEF Unused
    <3> QED BY <3>2, <3>3
  <2>2. gpc' = "get" /\ lists' = lists /\ kind' = kind /\ (promised' => kind = "internal")
    BY DEF Look
  <2> QED BY <2>1, <2>2 DEF Promise
<1> QED BY <1>1, <1>2, <1>3, <1>4 DEF IInv

\* Handing out an unused buffer, or finding none, keeps the invariant.
LEMMA GetUnusedKeeps ==
    ASSUME IInv, GetUnused
    PROVE  IInv'
<1> DEFINE b == lists.unused[TooSmall + 1]
           r == Searched
<1>1. /\ Books(r, size, made) /\ r.used = lists.used
      /\ ToSet(r.unused) \subseteq ToSet(lists.unused)
      /\ TooSmall < Len(lists.unused) => b \in ToSet(r.unused)
      /\ kind # "external" /\ ~ (TooSmall < Len(lists.unused)) =>
             r.buffer_count = Len(lists.used)
  BY SearchedLists
<1>2. /\ size \in [Buffers -> Nat] /\ made \in Nat /\ 1 .. made \subseteq Buffers
      /\ ToSet(lists.used) \subseteq 1 .. made /\ ToSet(lists.unused) \subseteq 1 .. made
      /\ ToSet(lists.used) \cap ToSet(lists.unused) = {} /\ MaxRefs \in Nat \ {0}
  BY Facts
<1>3. /\ gpc = "get" /\ group = "live" /\ want \in Sizes /\ want' = want /\ kind' = kind
      /\ group' = group /\ made' = made /\ size' = size /\ discard' = discard
      /\ releasing' = releasing /\ taken' = taken /\ promised' = promised /\ old' = old
  BY DEF IInv, Ends, SizesGiven, GetUnused
<1>4. CASE TooSmall < Len(lists.unused)
  <2>1. /\ lists' = Taken(r, b) /\ gpc' = "idle"
        /\ ref' = [ref EXCEPT ![b] = @ + 1] /\ held' = [held EXCEPT ![b] = @ + 1]
    BY <1>4 DEF GetUnused
  <2> HIDE DEF b, r
  <2>2. /\ Books(lists', size, made) /\ ToSet(lists'.used) = ToSet(lists.used) \cup {b}
        /\ ToSet(lists'.unused) = ToSet(r.unused) \ {b}
    <3>1. size \in [Buffers -> Nat]
      BY <1>2
    <3>3. Books(r, size, made)
      BY <1>1
    <3>4. b \in ToSet(r.unused)
      BY <1>1, <1>4 DEF b
    <3>5. made \in Nat
      BY <1>2
    <3>2. /\ Books(Taken(r, b), size, made)
          /\ ToSet(Taken(r, b).used) = ToSet(r.used) \cup {b}
          /\ ToSet(Taken(r, b).unused) = ToSet(r.unused) \ {b}
      BY <3>1, <3>3, <3>4, <3>5, TakenBooks
    <3> QED BY <1>1, <2>1, <3>2
  <2>3. b \in ToSet(lists.unused) /\ b \in Buffers /\ b \notin ToSet(lists.used)
    BY <1>1, <1>2, <1>4
  <2>4. held[b] = 0 /\ ref[b] = 0 /\ b \notin releasing
    <3>1. held[b] \in 0 .. MaxRefs
      BY <2>3 DEF IInv, Typed
    <3> QED BY <1>2, <2>3, <3>1 DEF IInv, Holders
  <2>5. Typed'
    <3>1. /\ ref' \in [Buffers -> 0 .. MaxRefs] /\ held' \in [Buffers -> 0 .. MaxRefs]
      BY <1>2, <2>1, <2>3, <2>4 DEF IInv, Typed
    <3> QED BY <1>3, <2>1, <3>1 DEF IInv, Typed
  <2>6. Holders'
    <3>1. /\ \A c \in Buffers : held'[c] = (IF c = b THEN 1 ELSE held[c])
          /\ \A c \in Buffers : ref'[c] = (IF c = b THEN 1 ELSE ref[c])
      BY <2>1, <2>3, <2>4 DEF IInv, Typed
    <3> QED BY <1>2, <1>3, <2>2, <2>3, <2>4, <3>1 DEF IInv, Holders
  <2>7. SizesGiven' /\ Ends' /\ Promise'
    BY <1>3, <2>1 DEF IInv, SizesGiven, Ends, Promise
  <2>8. OldDiscarded'
    BY <1>1, <1>3, <2>2, <2>3 DEF IInv, OldDiscarded
  <2> QED BY <1>3, <2>2, <2>5, <2>6, <2>7, <2>8 DEF IInv
<1>5. CASE ~ (TooSmall < Len(lists.unused))
  <2>1. /\ lists' = r /\ ref' = ref /\ held' = held
        /\ gpc' = IF kind = "external" THEN "idle" ELSE "create"
    BY <1>5 DEF GetUnused
  <2> HIDE DEF b, r
  <2>2. Typed'
    BY <1>3, <2>1 DEF IInv, Typed
  <2>3. Books(lists', size', made')
    BY <1>1, <1>3, <2>1
  <2>4. Holders' /\ OldDiscarded'
    BY <1>1, <1>3, <2>1 DEF IInv, Holders, OldDiscarded
  <2>5. SizesGiven' /\ Ends'
    BY <1>3, <2>1 DEF IInv, SizesGiven, Ends
  <2>6. Promise'
    BY <1>1, <1>3, <1>5, <2>1 DEF IInv, Promise
  <2> QED BY <2>2, <2>3, <2>4, <2>5, <2>6 DEF IInv
<1> QED BY <1>4, <1>5

\* Allocating a buffer, or failing to, keeps the invariant.
LEMMA CreateKeeps ==
    ASSUME IInv, CreateAlloc \/ CreateFail
    PROVE  IInv'
<1>1. /\ lists' = lists /\ gpc = "create" /\ gpc' \in {"insert", "idle"}
      /\ kind' = kind /\ group' = group /\ made' = made /\ size' = size /\ ref' = ref
      /\ discard' = discard /\ held' = held /\ releasing' = releasing /\ taken' = taken /\ want' = want
      /\ promised' = promised /\ old' = old
  BY DEF CreateAlloc, CreateFail, bufferVars
<1>2. Typed' /\ Books(lists, size, made)' /\ Holders' /\ OldDiscarded'
  BY <1>1 DEF IInv, Typed, Holders, OldDiscarded
<1>3. SizesGiven' /\ Ends' /\ Promise'
  BY <1>1 DEF IInv, SizesGiven, Ends, Promise
<1> QED BY <1>2, <1>3 DEF IInv

\* A buffer more.
LEMMA MadeKeeps ==
    ASSUME IInv, NEW n \in Sizes, NEW use \in BOOLEAN, made + 1 \in Buffers,
           made' = made + 1, size' = [size EXCEPT ![made + 1] = n],
           lists' = Added(lists, made + 1, n, use),
           kind' = kind, group' = group, releasing' = releasing, taken' = taken, discard' = discard,
           old' = old, want' = want, promised' = promised
    PROVE  /\ Books(lists, size, made)' /\ OldDiscarded'
           /\ ToSet(lists'.used) = ToSet(lists.used) \cup (IF use THEN {made + 1} ELSE {})
           /\ \A b \in 1 .. made' : size'[b] \in Sizes
           /\ size' \in [Buffers -> Sizes \cup {0}]
           /\ made' \in 0 .. MaxBuffers /\ taken' \in 0 .. made'
           /\ discard' \subseteq 1 .. made' /\ releasing' \subseteq 1 .. made'
           /\ old' \subseteq 1 .. made'
           /\ made + 1 \notin ToSet(lists.used) /\ made + 1 \notin releasing
           /\ made + 1 # taken
<1> DEFINE b == made + 1
<1>1. /\ size \in [Buffers -> Nat] /\ made \in Nat /\ MaxBuffers \in Nat /\ n \in Nat
      /\ ToSet(lists.used) \subseteq 1 .. made /\ 1 .. made \subseteq Buffers
      /\ Books(lists, size, made)
  BY Facts DEF IInv
<1>2. /\ Books(lists', size', made')
      /\ ToSet(lists'.used) = ToSet(lists.used) \cup (IF use THEN {made + 1} ELSE {})
      /\ ToSet(lists'.unused) = ToSet(lists.unused) \cup (IF use THEN {} ELSE {made + 1})
  <2>1. /\ Books(Added(lists, made + 1, n, use), [size EXCEPT ![made + 1] = n], made + 1)
        /\ ToSet(Added(lists, made + 1, n, use).used) =
               ToSet(lists.used) \cup (IF use THEN {made + 1} ELSE {})
        /\ ToSet(Added(lists, made + 1, n, use).unused) =
               ToSet(lists.unused) \cup (IF use THEN {} ELSE {made + 1})
    BY <1>1, AddedBooks
  <2> QED BY <2>1
<1>3. b \notin 1 .. made /\ b \in Buffers /\ 1 .. made' = (1 .. made) \cup {b}
  BY <1>1
<1>4. made' \in 0 .. MaxBuffers /\ taken' \in 0 .. made' /\ b # taken
  BY <1>1 DEF Buffers, IInv, Typed
<1>5. /\ size' \in [Buffers -> Sizes \cup {0}]
      /\ \A c \in Buffers : size'[c] = IF c = b THEN n ELSE size[c]
  BY DEF IInv, Typed
<1> HIDE DEF b
<1>6. \A c \in 1 .. made' : size'[c] \in Sizes
  BY <1>1, <1>3, <1>5 DEF IInv, SizesGiven
<1>7. /\ discard' \subseteq 1 .. made' /\ releasing' \subseteq 1 .. made'
      /\ old' \subseteq 1 .. made'
  BY <1>3 DEF IInv, Typed
<1>8. b \notin ToSet(lists.used) /\ b \notin releasing /\ b \notin old
  BY <1>1, <1>3 DEF IInv, Typed
<1>9. OldDiscarded'
  BY <1>2, <1>8 DEF IInv, OldDiscarded, b
<1> QED BY <1>2, <1>4, <1>5, <1>6, <1>7, <1>8, <1>9 DEF b

\* Inserting the new buffer keeps the invariant.
LEMMA InsertKeeps ==
    ASSUME IInv, Insert
    PROVE  IInv'
<1> DEFINE b == made + 1
<1>1. /\ gpc = "insert" /\ b \in Buffers /\ made' = b /\ gpc' = "idle"
      /\ size' = [size EXCEPT ![b] = want] /\ lists' = Added(lists, b, want, TRUE)
      /\ ref' = [ref EXCEPT ![b] = 1] /\ held' = [held EXCEPT ![b] = 1]
      /\ kind' = kind /\ group' = group /\ releasing' = releasing /\ taken' = taken /\ discard' = discard
      /\ old' = old /\ want' = want /\ promised' = promised
  BY DEF Insert
<1>2. want \in Sizes /\ group = "live" /\ MaxRefs \in Nat \ {0}
  BY <1>1, Facts DEF IInv, SizesGiven, Ends
<1>3. /\ Books(lists, size, made)' /\ OldDiscarded'
      /\ ToSet(lists'.used) = ToSet(lists.used) \cup {b}
      /\ \A c \in 1 .. made' : size'[c] \in Sizes
      /\ size' \in [Buffers -> Sizes \cup {0}]
      /\ made' \in 0 .. MaxBuffers /\ taken' \in 0 .. made'
      /\ discard' \subseteq 1 .. made' /\ releasing' \subseteq 1 .. made'
      /\ old' \subseteq 1 .. made'
      /\ b \notin ToSet(lists.used) /\ b \notin releasing /\ b # taken
  BY <1>1, <1>2, MadeKeeps
<1> HIDE DEF b
<1>4. Typed'
  BY <1>1, <1>2, <1>3 DEF IInv, Typed
<1>5. Holders'
  <2>1. /\ \A c \in Buffers : held'[c] = IF c = b THEN 1 ELSE held[c]
        /\ \A c \in Buffers : ref'[c] = IF c = b THEN 1 ELSE ref[c]
    BY <1>1 DEF IInv, Typed
  <2>2. {c \in Buffers : held'[c] > 0} = {c \in Buffers : held[c] > 0} \cup {b}
    <3>1. held[b] \in 0 .. MaxRefs /\ b \notin {c \in Buffers : held[c] > 0}
      BY <1>1, <1>3 DEF IInv, Typed, Holders
    <3> QED BY <1>1, <2>1, <3>1
  <2>3. \A c \in releasing : c # b /\ c \in Buffers
    BY <1>3, Facts DEF IInv, Typed
  <2>4. ToSet(lists'.used) = {c \in Buffers : held'[c] > 0} \cup releasing' \cup ({taken'} \ {0})
    BY <1>1, <1>3, <2>2 DEF IInv, Holders
  <2>5. taken # 0 => taken \in Buffers /\ held'[taken] = 0
    BY <1>3, <2>1, Facts DEF IInv, Holders
  <2> QED BY <1>1, <2>1, <2>3, <2>4, <2>5 DEF IInv, Holders
<1>6. SizesGiven' /\ Ends' /\ Promise'
  BY <1>1, <1>2, <1>3 DEF IInv, SizesGiven, Ends, Promise
<1> QED BY <1>3, <1>4, <1>5, <1>6 DEF IInv

-----------------------------------------------------------------------------
(* Threads with a reference *)

\* One more reference keeps the invariant.
LEMMA IncRefKeeps ==
    ASSUME IInv, NEW b \in Buffers, IncRef(b)
    PROVE  IInv'
<1>1. /\ held[b] \in 1 .. MaxRefs - 1 /\ MaxRefs \in Nat
      /\ ref' = [ref EXCEPT ![b] = @ + 1] /\ held' = [held EXCEPT ![b] = @ + 1]
      /\ lists' = lists /\ gpc' = gpc
      /\ kind' = kind /\ group' = group /\ made' = made /\ size' = size
      /\ discard' = discard /\ releasing' = releasing /\ taken' = taken /\ want' = want
      /\ promised' = promised /\ old' = old
  BY Facts DEF IncRef, getterVars
<1>2. ref[b] = held[b]
  BY DEF IInv, Holders
<1>3. /\ held' \in [Buffers -> 0 .. MaxRefs] /\ ref' \in [Buffers -> 0 .. MaxRefs]
      /\ \A c \in Buffers : held'[c] = IF c = b THEN held[b] + 1 ELSE held[c]
      /\ \A c \in Buffers : ref'[c] = IF c = b THEN ref[b] + 1 ELSE ref[c]
  BY <1>1, <1>2 DEF IInv, Typed
<1>4. Typed' /\ Books(lists, size, made)'
  BY <1>1, <1>3 DEF IInv, Typed
<1>5. Holders'
  <2>1. \A c \in Buffers : held'[c] > 0 <=> held[c] > 0
    BY <1>1, <1>3
  <2>2. b \notin releasing
    BY <1>1 DEF IInv, Holders
  <2>3. \A c \in releasing : c \in Buffers
    BY Facts DEF IInv, Typed
  <2> QED BY <1>1, <1>2, <1>3, <2>1, <2>2, <2>3 DEF IInv, Holders
<1>6. SizesGiven' /\ Ends' /\ OldDiscarded' /\ Promise'
  BY <1>1 DEF IInv, SizesGiven, Ends, OldDiscarded, Promise
<1> QED BY <1>4, <1>5, <1>6 DEF IInv

\* One reference less keeps the invariant.
LEMMA PutRefKeeps ==
    ASSUME IInv, NEW b \in Buffers, PutRef(b)
    PROVE  IInv'
<1>1. /\ held[b] > 0 /\ MaxRefs \in Nat /\ held[b] \in 0 .. MaxRefs
      /\ ref' = [ref EXCEPT ![b] = @ - 1] /\ held' = [held EXCEPT ![b] = @ - 1]
      /\ releasing' = IF ref[b] = 1 THEN releasing \cup {b} ELSE releasing
      /\ lists' = lists /\ gpc' = gpc
      /\ kind' = kind /\ group' = group /\ made' = made /\ size' = size
      /\ discard' = discard /\ taken' = taken /\ want' = want
      /\ promised' = promised /\ old' = old
  BY Facts DEF PutRef, getterVars, IInv, Typed
<1>2. ref[b] = held[b] /\ b \in ToSet(lists.used) /\ b \notin releasing
  BY <1>1 DEF IInv, Holders
<1>3. b \in 1 .. made /\ \A c \in releasing : c \in Buffers
  BY <1>2, Facts DEF IInv, Typed
<1>4. /\ held' \in [Buffers -> 0 .. MaxRefs] /\ ref' \in [Buffers -> 0 .. MaxRefs]
      /\ \A c \in Buffers : held'[c] = IF c = b THEN held[b] - 1 ELSE held[c]
      /\ \A c \in Buffers : ref'[c] = IF c = b THEN ref[b] - 1 ELSE ref[c]
  BY <1>1, <1>2 DEF IInv, Typed
<1>5. Typed' /\ Books(lists, size, made)'
  BY <1>1, <1>3, <1>4 DEF IInv, Typed
<1>6. Holders'
  <2>1. {c \in Buffers : held'[c] > 0} \cup releasing' = {c \in Buffers : held[c] > 0} \cup releasing
    BY <1>1, <1>2, <1>4
  <2>2. \A c \in releasing' : held'[c] = 0
    <3>1. \A c \in releasing : held[c] = 0
      BY DEF IInv, Holders
    <3> QED BY <1>1, <1>2, <1>3, <1>4, <3>1
  <2>3. taken # b /\ (taken # 0 => taken \in Buffers /\ held'[taken] = 0)
    <3>1. taken # b
      BY <1>1, <1>3 DEF IInv, Holders
    <3> QED BY <1>4, <3>1, Facts DEF IInv, Holders
  <2>4. taken' \notin releasing'
    BY <1>1, <2>3 DEF IInv, Holders
  <2>5. ToSet(lists'.used) = {c \in Buffers : held'[c] > 0} \cup releasing' \cup ({taken'} \ {0})
    BY <1>1, <2>1 DEF IInv, Holders
  <2> QED BY <1>1, <1>2, <1>4, <2>2, <2>3, <2>4, <2>5 DEF IInv, Holders
<1>7. SizesGiven' /\ Ends' /\ OldDiscarded' /\ Promise'
  BY <1>1 DEF IInv, SizesGiven, Ends, OldDiscarded, Promise
<1> QED BY <1>5, <1>6, <1>7 DEF IInv

\* put_buffer's unlinking the buffer whose last reference was put keeps the invariant.
LEMMA UnlinkKeeps ==
    ASSUME IInv, NEW b \in Buffers, Unlink(b)
    PROVE  IInv'
<1>1. /\ b \in releasing /\ taken = 0 /\ releasing' = releasing \ {b} /\ taken' = b
      /\ lists' = lists /\ kind' = kind /\ group' = group /\ made' = made /\ size' = size
      /\ ref' = ref /\ held' = held /\ discard' = discard
      /\ gpc' = gpc /\ want' = want /\ promised' = promised /\ old' = old
  BY DEF Unlink, BufLockFree, bufferVars, getterVars
<1>2. b # 0 /\ held[b] = 0 /\ b \in 1 .. made /\ b \in ToSet(lists.used)
  BY <1>1, Facts DEF IInv, Typed, Holders
<1>3. group # "gone"
  BY <1>1, <1>2 DEF IInv, Ends
<1>4. Typed' /\ Books(lists, size, made)'
  BY <1>1, <1>2 DEF IInv, Typed
<1>5. Holders'
  BY <1>1, <1>2 DEF IInv, Holders
<1>6. SizesGiven' /\ Ends' /\ OldDiscarded' /\ Promise'
  BY <1>1, <1>3 DEF IInv, SizesGiven, Ends, OldDiscarded, Promise
<1> QED BY <1>4, <1>5, <1>6 DEF IInv

\* The rest of put_buffer, that reuses the buffer or frees it, keeps the invariant.
LEMMA ReleaseKeeps ==
    ASSUME IInv, Release
    PROVE  IInv'
<1> DEFINE b == taken
           l == IF Reusable(b) THEN Reused(lists, b) ELSE Freed(lists, b)
<1>1. /\ b # 0 /\ group # "gone" /\ taken' = 0 /\ lists' = l
      /\ group' = IF group = "orphan" /\ ~Reusable(b) /\ l.usage = 0 THEN "gone" ELSE group
      /\ kind' = kind /\ made' = made /\ size' = size /\ ref' = ref /\ held' = held
      /\ discard' = discard /\ releasing' = releasing
      /\ gpc' = gpc /\ want' = want /\ promised' = promised /\ old' = old
  BY DEF Release, bufferVars, getterVars
<1>2. b \in ToSet(lists.used) /\ held[b] = 0 /\ b \notin releasing /\ b \in 1 .. made
  BY <1>1, Facts DEF IInv, Holders
<1>3. /\ size \in [Buffers -> Nat] /\ made \in Nat /\ Books(lists, size, made)
      /\ lists.used \in Seq(Buffers) /\ Sizes \subseteq Nat \ {0}
      /\ Len(lists.used) \in Nat /\ lists.buffer_count \in Nat
  BY Facts, BooksTypes DEF IInv
<1>5. Reusable(b) => b \notin old
  BY <1>2 DEF IInv, OldDiscarded, Reusable
<1> HIDE DEF b
<1>6. /\ Books(lists', size, made)
      /\ ToSet(lists'.used) = ToSet(lists.used) \ {b}
      /\ ToSet(lists'.unused) \subseteq ToSet(lists.unused) \cup (IF Reusable(b) THEN {b} ELSE {})
      /\ Len(lists'.used) < Len(lists.used)
      /\ lists'.buffer_count <= lists.buffer_count
  <2>1. CASE Reusable(b)
    <3>1. lists' = Reused(lists, b)
      BY <1>1, <2>1
    <3>2. /\ Books(lists', size, made) /\ ToSet(lists'.used) = ToSet(lists.used) \ {b}
          /\ ToSet(lists'.unused) = ToSet(lists.unused) \cup {b}
          /\ Len(lists'.used) < Len(lists.used)
          /\ lists'.buffer_count = lists.buffer_count
      <4>2. size \in [Buffers -> Nat]
        BY <1>3
      <4>3. made \in Nat /\ Books(lists, size, made)
        BY <1>3
      <4>4. b \in ToSet(lists.used)
        BY <1>2
      <4>1. /\ Books(Reused(lists, b), size, made)
            /\ ToSet(Reused(lists, b).used) = ToSet(lists.used) \ {b}
            /\ ToSet(Reused(lists, b).unused) = ToSet(lists.unused) \cup {b}
            /\ Len(Reused(lists, b).used) < Len(lists.used)
            /\ Reused(lists, b).buffer_count = lists.buffer_count
        BY <4>2, <4>3, <4>4, ReusedBooks
      <4> QED BY <3>1, <4>1
    <3> QED BY <1>3, <2>1, <3>2
  <2>2. CASE ~ Reusable(b)
    <3>1. lists' = Freed(lists, b)
      BY <1>1, <2>2
    <3>2. /\ Books(lists', size, made) /\ ToSet(lists'.used) = ToSet(lists.used) \ {b}
          /\ lists'.unused = lists.unused /\ Len(lists'.used) < Len(lists.used)
          /\ lists'.buffer_count < lists.buffer_count
      BY <1>2, <1>3, <3>1, FreedBooks
    <3>3. lists'.buffer_count \in Nat
      BY <3>2, BooksTypes
    <3> QED BY <1>3, <2>2, <3>2, <3>3
  <2> QED BY <2>1, <2>2
<1>7. lists'.usage = 0 => ToSet(lists'.used) = {}
  <2>1. \A c \in 1 .. made : c \in Buffers => size[c] > 0
    BY <1>3 DEF IInv, SizesGiven
  <2>2. lists'.usage = 0 => lists'.used = <<>>
    BY <1>3, <1>6, <2>1, NoUsageNoBuffer
  <2> QED BY <2>2 DEF ToSet
<1> HIDE DEF l
<1>8. Typed'
  BY <1>1, <1>3 DEF IInv, Typed
<1>9. Holders'
  <2>1. b \notin {c \in Buffers : held[c] > 0}
    BY <1>2
  <2>2. ToSet(lists.used) = {c \in Buffers : held[c] > 0} \cup releasing \cup {b}
    BY <1>1 DEF IInv, Holders, b
  <2>3. ToSet(lists'.used) = {c \in Buffers : held'[c] > 0} \cup releasing' \cup ({taken'} \ {0})
    BY <1>1, <1>2, <1>6, <2>1, <2>2
  <2>4. 0 \notin releasing
    BY DEF IInv, Typed
  <2> QED BY <1>1, <2>3, <2>4 DEF IInv, Holders
<1>10. SizesGiven'
  BY <1>1 DEF IInv, SizesGiven
<1>11. Ends'
  <2>1. group' = "gone" => lists'.usage = 0
    BY <1>1
  <2>2. gpc' # "idle" => group' = "live"
    BY <1>1 DEF IInv, Ends
  <2> QED BY <1>7, <2>1, <2>2 DEF Ends
<1>12. OldDiscarded'
  BY <1>1, <1>5, <1>6 DEF IInv, OldDiscarded
<1>13. Promise'
  <2>1. Len(lists'.used) \in Nat /\ lists'.buffer_count \in Nat /\ Limit \in Nat
    BY <1>6, BooksTypes, BoundAssumption
  <2> QED BY <1>1, <1>3, <1>6, <2>1 DEF IInv, Promise
<1> QED BY <1>1, <1>6, <1>8, <1>9, <1>10, <1>11, <1>12, <1>13 DEF IInv

-----------------------------------------------------------------------------
(* Owner *)

\* Committing or importing an external buffer keeps the invariant.
LEMMA CommitKeeps ==
    ASSUME IInv, NEW n \in Sizes, NEW use \in BOOLEAN, Commit(n, use)
    PROVE  IInv'
<1> DEFINE b == made + 1
           r == IF use THEN 1 ELSE 0
<1>1. /\ kind = "external" /\ group = "live" /\ b \in Buffers /\ made' = b
      /\ size' = [size EXCEPT ![b] = n] /\ lists' = Added(lists, b, n, use)
      /\ ref' = [ref EXCEPT ![b] = r] /\ held' = [held EXCEPT ![b] = r]
      /\ kind' = kind /\ group' = group /\ discard' = discard
      /\ releasing' = releasing /\ taken' = taken /\ gpc' = gpc /\ want' = want
      /\ promised' = promised /\ old' = old
  BY DEF Commit, getterVars
<1>2. /\ Books(lists, size, made)' /\ OldDiscarded'
      /\ ToSet(lists'.used) = ToSet(lists.used) \cup (IF use THEN {b} ELSE {})
      /\ \A c \in 1 .. made' : size'[c] \in Sizes
      /\ size' \in [Buffers -> Sizes \cup {0}]
      /\ made' \in 0 .. MaxBuffers /\ taken' \in 0 .. made'
      /\ discard' \subseteq 1 .. made' /\ releasing' \subseteq 1 .. made'
      /\ old' \subseteq 1 .. made'
      /\ b \notin ToSet(lists.used) /\ b \notin releasing /\ b # taken
  BY <1>1, MadeKeeps
<1>3. MaxRefs \in Nat \ {0} /\ r \in 0 .. MaxRefs /\ (r > 0 <=> use)
  BY Facts
<1>4. held[b] = 0
  BY <1>1, <1>2, <1>3 DEF IInv, Typed, Holders
<1> HIDE DEF b, r
<1>5. /\ held' \in [Buffers -> 0 .. MaxRefs] /\ ref' \in [Buffers -> 0 .. MaxRefs]
      /\ \A c \in Buffers : held'[c] = IF c = b THEN r ELSE held[c]
      /\ \A c \in Buffers : ref'[c] = IF c = b THEN r ELSE ref[c]
  BY <1>1, <1>3 DEF IInv, Typed
<1>6. Typed' /\ SizesGiven'
  BY <1>1, <1>2, <1>5 DEF IInv, Typed, SizesGiven
<1>7. Holders'
  <2>1. {c \in Buffers : held'[c] > 0} =
            {c \in Buffers : held[c] > 0} \cup (IF use THEN {b} ELSE {})
    BY <1>1, <1>3, <1>4, <1>5
  <2>2. \A c \in releasing : c # b /\ c \in Buffers
    BY <1>2, Facts DEF IInv, Typed
  <2>3. taken # 0 => taken \in Buffers /\ held'[taken] = 0
    BY <1>2, <1>5, Facts DEF IInv, Holders
  <2>4. ToSet(lists'.used) = {c \in Buffers : held'[c] > 0} \cup releasing' \cup ({taken'} \ {0})
    BY <1>1, <1>2, <2>1 DEF IInv, Holders
  <2>5. \A c \in Buffers : ref'[c] = held'[c]
    BY <1>5 DEF IInv, Holders
  <2>6. \A c \in releasing' : held'[c] = 0
    BY <1>1, <1>5, <2>2 DEF IInv, Holders
  <2>7. taken' \notin releasing' /\ (taken' # 0 => held'[taken'] = 0)
    BY <1>1, <2>3 DEF IInv, Holders
  <2> QED BY <2>4, <2>5, <2>6, <2>7 DEF Holders
<1>8. Ends' /\ Promise'
  BY <1>1 DEF IInv, Ends, Promise
<1> QED BY <1>2, <1>6, <1>7, <1>8 DEF IInv

\* Clearing the group keeps the invariant.
LEMMA GroupClearKeeps ==
    ASSUME IInv, GroupClear
    PROVE  IInv'
<1>1. /\ group = "live" /\ discard' = discard \cup ToSet(lists.used)
      /\ lists' = FreedFirst(lists, Len(lists.unused)) /\ old' = 1 .. made
      /\ kind' = kind /\ group' = group /\ made' = made /\ size' = size /\ ref' = ref
      /\ held' = held /\ releasing' = releasing /\ taken' = taken
      /\ gpc' = gpc /\ want' = want /\ promised' = promised
  BY DEF GroupClear, UsedDiscarded, UnusedFreed, getterVars
<1>2. /\ size \in [Buffers -> Nat] /\ made \in Nat /\ Books(lists, size, made)
      /\ ToSet(lists.used) \subseteq 1 .. made /\ Len(lists.used) \in Nat
      /\ lists.buffer_count \in Nat /\ Limit \in Nat
  BY Facts, BooksTypes, BoundAssumption DEF IInv
<1>3. /\ Books(lists', size, made) /\ lists'.used = lists.used /\ lists'.unused = <<>>
      /\ lists'.buffer_count = Len(lists.used) /\ Len(lists.used) <= lists.buffer_count
  BY <1>1, <1>2, FreedAllBooks
<1>4. ToSet(lists'.unused) = {}
  BY <1>3 DEF ToSet
<1>5. Typed' /\ Holders' /\ SizesGiven'
  BY <1>1, <1>2, <1>3 DEF IInv, Typed, Holders, SizesGiven
<1>6. Ends' /\ OldDiscarded'
  BY <1>1, <1>3, <1>4 DEF IInv, Ends, OldDiscarded
<1>7. Promise'
  BY <1>1, <1>2, <1>3 DEF IInv, Promise
<1> QED BY <1>1, <1>3, <1>5, <1>6, <1>7 DEF IInv

\* put_group's walk keeps the invariant.
LEMMA GroupPutKeeps ==
    ASSUME IInv, GroupPut
    PROVE  IInv'
<1>1. /\ gpc = "idle" /\ lists' = FreedFirst(lists, Len(lists.unused)) /\ group' = "walked"
      /\ kind' = kind /\ made' = made /\ size' = size /\ ref' = ref /\ discard' = discard
      /\ held' = held /\ releasing' = releasing /\ taken' = taken
      /\ gpc' = gpc /\ want' = want /\ promised' = promised /\ old' = old
  BY DEF GroupPut, UnusedFreed, bufferVars, getterVars
<1>2. /\ size \in [Buffers -> Nat] /\ made \in Nat /\ Books(lists, size, made)
  BY Facts DEF IInv
<1>3. /\ Books(lists', size, made) /\ lists'.used = lists.used /\ lists'.unused = <<>>
  BY <1>1, <1>2, FreedAllBooks
<1>4. ToSet(lists'.unused) = {}
  BY <1>3 DEF ToSet
<1>5. Typed' /\ Holders' /\ SizesGiven'
  BY <1>1, <1>3 DEF IInv, Typed, Holders, SizesGiven
<1>6. Ends' /\ OldDiscarded' /\ Promise'
  BY <1>1, <1>3, <1>4 DEF IInv, Ends, OldDiscarded, Promise
<1> QED BY <1>1, <1>3, <1>5, <1>6 DEF IInv

\* So do its decision and its mark.
LEMMA PuttingKeeps ==
    ASSUME IInv, Decide \/ MarkOrphan
    PROVE  IInv'
<1>1. /\ group \in {"walked", "leaving"} /\ group' \in {"gone", "leaving", "orphan"}
      /\ group' = "gone" => ToSet(lists.used) \subseteq {taken}
      /\ lists' = lists /\ kind' = kind /\ made' = made /\ size' = size /\ ref' = ref
      /\ discard' = discard /\ held' = held /\ releasing' = releasing /\ taken' = taken
      /\ gpc' = gpc /\ want' = want /\ promised' = promised /\ old' = old
  BY DEF Decide, MarkOrphan, NoneUsed, bufferVars, getterVars
<1>2. Typed' /\ Books(lists, size, made)' /\ Holders' /\ SizesGiven'
  BY <1>1 DEF IInv, Typed, Holders, SizesGiven
<1>3. Ends' /\ OldDiscarded' /\ Promise'
  BY <1>1 DEF IInv, Ends, OldDiscarded, Promise
<1> QED BY <1>2, <1>3 DEF IInv

-----------------------------------------------------------------------------
(* Theorems *)

\* Every step keeps the invariant.
LEMMA EveryStep == IInv /\ [Next]_vars => IInv'
<1> SUFFICES ASSUME IInv, [Next]_vars PROVE IInv'
  OBVIOUS
<1>1. CASE Get
  BY <1>1, LookKeeps, GetUnusedKeeps, CreateKeeps, InsertKeeps DEF Get
<1>2. CASE Put
  BY <1>2, PutRefKeeps, UnlinkKeeps, ReleaseKeeps DEF Put
<1>3. CASE \E b \in Buffers : IncRef(b)
  BY <1>3, IncRefKeeps
<1>4. CASE \E n \in Sizes, use \in BOOLEAN : Commit(n, use)
  BY <1>4, CommitKeeps
<1>5. CASE GroupClear
  BY <1>5, GroupClearKeeps
<1>6. CASE GroupPut
  BY <1>6, GroupPutKeeps
<1>8. CASE Decide \/ MarkOrphan
  BY <1>8, PuttingKeeps
<1>7. CASE UNCHANGED vars
  BY <1>7 DEF vars, bufferVars, getterVars, IInv, Typed, Holders, SizesGiven, Ends,
              OldDiscarded, Promise
<1> QED BY <1>1, <1>2, <1>3, <1>4, <1>5, <1>6, <1>7, <1>8 DEF Next

\* The invariant of a buffer group holds always.
LEMMA Invariant == Spec => []IInv
  BY Start, EveryStep, PTL DEF Spec

\* The variables have their types.
THEOREM Types == Spec => []TypeOK
<1>1. IInv => TypeOK
  <2> SUFFICES ASSUME IInv PROVE TypeOK
    OBVIOUS
  <2>1. /\ lists.used \in Seq(Buffers) /\ lists.unused \in Seq(Buffers)
        /\ {lists.count_used, lists.count_unused, lists.buffer_count, lists.usage} \subseteq Nat
    BY BooksTypes DEF IInv
  <2> QED BY <2>1 DEF IInv, Typed, TypeOK
<1> QED BY <1>1, Invariant, PTL

\* A buffer is used exactly while a thread has a reference to it or is releasing it,
\* is in one list, and the counters that the limits of a live group are decided by are
\* what the lists hold: put_buffer, mpp_buffer_get_unused, mpp_buffer_create and
\* mpp_buffer_group_clear, in any order of any threads.
THEOREM Accounts == Spec => []ListsMatchHolders
<1>1. IInv => ListsMatchHolders
  <2> SUFFICES ASSUME IInv PROVE ListsMatchHolders
    OBVIOUS
  <2>1. /\ lists.used \in Seq(Buffers) /\ lists.unused \in Seq(Buffers)
        /\ size \in [Buffers -> Nat] /\ Books(lists, size, made)
    BY Facts DEF IInv
  <2>2. /\ Cardinality(ToSet(lists.used)) = Len(lists.used)
        /\ Cardinality(ToSet(lists.unused)) = Len(lists.unused)
    BY <2>1, LengthCounts DEF Books
  <2>3. PICK u \in Nat, v \in Nat :
            Total(size, lists.used, u) /\ Total(size, lists.unused, v) /\ lists.usage = u + v
    BY <2>1 DEF Books
  <2>4. u = SizeOf(lists.used) /\ v = SizeOf(lists.unused)
    BY <2>1, <2>3, SizeOfTotal, TotalUnique
  <2>5. ToSet(lists.used) \cap ToSet(lists.unused) = {}
    BY <2>1 DEF Books
  <2>6. /\ lists.count_used = Len(lists.used) /\ lists.count_unused = Len(lists.unused)
        /\ lists.buffer_count = lists.count_used + lists.count_unused
    BY <2>1 DEF Books
  <2>7. \A b \in Buffers : ref[b] = held[b] /\ (b \in releasing \/ b = taken => held[b] = 0)
    BY Facts DEF IInv, Holders
  <2>8. ToSet(lists.used) = {b \in Buffers : held[b] > 0} \cup releasing \cup ({taken} \ {0})
    BY DEF IInv, Holders
  <2> QED BY <2>2, <2>3, <2>4, <2>5, <2>6, <2>7, <2>8
          DEF ListsMatchHolders, UsedSet, UnusedSet
<1> QED BY <1>1, Invariant, PTL

\* A thread with a reference, or that put the last and has yet to take buf_lock, finds
\* its group (the assertion of mpp_buffer_ref_dec), whenever the owner put the group.
THEOREM GroupThere == Spec => []GroupFound
<1>1. IInv => GroupFound
  <2> SUFFICES ASSUME IInv, group = "gone"
               PROVE  releasing = {} /\ \A b \in Buffers : held[b] = 0
    BY DEF GroupFound
  <2>1. ToSet(lists.used) \subseteq {taken}
    BY DEF IInv, Ends
  <2>2. releasing = {}
    BY <2>1 DEF IInv, Holders
  <2>3. ASSUME NEW b \in Buffers PROVE held[b] = 0
    <3>1. held[b] \in Nat
      BY Facts DEF IInv, Typed
    <3>2. ASSUME held[b] > 0 PROVE FALSE
      <4>1. b \in ToSet(lists.used) /\ b # 0
        BY <3>2, Facts DEF IInv, Holders
      <4>2. b = taken
        BY <2>1, <4>1
      <4> QED BY <3>2, <4>1, <4>2 DEF IInv, Holders
    <3> QED BY <3>1, <3>2
  <2> QED BY <2>2, <2>3
<1> QED BY <1>1, Invariant, PTL

\* A buffer from before the last clear is never handed out again.
THEOREM OldGone == Spec => []OldNeverUnused
<1>1. IInv => OldNeverUnused
  BY DEF IInv, OldDiscarded, OldNeverUnused, UnusedSet
<1> QED BY <1>1, Invariant, PTL

\* The parser that saw an unused buffer is not refused one for the limit of the
\* number: mpp_buffer_group_unused, then mpp_buffer_get and mpp_buffer_create, each
\* with its own lock.
THEOREM PromiseHolds == Spec => []PromiseKept
<1>1. IInv => PromiseKept
  BY DEF IInv, Promise, PromiseKept, HasRoom
<1> QED BY <1>1, Invariant, PTL
=============================================================================
