----------------------------- MODULE SumLemmas ------------------------------
(***************************************************************************)
(* What a total over table rows does when rows change or change places,    *)
(* and what the waterfall of a deduction takes.  The proofs go by          *)
(* least counterexample: the library's induction rules take an operator as *)
(* a parameter, so each induction is an application of NatMin to the set   *)
(* of the row numbers at which the claim fails.                            *)
(***************************************************************************)
EXTENDS Fifo, WellFoundedInduction, TLAPS

\* A non-empty set of naturals has a least element.
LEMMA NatMin ==
  ASSUME NEW T, T \subseteq Nat, T # {}
  PROVE  \E x \in T : \A y \in T : ~(y < x)
<1> DEFINE R == OpToRel(<, Nat)
<1>1. IsWellFoundedOn(R, Nat)
  BY NatLessThanWellFounded
<1>2. \A x, y \in Nat : (<<x, y>> \in R) <=> x < y
  BY DEF OpToRel
<1> HIDE DEF R
<1>3. \E x \in T : \A y \in T : ~(<<y, x>> \in R)
  BY <1>1, WFMin
<1> QED
  BY <1>2, <1>3

\* Induction up to n, stated with the set of the numbers where the claim holds.
LEMMA UpTo ==
  ASSUME NEW n \in Nat, NEW G,
         0 \in G,
         \A i \in 1..n : (i - 1) \in G => i \in G
  PROVE  \A i \in 0..n : i \in G
<1> DEFINE T == {i \in 0..n : i \notin G}
<1> SUFFICES ASSUME T # {} PROVE FALSE
  OBVIOUS
<1>1. PICK x \in T : \A y \in T : ~(y < x)
  <2>1. T \subseteq Nat
    OBVIOUS
  <2> QED BY <2>1, NatMin
<1>2. x \in 1..n
  BY <1>1
<1>3. x - 1 \in 0..n /\ x - 1 < x
  BY <1>2
<1>4. x - 1 \in G
  BY <1>1, <1>3
<1> QED
  BY <1>1, <1>2, <1>4

\* The recursive definition has a solution: the running totals exist.
LEMMA RunningTotalExists ==
  ASSUME NEW n \in Nat, NEW g
  PROVE  \E f : f = [i \in 0..n |-> IF i = 0 THEN 0 ELSE f[i - 1] + g[i]]
<1> DEFINE Total(f, k) == f = [i \in 0..k |-> IF i = 0 THEN 0 ELSE f[i - 1] + g[i]]
           G == {k \in 0..n : \E f : Total(f, k)}
<1>1. 0 \in G
  <2>1. Total([i \in 0..0 |-> 0], 0)
    OBVIOUS
  <2> HIDE DEF Total
  <2> QED
    BY <2>1
<1>2. \A k \in 1..n : (k - 1) \in G => k \in G
  <2> SUFFICES ASSUME NEW k \in 1..n, (k - 1) \in G PROVE k \in G
    OBVIOUS
  <2>1. PICK f : Total(f, k - 1)
    OBVIOUS
  <2> DEFINE h == [i \in 0..k |-> IF i = k THEN f[k - 1] + g[k] ELSE f[i]]
  <2>2. \A i \in 0..(k - 1) : f[i] = IF i = 0 THEN 0 ELSE f[i - 1] + g[i]
    BY <2>1
  <2>3. \A i \in 0..k : h[i] = IF i = 0 THEN 0 ELSE h[i - 1] + g[i]
    <3> TAKE i \in 0..k
    <3>1. CASE i = k
      <4>1. h[k - 1] = f[k - 1] /\ h[k] = f[k - 1] + g[k]
        OBVIOUS
      <4> QED BY <3>1, <4>1
    <3>2. CASE i # k
      <4>1. h[i] = f[i] /\ i \in 0..(k - 1)
        BY <3>2
      <4>2. CASE i = 0
        BY <4>1, <4>2, <2>2
      <4>3. CASE i # 0
        <5>1. h[i - 1] = f[i - 1]
          BY <3>2, <4>3
        <5> QED BY <4>1, <4>3, <5>1, <2>2
      <4> QED BY <4>2, <4>3
    <3> QED BY <3>1, <3>2
  <2>4. Total(h, k)
    <3> HIDE DEF h
    <3>1. h = [i \in 0..k |-> h[i]]
      BY DEF h
    <3> QED BY <3>1, <2>3
  <2> HIDE DEF Total
  <2> QED
    BY <2>4
<1>3. n \in G
  <2> HIDE DEF G
  <2> QED BY <1>1, <1>2, UpTo
<1> QED
  BY <1>3

\* The running totals obey their recursive definition.
LEMMA RunningTotalDef ==
  ASSUME NEW n \in Nat, NEW g
  PROVE  RunningTotal(g, n) =
           [i \in 0..n |-> IF i = 0 THEN 0 ELSE RunningTotal(g, n)[i - 1] + g[i]]
<1> DEFINE Total(f) == f = [i \in 0..n |-> IF i = 0 THEN 0 ELSE f[i - 1] + g[i]]
<1>1. \E f : Total(f)
  BY RunningTotalExists
<1>2. RunningTotal(g, n) = CHOOSE f : Total(f)
  BY DEF RunningTotal
<1> QED
  BY <1>1, <1>2

\* A running total does not depend on the rows that follow.
LEMMA RunningTotalPrefix ==
  ASSUME NEW n \in Nat, NEW m \in 0..n, NEW g
  PROVE  RunningTotal(g, n)[m] = SumTo(g, m)
<1> DEFINE G == {k \in 0..m : RunningTotal(g, n)[k] = RunningTotal(g, m)[k]}
<1>1. \A k \in 0..m :
        /\ RunningTotal(g, n)[k] = IF k = 0 THEN 0 ELSE RunningTotal(g, n)[k - 1] + g[k]
        /\ RunningTotal(g, m)[k] = IF k = 0 THEN 0 ELSE RunningTotal(g, m)[k - 1] + g[k]
  <2> TAKE k \in 0..m
  <2>1. m \in Nat /\ k \in 0..n
    OBVIOUS
  <2>2. RunningTotal(g, n)[k] = IF k = 0 THEN 0 ELSE RunningTotal(g, n)[k - 1] + g[k]
    <3>1. RunningTotal(g, n) =
            [i \in 0..n |-> IF i = 0 THEN 0 ELSE RunningTotal(g, n)[i - 1] + g[i]]
      BY RunningTotalDef
    <3> QED BY <2>1, <3>1
  <2>3. RunningTotal(g, m)[k] = IF k = 0 THEN 0 ELSE RunningTotal(g, m)[k - 1] + g[k]
    <3>1. RunningTotal(g, m) =
            [i \in 0..m |-> IF i = 0 THEN 0 ELSE RunningTotal(g, m)[i - 1] + g[i]]
      BY <2>1, RunningTotalDef
    <3> QED BY <3>1
  <2> QED BY <2>2, <2>3
<1>2. 0 \in G
  BY <1>1
<1>3. \A k \in 1..m : (k - 1) \in G => k \in G
  BY <1>1
<1>4. m \in G
  <2> HIDE DEF G
  <2> QED BY <1>2, <1>3, UpTo
<1> QED
  BY <1>4 DEF SumTo

\* A sum is the sum up to the row before, plus the row.
LEMMA SumToStep ==
  ASSUME NEW g
  PROVE  /\ SumTo(g, 0) = 0
         /\ \A n \in Nat \ {0} : SumTo(g, n) = SumTo(g, n - 1) + g[n]
<1>1. SumTo(g, 0) = 0
  <2>1. RunningTotal(g, 0) =
          [i \in 0..0 |-> IF i = 0 THEN 0 ELSE RunningTotal(g, 0)[i - 1] + g[i]]
    BY RunningTotalDef
  <2> QED BY <2>1 DEF SumTo
<1>2. ASSUME NEW n \in Nat \ {0}
      PROVE  SumTo(g, n) = SumTo(g, n - 1) + g[n]
  <2>1. RunningTotal(g, n) =
          [i \in 0..n |-> IF i = 0 THEN 0 ELSE RunningTotal(g, n)[i - 1] + g[i]]
    BY RunningTotalDef
  <2>2. RunningTotal(g, n)[n] = RunningTotal(g, n)[n - 1] + g[n]
    BY <2>1
  <2>3. RunningTotal(g, n)[n - 1] = SumTo(g, n - 1)
    BY RunningTotalPrefix
  <2> QED BY <2>2, <2>3 DEF SumTo
<1> QED
  BY <1>1, <1>2

\* A sum of integers is an integer, a sum of naturals a natural.
LEMMA SumToType ==
  ASSUME NEW n \in Nat, NEW g
  PROVE  /\ (\A i \in 1..n : g[i] \in Int) => SumTo(g, n) \in Int
         /\ (\A i \in 1..n : g[i] \in Nat) => SumTo(g, n) \in Nat
<1>1. ASSUME NEW S \in {Int, Nat}, \A i \in 1..n : g[i] \in S
      PROVE  SumTo(g, n) \in S
  <2> DEFINE G == {k \in 0..n : SumTo(g, k) \in S}
  <2>1. 0 \in G
    BY SumToStep
  <2>2. \A k \in 1..n : (k - 1) \in G => k \in G
    <3> SUFFICES ASSUME NEW k \in 1..n, (k - 1) \in G PROVE k \in G
      OBVIOUS
    <3>1. SumTo(g, k) = SumTo(g, k - 1) + g[k]
      BY SumToStep
    <3> QED BY <1>1, <3>1
  <2>3. n \in G
    <3> HIDE DEF G
    <3> QED BY <2>1, <2>2, UpTo
  <2> QED BY <2>3
<1> QED
  BY <1>1

\* Adding a column of changes to a column adds their sums.
LEMMA SumToAdd ==
  ASSUME NEW n \in Nat, NEW g, NEW d, NEW h,
         \A i \in 1..n : g[i] \in Int /\ d[i] \in Int /\ h[i] = g[i] + d[i]
  PROVE  SumTo(h, n) = SumTo(g, n) + SumTo(d, n)
<1> DEFINE G == {k \in 0..n : SumTo(h, k) = SumTo(g, k) + SumTo(d, k)}
<1>1. 0 \in G
  BY SumToStep
<1>2. \A k \in 1..n : (k - 1) \in G => k \in G
  <2> SUFFICES ASSUME NEW k \in 1..n, (k - 1) \in G PROVE k \in G
    OBVIOUS
  <2>1. /\ SumTo(h, k) = SumTo(h, k - 1) + h[k]
        /\ SumTo(g, k) = SumTo(g, k - 1) + g[k]
        /\ SumTo(d, k) = SumTo(d, k - 1) + d[k]
    BY SumToStep
  <2>2. SumTo(g, k - 1) \in Int /\ SumTo(d, k - 1) \in Int
    BY SumToType
  <2> QED BY <2>1, <2>2
<1>3. n \in G
  <2> HIDE DEF G
  <2> QED BY <1>1, <1>2, UpTo
<1> QED
  BY <1>3

\* A column that is nowhere larger has no larger sum.
LEMMA SumToMonotone ==
  ASSUME NEW n \in Nat, NEW g, NEW h,
         \A i \in 1..n : g[i] \in Int /\ h[i] \in Int /\ g[i] <= h[i]
  PROVE  SumTo(g, n) <= SumTo(h, n)
<1> DEFINE d == [i \in 1..n |-> h[i] - g[i]]
<1>1. \A i \in 1..n : d[i] \in Nat /\ h[i] = g[i] + d[i]
  OBVIOUS
<1> HIDE DEF d
<1>2. SumTo(h, n) = SumTo(g, n) + SumTo(d, n)
  BY <1>1, SumToAdd
<1>3. SumTo(d, n) \in Nat /\ SumTo(g, n) \in Int
  BY <1>1, SumToType
<1> QED
  BY <1>2, <1>3

\* Two columns that agree on every row have the same sum.
LEMMA SumToSame ==
  ASSUME NEW n \in Nat, NEW g, NEW h,
         \A i \in 1..n : g[i] \in Int /\ h[i] = g[i]
  PROVE  SumTo(h, n) = SumTo(g, n)
<1>1. SumTo(g, n) <= SumTo(h, n) /\ SumTo(h, n) <= SumTo(g, n)
  BY SumToMonotone
<1>2. SumTo(g, n) \in Int /\ SumTo(h, n) \in Int
  BY SumToType
<1> QED
  BY <1>1, <1>2

\* A column of zeros sums to zero.
LEMMA SumToZero ==
  ASSUME NEW n \in Nat, NEW g, \A i \in 1..n : g[i] = 0
  PROVE  SumTo(g, n) = 0
<1>1. SumTo(g, n) = SumTo(g, n) + SumTo(g, n)
  BY SumToAdd
<1>2. SumTo(g, n) \in Int
  BY SumToType
<1>3. \A x \in Int : x = x + x => x = 0
  OBVIOUS
<1> QED
  BY <1>1, <1>2, <1>3

\* If only row k counts, the sum is that row.
LEMMA SumToOne ==
  ASSUME NEW n \in Nat, NEW g, NEW k \in 1..n, g[k] \in Int,
         \A i \in 1..n : i # k => g[i] = 0
  PROVE  SumTo(g, n) = g[k]
<1> DEFINE G == {i \in 0..n : SumTo(g, i) = IF k <= i THEN g[k] ELSE 0}
<1>1. 0 \in G
  BY SumToStep
<1>2. \A i \in 1..n : (i - 1) \in G => i \in G
  <2> SUFFICES ASSUME NEW i \in 1..n, (i - 1) \in G PROVE i \in G
    OBVIOUS
  <2>1. SumTo(g, i) = SumTo(g, i - 1) + g[i]
    BY SumToStep
  <2>2. CASE i < k
    BY <2>1, <2>2
  <2>3. CASE i = k
    BY <2>1, <2>3
  <2>4. CASE i > k
    BY <2>1, <2>4
  <2> QED BY <2>2, <2>3, <2>4
<1>3. n \in G
  <2> HIDE DEF G
  <2> QED BY <1>1, <1>2, UpTo
<1> QED
  BY <1>3

\* When one row changes, the sum changes by what the row does.
LEMMA SumToUpdate ==
  ASSUME NEW n \in Nat, NEW g, NEW h, NEW k \in 1..n,
         \A i \in 1..n : g[i] \in Int /\ h[i] \in Int,
         \A i \in 1..n : i # k => h[i] = g[i]
  PROVE  SumTo(h, n) = SumTo(g, n) + h[k] - g[k]
<1> DEFINE d == [i \in 1..n |-> h[i] - g[i]]
<1>1. SumTo(h, n) = SumTo(g, n) + SumTo(d, n)
  BY SumToAdd
<1>2. SumTo(d, n) = h[k] - g[k]
  BY SumToOne
<1>3. SumTo(g, n) \in Int
  BY SumToType
<1> QED
  BY <1>1, <1>2, <1>3

\* No row of a column of quantities exceeds their sum.
LEMMA SumToMember ==
  ASSUME NEW n \in Nat, NEW g, \A i \in 1..n : g[i] \in Nat, NEW k \in 1..n
  PROVE  g[k] <= SumTo(g, n)
<1> DEFINE h == [i \in 1..n |-> IF i = k THEN 0 ELSE g[i]]
<1>1. /\ \A i \in 1..n : g[i] \in Int /\ h[i] \in Int
      /\ \A i \in 1..n : i # k => h[i] = g[i]
  OBVIOUS
<1>2. h[k] = 0 /\ g[k] \in Int /\ \A i \in 1..n : h[i] \in Nat
  OBVIOUS
<1> HIDE DEF h
<1>3. SumTo(h, n) = SumTo(g, n) + h[k] - g[k]
  BY <1>1, SumToUpdate
<1>4. SumTo(h, n) \in Nat
  BY <1>2, SumToType
<1>5. SumTo(g, n) \in Int
  BY <1>1, SumToType
<1> QED
  BY <1>2, <1>3, <1>4, <1>5
\* A factor of every row is a factor of the sum.
LEMMA SumToScale ==
  ASSUME NEW n \in Nat, NEW c \in Int, NEW g, NEW h,
         \A i \in 1..n : g[i] \in Int /\ h[i] = c * g[i]
  PROVE  SumTo(h, n) = c * SumTo(g, n)
<1> DEFINE G == {k \in 0..n : SumTo(h, k) = c * SumTo(g, k)}
<1>1. 0 \in G
  BY SumToStep
<1>2. \A k \in 1..n : (k - 1) \in G => k \in G
  <2> SUFFICES ASSUME NEW k \in 1..n, (k - 1) \in G PROVE k \in G
    OBVIOUS
  <2>1. SumTo(h, k) = SumTo(h, k - 1) + h[k] /\ SumTo(g, k) = SumTo(g, k - 1) + g[k]
    BY SumToStep
  <2>2. SumTo(g, k - 1) \in Int /\ g[k] \in Int /\ h[k] = c * g[k]
    BY SumToType
  <2>3. \A x, y \in Int : c * (x + y) = c * x + c * y
    OBVIOUS
  <2> QED BY <2>1, <2>2, <2>3
<1>3. n \in G
  <2> HIDE DEF G
  <2> QED BY <1>1, <1>2, UpTo
<1> QED
  BY <1>3

\* rows and cols are the totals of the rows and of the columns of the table f.
CrossTotals(f, n, m, rows, cols) ==
  /\ \A i \in 1..n : \A j \in 1..m : f[i][j] \in Int
  /\ \A i \in 1..n : rows[i] = SumTo(f[i], m)
  /\ \A j \in 1..m : cols[j] = SumTo([i \in 1..n |-> f[i][j]], n)

\* Adding up a table by rows gives what adding it up by columns does.
LEMMA SumToSwap ==
  ASSUME NEW n \in Nat, NEW m \in Nat, NEW f, NEW rows, NEW cols, CrossTotals(f, n, m, rows, cols)
  PROVE  SumTo(rows, n) = SumTo(cols, m)
<1> DEFINE column(j) == [i \in 1..n |-> f[i][j]]
           upTo(k)   == [j \in 1..m |-> SumTo(column(j), k)]
           G         == {k \in 0..n : SumTo(rows, k) = SumTo(upTo(k), m)}
<1>1. \A j \in 1..m : \A i \in 1..n : column(j)[i] = f[i][j] /\ column(j)[i] \in Int
  BY DEF CrossTotals
<1>2. \A k \in 0..n : \A j \in 1..m : upTo(k)[j] = SumTo(column(j), k)
  OBVIOUS
<1>3. \A j \in 1..m : cols[j] = SumTo(column(j), n)
  BY DEF CrossTotals
<1> HIDE DEF column, upTo
<1>4. 0 \in G
  <2>1. \A j \in 1..m : upTo(0)[j] = 0
    BY <1>2, SumToStep
  <2>2. SumTo(upTo(0), m) = 0
    BY <2>1, SumToZero
  <2> QED BY <2>2, SumToStep
<1>5. \A k \in 1..n : (k - 1) \in G => k \in G
  <2> SUFFICES ASSUME NEW k \in 1..n, (k - 1) \in G PROVE k \in G
    OBVIOUS
  <2>1. k - 1 \in 0..n /\ k - 1 \in Nat /\ k \in Nat \ {0} /\ k \in 0..n
    OBVIOUS
  <2>2. SumTo(rows, k) = SumTo(rows, k - 1) + SumTo(f[k], m)
    <3>1. SumTo(rows, k) = SumTo(rows, k - 1) + rows[k]
      BY <2>1, SumToStep
    <3> QED BY <3>1 DEF CrossTotals
  <2>3. ASSUME NEW j \in 1..m
        PROVE  /\ upTo(k)[j] = upTo(k - 1)[j] + f[k][j]
               /\ upTo(k - 1)[j] \in Int /\ f[k][j] \in Int
    <3>1. SumTo(column(j), k) = SumTo(column(j), k - 1) + column(j)[k]
      BY <2>1, SumToStep
    <3>2. \A i \in 1..(k - 1) : column(j)[i] \in Int
      BY <1>1
    <3>3. SumTo(column(j), k - 1) \in Int
      BY <2>1, <3>2, SumToType
    <3> QED BY <1>1, <1>2, <2>1, <3>1, <3>3
  <2>4. SumTo(upTo(k), m) = SumTo(upTo(k - 1), m) + SumTo(f[k], m)
    <3>1. PICK a, b, c : a = upTo(k - 1) /\ b = f[k] /\ c = upTo(k)
      OBVIOUS
    <3>2. \A j \in 1..m : a[j] \in Int /\ b[j] \in Int /\ c[j] = a[j] + b[j]
      BY <2>3, <3>1
    <3>3. SumTo(c, m) = SumTo(a, m) + SumTo(b, m)
      BY <3>2, SumToAdd
    <3> QED BY <3>1, <3>3
  <2> QED BY <2>1, <2>2, <2>4
<1>6. n \in G
  <2> HIDE DEF G
  <2> QED BY <1>4, <1>5, UpTo
<1>7. SumTo(upTo(n), m) = SumTo(cols, m)
  <2>1. \A j \in 1..m : SumTo(column(j), n) \in Int
    BY <1>1, SumToType
  <2>2. n \in 0..n
    OBVIOUS
  <2>3. \A j \in 1..m : cols[j] \in Int /\ upTo(n)[j] = cols[j]
    BY <1>2, <1>3, <2>1, <2>2
  <2> QED BY <2>3, SumToSame
<1> QED
  BY <1>6, <1>7

\* The rows of h are those of g in another order, p.
Rearranged(h, g, n, p) ==
  /\ p \in [1..n -> 1..n]
  /\ \A i, k \in 1..n : p[i] = p[k] => i = k
  /\ \A j \in 1..n : \E i \in 1..n : p[i] = j
  /\ \A i \in 1..n : g[i] \in Int /\ h[i] = g[p[i]]

\* The order of the rows does not matter to their sum.
LEMMA SumToRearranged ==
  ASSUME NEW n \in Nat, NEW g, NEW h, NEW p, Rearranged(h, g, n, p)
  PROVE  SumTo(h, n) = SumTo(g, n)
<1>1. PICK f : f = [i \in 1..n |-> [j \in 1..n |-> IF p[i] = j THEN g[j] ELSE 0]]
  OBVIOUS
<1>2. \A i \in 1..n : \A j \in 1..n : f[i][j] = (IF p[i] = j THEN g[j] ELSE 0) /\ f[i][j] \in Int
  BY <1>1 DEF Rearranged
<1>3. ASSUME NEW i \in 1..n PROVE h[i] = SumTo(f[i], n)
  <2>1. PICK a, k : a = f[i] /\ k = p[i]
    OBVIOUS
  <2>2. k \in 1..n /\ a[k] = g[k] /\ a[k] \in Int /\ \A j \in 1..n : j # k => a[j] = 0
    BY <1>2, <2>1 DEF Rearranged
  <2>3. SumTo(a, n) = a[k]
    BY <2>2, SumToOne
  <2> QED BY <2>1, <2>2, <2>3 DEF Rearranged
<1>4. ASSUME NEW j \in 1..n PROVE g[j] = SumTo([i \in 1..n |-> f[i][j]], n)
  <2>1. PICK k \in 1..n : p[k] = j
    BY DEF Rearranged
  <2>2. PICK a : a = [i \in 1..n |-> f[i][j]]
    OBVIOUS
  <2>3. \A i \in 1..n : i # k => p[i] # j
    BY <2>1 DEF Rearranged
  <2>4. a[k] = g[j] /\ a[k] \in Int /\ \A i \in 1..n : i # k => a[i] = 0
    BY <1>2, <2>1, <2>2, <2>3
  <2>5. SumTo(a, n) = a[k]
    BY <2>4, SumToOne
  <2> QED BY <2>2, <2>4, <2>5
<1>5. CrossTotals(f, n, n, h, g)
  BY <1>2, <1>3, <1>4 DEF CrossTotals
<1> QED
  BY <1>5, SumToSwap

-----------------------------------------------------------------------------
(* What the FIFO waterfall takes, for any number of batch items, any stock *)
(* in them and any quantity needed.                                        *)

\* f is what remains of the need before the items and after each of 1..n.
IsRemaining(f, a, need, n) ==
  f = [b \in 0..n |-> IF b = 0 THEN need
                      ELSE f[b - 1] - Lesser(f[b - 1], a[b])]

\* The recursive definition of the remaining need has a solution.
LEMMA RemainingExists ==
  ASSUME NEW n \in Nat, NEW a, NEW need
  PROVE  \E f : IsRemaining(f, a, need, n)
<1> DEFINE Solves(f, k) == IsRemaining(f, a, need, k)
           G == {k \in 0..n : \E f : Solves(f, k)}
<1>1. 0 \in G
  <2>1. Solves([b \in 0..0 |-> need], 0)
    BY DEF IsRemaining
  <2> HIDE DEF Solves
  <2> QED
    BY <2>1
<1>2. \A k \in 1..n : (k - 1) \in G => k \in G
  <2> SUFFICES ASSUME NEW k \in 1..n, (k - 1) \in G PROVE k \in G
    OBVIOUS
  <2>1. PICK f : Solves(f, k - 1)
    OBVIOUS
  <2> DEFINE last == f[k - 1] - Lesser(f[k - 1], a[k])
             h == [b \in 0..k |-> IF b = k THEN last ELSE f[b]]
  <2>2. \A b \in 0..(k - 1) :
          f[b] = IF b = 0 THEN need ELSE f[b - 1] - Lesser(f[b - 1], a[b])
    BY <2>1 DEF IsRemaining
  <2>3. \A b \in 0..k :
          h[b] = IF b = 0 THEN need ELSE h[b - 1] - Lesser(h[b - 1], a[b])
    <3> TAKE b \in 0..k
    <3>1. CASE b = k
      <4>1. h[k - 1] = f[k - 1] /\ h[k] = last
        OBVIOUS
      <4> QED BY <3>1, <4>1
    <3>2. CASE b # k /\ b = 0
      <4>1. h[b] = f[b]
        BY <3>2
      <4> QED BY <3>2, <4>1, <2>2
    <3>3. CASE b # k /\ b # 0
      <4>1. h[b] = f[b] /\ h[b - 1] = f[b - 1] /\ b \in 0..(k - 1)
        BY <3>3
      <4> QED BY <3>3, <4>1, <2>2
    <3> QED BY <3>1, <3>2, <3>3
  <2>4. Solves(h, k)
    <3> HIDE DEF h
    <3>1. h = [b \in 0..k |-> h[b]]
      BY DEF h
    <3> QED BY <3>1, <2>3 DEF IsRemaining
  <2> HIDE DEF Solves
  <2> QED
    BY <2>4
<1>3. n \in G
  <2> HIDE DEF G
  <2> QED BY <1>1, <1>2, UpTo
<1> QED
  BY <1>3

\* The need remaining before any batch item is the whole need; each item then
\* lowers it by what is consumed from the item.
LEMMA RemainingStep ==
  ASSUME NEW n \in Nat, NEW a, NEW need
  PROVE  /\ Remaining(a, need, n)[0] = need
         /\ \A b \in 1..n :
              Remaining(a, need, n)[b] =
                Remaining(a, need, n)[b - 1]
                  - Lesser(Remaining(a, need, n)[b - 1], a[b])
<1> DEFINE R == Remaining(a, need, n)
<1>1. IsRemaining(R, a, need, n)
  <2>1. \E f : IsRemaining(f, a, need, n)
    BY RemainingExists
  <2>2. R = CHOOSE f : IsRemaining(f, a, need, n)
    BY DEF Remaining, IsRemaining
  <2> HIDE DEF R
  <2> QED BY <2>1, <2>2
<1>2. \A b \in 0..n :
        R[b] = IF b = 0 THEN need ELSE R[b - 1] - Lesser(R[b - 1], a[b])
  <2> HIDE DEF R
  <2> QED BY <1>1 DEF IsRemaining
<1> HIDE DEF R
<1>3. R[0] = need
  BY <1>2
<1>4. \A b \in 1..n : R[b] = R[b - 1] - Lesser(R[b - 1], a[b])
  BY <1>2
<1> QED
  BY <1>3, <1>4 DEF R

\* The remaining need is a natural number and never grows again.
LEMMA RemainingFalls ==
  ASSUME NEW n \in Nat, NEW a, NEW need \in Nat, \A b \in 1..n : a[b] \in Nat
  PROVE  /\ \A b \in 0..n : Remaining(a, need, n)[b] \in Nat
         /\ \A c \in 0..n : \A b \in c..n :
              Remaining(a, need, n)[b] <= Remaining(a, need, n)[c]
<1> DEFINE R == Remaining(a, need, n)
<1>1. /\ R[0] = need
      /\ \A b \in 1..n : R[b] = R[b - 1] - Lesser(R[b - 1], a[b])
  BY RemainingStep
<1> HIDE DEF R
<1>2. \A b \in 0..n : R[b] \in Nat
  <2> DEFINE G == {b \in 0..n : R[b] \in Nat}
  <2>1. 0 \in G
    BY <1>1
  <2>2. \A b \in 1..n : (b - 1) \in G => b \in G
    BY <1>1 DEF Lesser
  <2>3. \A b \in 0..n : b \in G
    <3> HIDE DEF G
    <3> QED BY <2>1, <2>2, UpTo
  <2> QED BY <2>3
<1>3. ASSUME NEW c \in 0..n
      PROVE  \A b \in c..n : R[b] <= R[c]
  <2> DEFINE G == {b \in 0..n : b >= c => R[b] <= R[c]}
  <2>1. 0 \in G
    BY <1>2
  <2>2. \A b \in 1..n : (b - 1) \in G => b \in G
    <3> SUFFICES ASSUME NEW b \in 1..n, (b - 1) \in G, b >= c PROVE R[b] <= R[c]
      OBVIOUS
    <3>1. R[b] \in Nat /\ R[b - 1] \in Nat /\ R[c] \in Nat
      BY <1>2
    <3>2. R[b] <= R[b - 1]
      BY <1>1, <3>1 DEF Lesser
    <3> QED BY <3>1, <3>2
  <2>3. \A b \in 0..n : b \in G
    <3> HIDE DEF G
    <3> QED BY <2>1, <2>2, UpTo
  <2> QED BY <2>3
<1> QED
  BY <1>2, <1>3 DEF R

\* Nothing is consumed from a batch item that it does not have.
LEMMA ConsumedBounds ==
  ASSUME NEW n \in Nat, NEW a, NEW need \in Nat, \A b \in 1..n : a[b] \in Nat
  PROVE  \A b \in 1..n : /\ Consumed(a, need, n)[b] \in Nat
                         /\ Consumed(a, need, n)[b] <= a[b]
<1>1. \A b \in 0..n : Remaining(a, need, n)[b] \in Nat
  BY RemainingFalls
<1>2. \A b \in 1..n : Remaining(a, need, n)[b - 1] \in Nat
  BY <1>1
<1> QED
  BY <1>2 DEF Consumed, Lesser

\* What is consumed in all is the need, less what remains of it at the end.
THEOREM ConsumedTotal ==
  ASSUME NEW n \in Nat, NEW a, NEW need \in Nat, \A b \in 1..n : a[b] \in Nat
  PROVE  SumTo(Consumed(a, need, n), n) = need - Remaining(a, need, n)[n]
<1> DEFINE R == Remaining(a, need, n)
           C == Consumed(a, need, n)
           G == {k \in 0..n : SumTo(C, k) = need - R[k]}
<1>1. /\ R[0] = need
      /\ \A b \in 1..n : R[b] = R[b - 1] - Lesser(R[b - 1], a[b])
  BY RemainingStep
<1>2. \A b \in 0..n : R[b] \in Nat
  BY RemainingFalls
<1>3. \A b \in 1..n : C[b] = Lesser(R[b - 1], a[b])
  BY DEF Consumed
<1> HIDE DEF R, C
<1>4. 0 \in G
  BY <1>1, SumToStep
<1>5. \A k \in 1..n : (k - 1) \in G => k \in G
  <2> SUFFICES ASSUME NEW k \in 1..n, SumTo(C, k - 1) = need - R[k - 1]
               PROVE  SumTo(C, k) = need - R[k]
    OBVIOUS
  <2>1. SumTo(C, k) = SumTo(C, k - 1) + C[k]
    BY SumToStep
  <2>2. R[k - 1] \in Nat /\ R[k] \in Nat
    BY <1>2
  <2>3. Lesser(R[k - 1], a[k]) \in Nat
    BY <2>2 DEF Lesser
  <2> QED BY <1>1, <1>3, <2>1, <2>2, <2>3
<1>6. n \in G
  <2> HIDE DEF G
  <2> QED BY <1>4, <1>5, UpTo
<1> QED
  BY <1>6 DEF R, C

\* The waterfall is first in, first out: when something is consumed from a
\* batch item, everything older has been consumed entirely.
THEOREM ConsumedOldestFirst ==
  ASSUME NEW n \in Nat, NEW a, NEW need \in Nat, \A b \in 1..n : a[b] \in Nat,
         NEW b \in 1..n, NEW c \in 1..n, c < b,
         Consumed(a, need, n)[b] > 0
  PROVE  Consumed(a, need, n)[c] = a[c]
<1> DEFINE R == Remaining(a, need, n)
<1>1. R[c] = R[c - 1] - Lesser(R[c - 1], a[c])
  BY RemainingStep
<1>2. /\ \A i \in 0..n : R[i] \in Nat
      /\ \A i \in 0..n : \A j \in i..n : R[j] <= R[i]
  BY RemainingFalls
<1>3. /\ Consumed(a, need, n)[b] = Lesser(R[b - 1], a[b])
      /\ Consumed(a, need, n)[c] = Lesser(R[c - 1], a[c])
  BY DEF Consumed
<1> HIDE DEF R
<1>4. R[b - 1] \in Nat /\ R[c] \in Nat /\ R[c - 1] \in Nat /\ R[b - 1] <= R[c]
  BY <1>2
<1>5. R[b - 1] > 0
  BY <1>3, <1>4 DEF Lesser
<1> QED
  BY <1>1, <1>3, <1>4, <1>5 DEF Lesser
=============================================================================
