--------------------------- MODULE CheckoutProofs ---------------------------
(***************************************************************************)
(* Theorems about OrderPricing and RowLocks, for every value of their      *)
(* constants: carts of any length, any prices, rates and limits, and any   *)
(* number of transactions, orders and variants.                            *)
(*                                                                         *)
(* The running totals of LinesTotal, what remains after each line in       *)
(* AllocateDiscount and the joined lists of FlattenSeq are recursive       *)
(* functions.  What they compute for a list of any length is proved by     *)
(* induction on its length, which SetInduction states of a set of lengths. *)
(* On totals that add and compare line by line rests that the shares add   *)
(* up to the discount (the last line takes what rounding left), that no    *)
(* discount exceeds what it is taken off, and so what the order is         *)
(* charged.                                                                *)
(*                                                                         *)
(* Of the transactions those that settle orders and edit stock take their  *)
(* locks in one order.  A circle of them would need one that waits at the  *)
(* last place of all, for a lock whose holder waits further on.            *)
(***************************************************************************)
EXTENDS OrderPricing, RowLocks, TLAPS, WellFoundedInduction, FiniteSetTheorems

-----------------------------------------------------------------------------
(* Induction *)

\* Of some numbers one is the least.
LEMMA LeastNumber ==
    ASSUME NEW B \in SUBSET Nat, B # {}
    PROVE  \E m \in B : \A k \in B : m <= k
<1> DEFINE R == {ss \in Nat \X Nat : ss[1] < ss[2]}
<1>1. IsWellFoundedOn(R, Nat)
    BY NatLessThanWellFounded DEF OpToRel
<1> HIDE DEF R
<1>2. PICK m \in B : \A k \in B : <<k, m>> \notin R
    BY <1>1, WFMin
<1>3. \A k \in B : ~(k < m)
    BY <1>2 DEF R
<1> QED
    BY <1>3

\* A set that holds 0, and each number up to n whose predecessor it holds, holds them all.
LEMMA SetInduction ==
    ASSUME NEW n \in Nat, NEW T, 0 \in T, \A i \in 1..n : i - 1 \in T => i \in T
    PROVE  \A i \in 0..n : i \in T
<1> SUFFICES ASSUME NEW j \in 0..n, j \notin T PROVE FALSE
    OBVIOUS
<1> DEFINE B == {i \in 0..n : i \notin T}
<1>1. B \in SUBSET Nat /\ B # {}
    OBVIOUS
<1>2. PICK m \in B : \A k \in B : m <= k
    BY <1>1, LeastNumber
<1>3. m # 0 /\ m - 1 \in 0..n /\ m \in 1..n /\ m - 1 \notin B
    BY <1>2
<1> QED
    BY <1>2, <1>3

-----------------------------------------------------------------------------
(* Totals of lists *)

\* A list of amounts is as long as its domain says.
LEMMA ListFacts ==
    ASSUME NEW n \in Nat, NEW S, NEW list \in [1..n -> S]
    PROVE  Len(list) = n /\ DOMAIN list = 1..n
OBVIOUS

\* What the list adds at i to the total of the positions I.
Part(list, I, i) == IF i \in I THEN list[i] ELSE 0

\* The running totals of a list.
Adds(sum, list, I) ==
    sum = [i \in 0..Len(list) |-> IF i = 0 THEN 0 ELSE sum[i - 1] + Part(list, I, i)]

Adder(list, I) == CHOOSE sum : Adds(sum, list, I)

\* LinesTotal ends in the last of the running totals.
LEMMA TotalByAdder ==
    ASSUME NEW list, NEW I PROVE LinesTotal(list, I) = Adder(list, I)[Len(list)]
BY DEF LinesTotal, Adder, Adds, Part

\* There are such running totals, so the recursive function is one.
LEMMA AdderAdds ==
    ASSUME NEW n \in Nat, NEW list, Len(list) = n, NEW I
    PROVE  Adds(Adder(list, I), list, I)
<1> DEFINE Upto(sum, m) ==
               sum = [i \in 0..m |-> IF i = 0 THEN 0 ELSE sum[i - 1] + Part(list, I, i)]
           T == {m \in 0..n : \E sum : Upto(sum, m)}
<1>1. 0 \in T
    <2>1. PICK z : z = [i \in 0..0 |-> 0]
        OBVIOUS
    <2>2. Upto(z, 0)
        BY <2>1
    <2> QED
        BY <2>2
<1>2. ASSUME NEW m \in 1..n, m - 1 \in T PROVE m \in T
    <2>1. PICK s : Upto(s, m - 1)
        BY <1>2
    <2>2. PICK u : u = [i \in 0..m |-> IF i = m THEN s[m - 1] + Part(list, I, m) ELSE s[i]]
        OBVIOUS
    <2>3. ASSUME NEW i \in 0..m
          PROVE  u[i] = IF i = 0 THEN 0 ELSE u[i - 1] + Part(list, I, i)
        <3>1. CASE i = m
            BY <3>1, <2>2
        <3>2. CASE i # m
            <4>1. i \in 0..(m - 1)
                BY <3>2
            <4>2. s[i] = IF i = 0 THEN 0 ELSE s[i - 1] + Part(list, I, i)
                BY <2>1, <4>1
            <4>3. u[i] = s[i] /\ (i # 0 => u[i - 1] = s[i - 1])
                BY <2>2, <4>1
            <4> QED
                BY <4>2, <4>3
        <3> QED
            BY <3>1, <3>2
    <2>4. u = [i \in 0..m |-> u[i]]
        BY <2>2
    <2>5. Upto(u, m)
        BY <2>3, <2>4
    <2> QED
        BY <2>5
<1> HIDE DEF T
<1>3. n \in T
    BY <1>1, <1>2, SetInduction, n \in 0..n
<1>4. PICK sum : Upto(sum, n)
    BY <1>3 DEF T
<1>5. Adds(sum, list, I)
    BY <1>4 DEF Adds
<1> QED
    BY <1>5, Zenon DEF Adder

\* The parts of a list of amounts are amounts.
Amounts(n, list, I) == Len(list) = n /\ \A i \in 1..n : Part(list, I, i) \in Nat

\* Running totals that say what LinesTotal is.
Runs(sum, n, list, I) ==
    /\ sum \in [0..n -> Nat]
    /\ sum[0] = 0
    /\ \A i \in 1..n : sum[i] = sum[i - 1] + Part(list, I, i)
    /\ LinesTotal(list, I) = sum[n]

\* Where the parts are amounts, so are the running totals.
LEMMA TotalRuns ==
    ASSUME NEW n \in Nat, NEW list, NEW I, Amounts(n, list, I)
    PROVE  \E sum : Runs(sum, n, list, I)
<1>1. PICK sum : sum = Adder(list, I)
    OBVIOUS
<1>2. Len(list) = n /\ \A i \in 1..n : Part(list, I, i) \in Nat
    BY DEF Amounts
<1>3. sum = [i \in 0..n |-> IF i = 0 THEN 0 ELSE sum[i - 1] + Part(list, I, i)]
    <2>1. Adds(sum, list, I)
        BY <1>1, <1>2, AdderAdds
    <2> QED
        BY <1>2, <2>1 DEF Adds
<1>4. sum[0] = 0 /\ \A i \in 1..n : sum[i] = sum[i - 1] + Part(list, I, i)
    BY <1>3
<1> DEFINE T == {i \in 0..n : sum[i] \in Nat}
<1>5. 0 \in T
    BY <1>4
<1>6. ASSUME NEW i \in 1..n, i - 1 \in T PROVE i \in T
    BY <1>2, <1>4, <1>6
<1>7. \A i \in 0..n : i \in T
    <2> HIDE DEF T
    <2> QED
        BY <1>5, <1>6, SetInduction
<1>8. sum \in [0..n -> Nat]
    BY <1>3, <1>7
<1> QED
    BY <1>1, <1>2, <1>4, <1>8, TotalByAdder DEF Runs

\* The total of amounts is an amount.
LEMMA TotalIsNat ==
    ASSUME NEW n \in Nat, NEW list, NEW I, Amounts(n, list, I)
    PROVE  LinesTotal(list, I) \in Nat
BY TotalRuns DEF Runs

\* A list whose parts are the sums of two others' totals what they total.
LEMMA TotalsAdd ==
    ASSUME NEW n \in Nat, NEW a, NEW b, NEW c, NEW I, NEW J, NEW K,
           Amounts(n, a, I), Amounts(n, b, J), Len(c) = n,
           \A i \in 1..n : Part(c, K, i) = Part(a, I, i) + Part(b, J, i)
    PROVE  LinesTotal(c, K) = LinesTotal(a, I) + LinesTotal(b, J)
<1>1. Amounts(n, c, K)
    BY DEF Amounts
<1>2. PICK f : Runs(f, n, a, I)
    BY TotalRuns
<1>3. PICK g : Runs(g, n, b, J)
    BY TotalRuns
<1>4. PICK h : Runs(h, n, c, K)
    BY <1>1, TotalRuns
<1> DEFINE T == {i \in 0..n : h[i] = f[i] + g[i]}
<1>5. 0 \in T
    BY <1>2, <1>3, <1>4 DEF Runs
<1>6. ASSUME NEW i \in 1..n, i - 1 \in T PROVE i \in T
    <2>1. i - 1 \in 0..n
        OBVIOUS
    <2>2. f[i - 1] \in Nat /\ g[i - 1] \in Nat
        BY <2>1, <1>2, <1>3 DEF Runs
    <2>3. Part(a, I, i) \in Nat /\ Part(b, J, i) \in Nat
        BY DEF Amounts
    <2>4. h[i] = h[i - 1] + Part(c, K, i)
        BY <1>4 DEF Runs
    <2>5. f[i] = f[i - 1] + Part(a, I, i) /\ g[i] = g[i - 1] + Part(b, J, i)
        BY <1>2, <1>3 DEF Runs
    <2> QED
        BY <1>6, <2>2, <2>3, <2>4, <2>5
<1>7. n \in T
    <2> HIDE DEF T
    <2> QED
        BY <1>5, <1>6, SetInduction, n \in 0..n
<1> QED
    BY <1>2, <1>3, <1>4, <1>7 DEF Runs

\* A list whose parts are no larger totals no more.
LEMMA TotalsOrdered ==
    ASSUME NEW n \in Nat, NEW a, NEW b, NEW I, NEW J,
           Amounts(n, a, I), Amounts(n, b, J),
           \A i \in 1..n : Part(a, I, i) <= Part(b, J, i)
    PROVE  LinesTotal(a, I) <= LinesTotal(b, J)
<1>1. PICK c : c = [i \in 1..n |-> Part(b, J, i) - Part(a, I, i)]
    OBVIOUS
<1>2. \A i \in 1..n : Part(a, I, i) \in Nat /\ Part(b, J, i) \in Nat
    BY DEF Amounts
<1>3. c \in [1..n -> Nat]
    BY <1>1, <1>2
<1>4. Len(c) = n
    BY <1>3, ListFacts
<1>5. ASSUME NEW i \in 1..n
      PROVE  Part(c, 1..n, i) \in Nat /\ Part(b, J, i) = Part(a, I, i) + Part(c, 1..n, i)
    <2>1. Part(c, 1..n, i) = Part(b, J, i) - Part(a, I, i)
        BY <1>1 DEF Part
    <2>2. Part(a, I, i) \in Nat /\ Part(b, J, i) \in Nat /\ Part(a, I, i) <= Part(b, J, i)
        BY <1>2
    <2> QED
        BY <2>1, <2>2
<1>6. Amounts(n, c, 1..n)
    BY <1>4, <1>5 DEF Amounts
<1>7. Len(b) = n
    BY DEF Amounts
<1>8. LinesTotal(b, J) = LinesTotal(a, I) + LinesTotal(c, 1..n)
    BY <1>5, <1>6, <1>7, TotalsAdd
<1>9. LinesTotal(a, I) \in Nat /\ LinesTotal(c, 1..n) \in Nat
    BY <1>6, TotalIsNat
<1> QED
    BY <1>8, <1>9

\* Equal parts, equal totals.
LEMMA TotalsEqual ==
    ASSUME NEW n \in Nat, NEW a, NEW b, NEW I, NEW J,
           Amounts(n, a, I), Len(b) = n,
           \A i \in 1..n : Part(a, I, i) = Part(b, J, i)
    PROVE  LinesTotal(a, I) = LinesTotal(b, J)
<1>1. Amounts(n, b, J)
    BY DEF Amounts
<1>2. \A i \in 1..n : Part(a, I, i) <= Part(b, J, i) /\ Part(b, J, i) <= Part(a, I, i)
    BY DEF Amounts
<1>3. LinesTotal(a, I) <= LinesTotal(b, J) /\ LinesTotal(b, J) <= LinesTotal(a, I)
    BY <1>1, <1>2, TotalsOrdered
<1> QED
    BY <1>1, <1>3, TotalIsNat

\* A list with at most one part totals that part.
LEMMA TotalOfOne ==
    ASSUME NEW n \in Nat, NEW list, NEW I, Amounts(n, list, I), NEW m \in 1..n,
           \A i \in 1..n : i # m => Part(list, I, i) = 0
    PROVE  LinesTotal(list, I) = Part(list, I, m)
<1>1. PICK sum : Runs(sum, n, list, I)
    BY TotalRuns
<1>2. PICK p : p = Part(list, I, m)
    OBVIOUS
<1>3. p \in Nat
    BY <1>2 DEF Amounts
<1> DEFINE T == {i \in 0..n : sum[i] = IF i < m THEN 0 ELSE p}
<1>4. 0 \in T
    BY <1>1 DEF Runs
<1>5. ASSUME NEW i \in 1..n, i - 1 \in T PROVE i \in T
    <2>1. sum[i] = sum[i - 1] + Part(list, I, i)
        BY <1>1 DEF Runs
    <2>2. sum[i - 1] = IF i - 1 < m THEN 0 ELSE p
        BY <1>5
    <2>3. CASE i = m
        BY <1>2, <1>3, <2>1, <2>2, <2>3
    <2>4. CASE i # m
        <3>1. Part(list, I, i) = 0
            BY <2>4
        <3>2. sum[i] = IF i < m THEN 0 ELSE p
            BY <1>3, <2>1, <2>2, <2>4, <3>1
        <3> QED
            BY <3>2
    <2> QED
        BY <2>3, <2>4
<1>6. n \in T
    <2> HIDE DEF T
    <2> QED
        BY <1>4, <1>5, SetInduction, n \in 0..n
<1> QED
    BY <1>1, <1>2, <1>6 DEF Runs

\* A total is at least each of its parts.
LEMMA TotalHoldsParts ==
    ASSUME NEW n \in Nat, NEW list, NEW I, Amounts(n, list, I), NEW m \in 1..n
    PROVE  Part(list, I, m) <= LinesTotal(list, I)
<1>1. PICK p : p = Part(list, I, m)
    OBVIOUS
<1>2. p \in Nat /\ \A i \in 1..n : Part(list, I, i) \in Nat
    BY <1>1 DEF Amounts
<1>3. PICK c : c = [i \in 1..n |-> IF i = m THEN p ELSE 0]
    OBVIOUS
<1>4. c \in [1..n -> Nat]
    BY <1>2, <1>3
<1>5. Len(c) = n
    BY <1>4, ListFacts
<1>6. \A i \in 1..n : Part(c, 1..n, i) = IF i = m THEN p ELSE 0
    BY <1>3 DEF Part
<1>7. Amounts(n, c, 1..n)
    BY <1>2, <1>5, <1>6 DEF Amounts
<1>8. LinesTotal(c, 1..n) = p
    BY <1>6, <1>7, TotalOfOne
<1>9. \A i \in 1..n : Part(c, 1..n, i) <= Part(list, I, i)
    BY <1>1, <1>2, <1>6
<1> QED
    BY <1>1, <1>7, <1>8, <1>9, TotalsOrdered

\* A list without parts totals 0.
LEMMA TotalOfNothing ==
    ASSUME NEW n \in Nat, NEW list, NEW I, Len(list) = n, \A i \in 1..n : Part(list, I, i) = 0
    PROVE  LinesTotal(list, I) = 0
<1>1. Amounts(n, list, I)
    BY DEF Amounts
<1>2. LinesTotal(list, I) = LinesTotal(list, I) + LinesTotal(list, I)
    BY <1>1, TotalsAdd
<1> QED
    BY <1>1, <1>2, TotalIsNat

-----------------------------------------------------------------------------
(* Rounded shares *)

\* Lesser is the lesser of two amounts, and Less does not go below 0.
LEMMA LesserFacts ==
    ASSUME NEW a \in Nat, NEW b \in Nat
    PROVE  /\ Lesser(a, b) \in Nat /\ Lesser(a, b) <= a /\ Lesser(a, b) <= b
           /\ Less(a, b) \in Nat
           /\ b <= a => Lesser(a, b) = b /\ Less(a, b) = a - b
           /\ a <= b => Lesser(a, b) = a /\ Less(a, b) = 0
BY DEF Lesser, Less

\* A rounded share is an amount.
LEMMA RoundedShareIsNat ==
    ASSUME NEW n \in Nat, NEW part \in Nat, NEW whole \in Nat \ {0}
    PROVE  RoundedShare(n, part, whole) \in Nat
<1>1. PICK p : p = 2 * n * part + whole
    OBVIOUS
<1>2. p \in Nat
    BY <1>1
<1>3. PICK q : q = 2 * whole
    OBVIOUS
<1>4. q \in Nat \ {0}
    BY <1>3
<1>5. p \div q \in Nat
    BY <1>2, <1>4
<1> QED
    BY <1>1, <1>3, <1>5 DEF RoundedShare

\* A percentage of an amount is no more than the amount.
LEMMA PercentageWithin ==
    ASSUME NEW n \in Nat, NEW percent \in 1..100
    PROVE  RoundedShare(n, percent, 100) <= n
<1>1. PICK m : m = n * percent
    OBVIOUS
<1>2. PICK d : d = 100 - percent
    OBVIOUS
<1>3. d \in Nat /\ n * d \in Nat
    BY <1>2
<1>4. n * 100 = n * percent + n * d
    BY <1>2
<1>5. m \in Nat /\ m <= 100 * n
    BY <1>1, <1>3, <1>4
<1>6. 2 * n * percent = 2 * m
    BY <1>1
<1>7. (2 * m + 100) \div 200 <= n
    BY <1>5
<1> QED
    BY <1>6, <1>7 DEF RoundedShare

-----------------------------------------------------------------------------
(* Sharing an amount out *)

\* The share of line i when r remains, as AllocateDiscount takes it.
ShareOf(lines, amount, I, i, r) ==
    IF i \notin SharingLines(lines, I) THEN 0
    ELSE IF IsLastOf(SharingLines(lines, I), i) THEN r
    ELSE Lesser(r, RoundedShare(amount, lines[i], LinesTotal(lines, SharingLines(lines, I))))

\* What remains after each line.
Leaves(left, lines, amount, I) ==
    left = [i \in 0..Len(lines) |->
              IF i = 0 THEN Lesser(amount, LinesTotal(lines, SharingLines(lines, I)))
              ELSE left[i - 1] - ShareOf(lines, amount, I, i, left[i - 1])]

Leaver(lines, amount, I) == CHOOSE left : Leaves(left, lines, amount, I)

\* The discounts are the shares of what remains before each line.
LEMMA AllocateByLeaver ==
    ASSUME NEW lines, NEW amount, NEW I
    PROVE  AllocateDiscount(lines, amount, I)
             = [i \in DOMAIN lines |->
                  ShareOf(lines, amount, I, i, Leaver(lines, amount, I)[i - 1])]
BY DEF AllocateDiscount, ShareOf, Leaver, Leaves

\* What remains is defined for every line, so the recursive function is it.
LEMMA LeaverLeaves ==
    ASSUME NEW n \in Nat, NEW lines, Len(lines) = n, NEW amount, NEW I
    PROVE  Leaves(Leaver(lines, amount, I), lines, amount, I)
<1> DEFINE First == Lesser(amount, LinesTotal(lines, SharingLines(lines, I)))
           Step(i, r) == r - ShareOf(lines, amount, I, i, r)
           Upto(left, m) == left = [i \in 0..m |-> IF i = 0 THEN First ELSE Step(i, left[i - 1])]
           T == {m \in 0..n : \E left : Upto(left, m)}
<1> HIDE DEF First, Step
<1>1. 0 \in T
    <2>1. PICK z : z = [i \in 0..0 |-> First]
        OBVIOUS
    <2>2. Upto(z, 0)
        BY <2>1
    <2> QED
        BY <2>2
<1>2. ASSUME NEW m \in 1..n, m - 1 \in T PROVE m \in T
    <2>1. PICK s : Upto(s, m - 1)
        BY <1>2
    <2>2. PICK u : u = [i \in 0..m |-> IF i = m THEN Step(m, s[m - 1]) ELSE s[i]]
        OBVIOUS
    <2>3. ASSUME NEW i \in 0..m
          PROVE  u[i] = IF i = 0 THEN First ELSE Step(i, u[i - 1])
        <3>1. CASE i = m
            <4>1. u[i - 1] = s[m - 1]
                BY <3>1, <2>2
            <4> QED
                BY <3>1, <4>1, <2>2
        <3>2. CASE i # m
            <4>1. i \in 0..(m - 1)
                BY <3>2
            <4>2. s[i] = IF i = 0 THEN First ELSE Step(i, s[i - 1])
                BY <2>1, <4>1
            <4>3. u[i] = s[i] /\ (i # 0 => u[i - 1] = s[i - 1])
                BY <2>2, <4>1
            <4> QED
                BY <4>2, <4>3
        <3> QED
            BY <3>1, <3>2
    <2>4. u = [i \in 0..m |-> u[i]]
        BY <2>2
    <2>5. Upto(u, m)
        BY <2>3, <2>4
    <2> QED
        BY <2>5
<1> HIDE DEF T
<1>3. n \in T
    BY <1>1, <1>2, SetInduction, n \in 0..n
<1>4. PICK left : Upto(left, n)
    BY <1>3 DEF T
<1>5. Leaves(left, lines, amount, I)
    BY <1>4 DEF Leaves, First, Step
<1> QED
    BY <1>5, Zenon DEF Leaver

\* A share takes no more than remains, and the last line's takes all of it.
LEMMA ShareFacts ==
    ASSUME NEW n \in Nat, NEW lines \in [1..n -> Nat], NEW amount \in Nat,
           NEW I \in SUBSET (1..n), NEW i \in 1..n, NEW r \in Nat
    PROVE  /\ ShareOf(lines, amount, I, i, r) \in 0..r
           /\ IsLastOf(SharingLines(lines, I), i) => ShareOf(lines, amount, I, i, r) = r
<1>1. PICK S : S = SharingLines(lines, I)
    OBVIOUS
<1>2. S \subseteq 1..n /\ \A k \in S : lines[k] > 0
    BY <1>1 DEF SharingLines
<1>3. PICK base : base = LinesTotal(lines, S)
    OBVIOUS
<1>4. CASE i \in S /\ ~IsLastOf(S, i)
    <2>1. Len(lines) = n
        BY ListFacts
    <2>2. Amounts(n, lines, S)
        BY <2>1 DEF Amounts, Part
    <2>3. Part(lines, S, i) = lines[i] /\ lines[i] \in Nat \ {0}
        BY <1>2, <1>4 DEF Part
    <2>4. base \in Nat
        BY <2>2, <1>3, TotalIsNat
    <2>5. lines[i] <= base
        BY <2>2, <2>3, <1>3, TotalHoldsParts
    <2>6. base \in Nat \ {0}
        BY <2>3, <2>4, <2>5
    <2>7. PICK q : q = RoundedShare(amount, lines[i], base)
        OBVIOUS
    <2>8. q \in Nat
        BY <2>3, <2>6, <2>7, RoundedShareIsNat
    <2>10. Lesser(r, q) \in 0..r
        BY <2>8 DEF Lesser
    <2>9. ShareOf(lines, amount, I, i, r) = Lesser(r, RoundedShare(amount, lines[i], base))
        BY <1>1, <1>3, <1>4 DEF ShareOf
    <2> QED
        BY <1>1, <1>4, <2>7, <2>9, <2>10
<1>5. CASE IsLastOf(S, i)
    <2>1. i \in S
        BY <1>5 DEF IsLastOf
    <2>2. ShareOf(lines, amount, I, i, r) = r
        BY <1>1, <1>5, <2>1 DEF ShareOf
    <2> QED
        BY <2>2
<1>6. CASE i \notin S
    <2>1. ShareOf(lines, amount, I, i, r) = 0 /\ ~IsLastOf(S, i)
        BY <1>1, <1>6 DEF ShareOf, IsLastOf
    <2> QED
        BY <1>1, <2>1
<1> QED
    BY <1>4, <1>5, <1>6

\* A set of lines has a last one.
LEMMA LastExists ==
    ASSUME NEW n \in Nat, NEW S \in SUBSET (1..n), S # {}
    PROVE  \E m \in S : IsLastOf(S, m)
<1> SUFFICES ASSUME \A m \in S : \E k \in S : ~(k <= m) PROVE FALSE
    BY DEF IsLastOf
<1> DEFINE T == {i \in 0..n : \E k \in S : k > i}
<1>1. 0 \in T
    <2>1. PICK k \in S : TRUE
        OBVIOUS
    <2>2. k > 0 /\ 0 \in 0..n
        BY <2>1
    <2> QED
        BY <2>1, <2>2
<1>2. ASSUME NEW i \in 1..n, i - 1 \in T PROVE i \in T
    <2>1. PICK k \in S : k > i - 1
        BY <1>2
    <2>2. PICK j \in S : ~(j <= k)
        OBVIOUS
    <2>3. j > i
        BY <2>1, <2>2
    <2> QED
        BY <2>3
<1>3. n \in T
    <2> HIDE DEF T
    <2> QED
        BY <1>1, <1>2, SetInduction, n \in 0..n
<1> QED
    BY <1>3

\* The shares are amounts, and add up to the discount, or to all the sharing lines cost.
LEMMA SharesAddUp ==
    ASSUME NEW n \in Nat, NEW lines \in [1..n -> Nat], NEW amount \in Nat,
           NEW I \in SUBSET (1..n),
           NEW shares, shares = AllocateDiscount(lines, amount, I)
    PROVE  /\ shares \in [1..n -> Nat]
           /\ LinesTotal(shares, 1..n)
                = Lesser(amount, LinesTotal(lines, SharingLines(lines, I)))
<1>1. PICK left : left = Leaver(lines, amount, I)
    OBVIOUS
<1>2. PICK S : S = SharingLines(lines, I)
    OBVIOUS
<1>3. PICK first : first = Lesser(amount, LinesTotal(lines, S))
    OBVIOUS
<1>4. Len(lines) = n /\ DOMAIN lines = 1..n
    BY ListFacts
<1>5. S \subseteq 1..n
    BY <1>2 DEF SharingLines
<1>6. Amounts(n, lines, S)
    BY <1>4, <1>5 DEF Amounts, Part
<1>7. first \in Nat
    BY <1>3, <1>6, TotalIsNat, LesserFacts
<1>8. left = [i \in 0..n |-> IF i = 0 THEN first
                             ELSE left[i - 1] - ShareOf(lines, amount, I, i, left[i - 1])]
    <2>1. Leaves(left, lines, amount, I)
        BY <1>1, <1>4, LeaverLeaves
    <2> QED
        BY <2>1, <1>2, <1>3, <1>4 DEF Leaves
<1>9. left[0] = first
    BY <1>8
<1>10. ASSUME NEW i \in 1..n
       PROVE  left[i] = left[i - 1] - ShareOf(lines, amount, I, i, left[i - 1])
    BY <1>8
<1>11. shares = [i \in 1..n |-> ShareOf(lines, amount, I, i, left[i - 1])]
    BY <1>1, <1>4, AllocateByLeaver
<1>12. ASSUME NEW i \in 1..n, left[i - 1] \in Nat
       PROVE  /\ shares[i] \in 0..left[i - 1]
              /\ left[i] = left[i - 1] - shares[i] /\ left[i] \in Nat
              /\ IsLastOf(S, i) => left[i] = 0
    <2>1. PICK r : r = left[i - 1]
        OBVIOUS
    <2>2. PICK s : s = ShareOf(lines, amount, I, i, r)
        OBVIOUS
    <2>3. s \in 0..r /\ (IsLastOf(S, i) => s = r)
        BY <1>2, <1>12, <2>1, <2>2, ShareFacts
    <2>4. shares[i] = s /\ left[i] = r - s
        BY <1>10, <1>11, <2>1, <2>2
    <2> QED
        BY <1>12, <2>1, <2>3, <2>4
<1> DEFINE T == {i \in 0..n : left[i] \in Nat}
<1>13. 0 \in T
    BY <1>7, <1>9
<1>14. ASSUME NEW i \in 1..n, i - 1 \in T PROVE i \in T
    BY <1>12, <1>14
<1>15. \A i \in 0..n : left[i] \in Nat
    <2>1. \A i \in 0..n : i \in T
        <3> HIDE DEF T
        <3> QED
            BY <1>13, <1>14, SetInduction
    <2> QED
        BY <2>1
<1>16. \A i \in 1..n : /\ shares[i] \in Nat /\ left[i] = left[i - 1] - shares[i]
                       /\ left[i] <= left[i - 1]
                       /\ IsLastOf(S, i) => left[i] = 0
    BY <1>12, <1>15
<1>17. shares \in [1..n -> Nat]
    BY <1>11, <1>16
<1>18. Len(shares) = n
    BY <1>17, ListFacts
<1>19. Amounts(n, shares, 1..n)
    BY <1>16, <1>18 DEF Amounts, Part
<1>20. PICK sum : Runs(sum, n, shares, 1..n)
    BY <1>19, TotalRuns
<1> DEFINE U == {i \in 0..n : sum[i] = first - left[i]}
<1>21. 0 \in U
    BY <1>7, <1>9, <1>20 DEF Runs
<1>22. ASSUME NEW i \in 1..n, i - 1 \in U PROVE i \in U
    <2>1. sum[i] = sum[i - 1] + shares[i]
        BY <1>20 DEF Runs, Part
    <2>2. i - 1 \in 0..n
        OBVIOUS
    <2>3. /\ left[i] \in Nat /\ left[i - 1] \in Nat
          /\ left[i] = left[i - 1] - shares[i] /\ shares[i] \in Nat
        BY <1>15, <1>16, <2>2
    <2>4. sum[i - 1] = first - left[i - 1]
        BY <1>22
    <2> QED
        BY <1>7, <2>1, <2>3, <2>4
<1>23. sum[n] = first - left[n]
    <2>1. n \in U
        <3> HIDE DEF U
        <3> QED
            BY <1>21, <1>22, SetInduction, n \in 0..n
    <2> QED
        BY <2>1
<1>24. left[n] = 0
    <2>1. CASE S = {}
        <3>1. \A i \in 1..n : Part(lines, S, i) = 0
            BY <2>1 DEF Part
        <3>2. LinesTotal(lines, S) = 0
            BY <3>1, <1>4, TotalOfNothing
        <3>3. first = 0
            BY <1>3, <3>2, LesserFacts
        <3>4. sum[n] \in Nat /\ left[n] \in Nat
            BY <1>15, <1>20 DEF Runs
        <3> QED
            BY <1>23, <3>3, <3>4
    <2>2. CASE S # {}
        <3>1. PICK m \in S : IsLastOf(S, m)
            BY <1>5, <2>2, LastExists
        <3>2. m \in 1..n /\ left[m] = 0
            BY <1>5, <1>16, <3>1
        <3> DEFINE V == {i \in 0..n : i >= m => left[i] = 0}
        <3>3. 0 \in V
            BY <3>2
        <3>4. ASSUME NEW i \in 1..n, i - 1 \in V PROVE i \in V
            <4>1. left[i] <= left[i - 1] /\ left[i] \in Nat /\ i - 1 \in 0..n
                BY <1>15, <1>16
            <4>2. CASE i = m
                BY <3>2, <4>2
            <4>3. CASE i < m
                BY <3>2, <4>3
            <4>4. CASE i > m
                <5>1. i - 1 >= m
                    BY <3>2, <4>4
                <5>2. left[i - 1] = 0
                    BY <3>4, <5>1
                <5> QED
                    BY <4>1, <5>2
            <4> QED
                BY <3>2, <4>2, <4>3, <4>4
        <3>5. n \in V
            <4> HIDE DEF V
            <4> QED
                BY <3>3, <3>4, SetInduction, n \in 0..n
        <3> QED
            BY <3>2, <3>5
    <2> QED
        BY <2>1, <2>2
<1>25. LinesTotal(shares, 1..n) = first
    BY <1>7, <1>20, <1>23, <1>24 DEF Runs
<1> QED
    BY <1>2, <1>3, <1>17, <1>25

-----------------------------------------------------------------------------
(* What comes off *)

\* A checkout of n lines.
IsCheckout(x, n) ==
    x \in [lines : [1..n -> Nat], eligible : SUBSET (1..n), campaign : Campaigns,
           coupon : Coupons \cup {NoCoupon}, fee : Nat, gift : Nat,
           policy : {"inclusive", "exclusive"}]

\* The fields of a checkout.
LEMMA CheckoutFields ==
    ASSUME NEW n \in Nat, NEW x, IsCheckout(x, n)
    PROVE  /\ x.lines \in [1..n -> Nat] /\ Len(x.lines) = n /\ DOMAIN x.lines = 1..n
           /\ x.eligible \in SUBSET (1..n)
           /\ x.campaign \in Campaigns /\ x.coupon \in Coupons \cup {NoCoupon}
           /\ x.fee \in Nat /\ x.gift \in Nat
<1>1. x.lines \in [1..n -> Nat]
    BY DEF IsCheckout
<1>2. Len(x.lines) = n /\ DOMAIN x.lines = 1..n
    BY <1>1, ListFacts
<1> QED
    BY <1>1, <1>2 DEF IsCheckout

\* What evaluatePromotions computes on its way.
Subtotal(x) == LinesTotal(x.lines, DOMAIN x.lines)
EligibleTotal(x) == LinesTotal(x.lines, x.eligible)

CandidateOf(x) ==
    IF x.coupon = NoCoupon THEN [product |-> 0, shipping |-> 0]
    ELSE CouponCandidate(x.coupon, EligibleTotal(x), x.fee)

OffOf(x) ==
    IF x.coupon = NoCoupon
    THEN [campaign |-> CampaignDiscount(x.campaign, Subtotal(x)), product |-> 0, shipping |-> 0]
    ELSE Combine(x.coupon.stacking, Subtotal(x), CampaignDiscount(x.campaign, Subtotal(x)),
                 CandidateOf(x))

\* What evaluatePromotions returns, in those terms.
LEMMA EvaluateUnfolds ==
    ASSUME NEW x
    PROVE  EvaluatePromotions(x) =
             IF x.coupon # NoCoupon /\ \/ Subtotal(x) < MinimumSubtotal
                                       \/ CandidateOf(x).product + CandidateOf(x).shipping = 0
             THEN Refused
             ELSE [st |-> "priced", off |-> OffOf(x),
                   shares |-> [i \in DOMAIN x.lines |->
                                 AllocateDiscount(x.lines, OffOf(x).campaign, DOMAIN x.lines)[i]
                                   + AllocateDiscount(x.lines, OffOf(x).product, x.eligible)[i]],
                   shippingFee |-> x.fee - OffOf(x).shipping,
                   total |-> Less(Subtotal(x), OffOf(x).campaign + OffOf(x).product)
                               + x.fee - OffOf(x).shipping]
BY DEF EvaluatePromotions, OffOf, CandidateOf, Subtotal, EligibleTotal

\* The eligible lines cost no more than all of them, and a line that costs nothing adds nothing.
LEMMA TotalsOfCheckout ==
    ASSUME NEW n \in Nat, NEW x, IsCheckout(x, n)
    PROVE  /\ Subtotal(x) \in Nat /\ EligibleTotal(x) \in Nat
           /\ EligibleTotal(x) <= Subtotal(x)
           /\ LinesTotal(x.lines, SharingLines(x.lines, DOMAIN x.lines)) = Subtotal(x)
           /\ LinesTotal(x.lines, SharingLines(x.lines, x.eligible)) = EligibleTotal(x)
<1>1. /\ x.lines \in [1..n -> Nat] /\ Len(x.lines) = n /\ DOMAIN x.lines = 1..n
      /\ x.eligible \subseteq 1..n
    BY CheckoutFields
<1>2. ASSUME NEW I \in SUBSET (1..n)
      PROVE  /\ Amounts(n, x.lines, I)
             /\ LinesTotal(x.lines, SharingLines(x.lines, I)) = LinesTotal(x.lines, I)
    <2>1. Amounts(n, x.lines, I)
        BY <1>1 DEF Amounts, Part
    <2>2. \A i \in 1..n : Part(x.lines, I, i) = Part(x.lines, SharingLines(x.lines, I), i)
        BY <1>1 DEF Part, SharingLines
    <2> QED
        BY <1>1, <2>1, <2>2, TotalsEqual
<1>3. \A i \in 1..n : Part(x.lines, x.eligible, i) <= Part(x.lines, 1..n, i)
    BY <1>1 DEF Part
<1>4. EligibleTotal(x) <= Subtotal(x)
    BY <1>1, <1>2, <1>3, TotalsOrdered DEF EligibleTotal, Subtotal
<1> QED
    BY <1>1, <1>2, <1>4, TotalIsNat DEF EligibleTotal, Subtotal

\* A campaign takes off no more than the lines cost.
LEMMA CampaignWithin ==
    ASSUME NEW campaign \in Campaigns, NEW s \in Nat
    PROVE  CampaignDiscount(campaign, s) \in Nat /\ CampaignDiscount(campaign, s) <= s
<1>1. PICK v : v = campaign.value
    OBVIOUS
<1>2. CASE campaign.type = "percentage"
    <2>1. v \in 1..100
        BY <1>1, <1>2, PricingAssumption DEF Campaigns
    <2>2. v \in Nat /\ 100 \in Nat \ {0}
        BY <2>1
    <2>3. RoundedShare(s, v, 100) \in Nat
        BY <2>2, RoundedShareIsNat
    <2>4. RoundedShare(s, v, 100) <= s
        BY <2>1, PercentageWithin
    <2> QED
        BY <1>1, <1>2, <2>3, <2>4 DEF CampaignDiscount
<1>3. CASE campaign.type # "percentage"
    <2>1. v \in Nat
        BY <1>1, <1>3, PricingAssumption DEF Campaigns
    <2>2. CampaignDiscount(campaign, s) = Lesser(s, v)
        BY <1>1, <1>3 DEF CampaignDiscount
    <2>3. Lesser(s, v) \in Nat /\ Lesser(s, v) <= s
        BY <2>1, LesserFacts
    <2> QED
        BY <2>2, <2>3
<1> QED
    BY <1>2, <1>3

\* The fields of a coupon.
LEMMA CouponFields ==
    ASSUME NEW coupon \in Coupons
    PROVE  /\ coupon.type \in {"percentage", "fixed", "free_shipping"}
           /\ coupon.type = "percentage" => coupon.value \in 1..100
           /\ coupon.value \in Nat
           /\ coupon.stacking \in {"exclusive", "with_campaign", "best_discount"}
<1>1. Percent \subseteq 1..100 /\ Amount \subseteq Nat
    BY PricingAssumption
<1>2. coupon.stacking \in {"exclusive", "with_campaign", "best_discount"}
    BY DEF Coupons
<1>3. \/ coupon.type = "percentage" /\ coupon.value \in Percent
      \/ coupon.type = "fixed" /\ coupon.value \in Amount
      \/ coupon.type = "free_shipping" /\ coupon.value = 0
    BY DEF Coupons
<1>4. coupon.value \in Nat
    <2>1. \A k \in Percent : k \in Nat
        BY <1>1
    <2>2. \A k \in Amount : k \in Nat
        BY <1>1
    <2>3. 0 \in Nat
        OBVIOUS
    <2> QED
        BY <1>3, <2>1, <2>2, <2>3
<1>5. coupon.type = "percentage" => coupon.value \in 1..100
    BY <1>1, <1>3
<1>6. coupon.type \in {"percentage", "fixed", "free_shipping"}
    BY <1>3
<1> QED
    BY <1>2, <1>4, <1>5, <1>6

\* A coupon takes off no more than its lines cost, and no more than the delivery does.
LEMMA CandidateWithin ==
    ASSUME NEW coupon \in Coupons, NEW s \in Nat, NEW fee \in Nat
    PROVE  LET candidate == CouponCandidate(coupon, s, fee)
           IN /\ candidate.product \in Nat /\ candidate.product <= s
              /\ candidate.shipping \in Nat /\ candidate.shipping <= fee
<1> DEFINE Cap(m) == IF coupon.capped THEN Lesser(m, MaximumDiscount) ELSE m
<1>1. MaximumDiscount \in Nat
    BY PricingAssumption
<1>2. \A m \in Nat : Cap(m) \in Nat /\ Cap(m) <= m
    BY <1>1, LesserFacts
<1>3. PICK p : p = RoundedShare(s, coupon.value, 100)
    OBVIOUS
<1>4. coupon.type = "percentage" => p \in Nat
    <2> SUFFICES ASSUME coupon.type = "percentage" PROVE p \in Nat
        OBVIOUS
    <2>1. coupon.value \in Nat /\ 100 \in Nat \ {0}
        BY CouponFields
    <2> QED
        BY <1>3, <2>1, RoundedShareIsNat
<1>5. PICK v : v = CASE coupon.type = "percentage" -> Cap(p)
                     [] coupon.type = "fixed" -> Cap(coupon.value)
                     [] coupon.type = "free_shipping" -> 0
    OBVIOUS
<1>6. PICK f : f = IF coupon.type = "free_shipping" THEN Cap(fee) ELSE 0
    OBVIOUS
<1>7. CouponCandidate(coupon, s, fee) = [product |-> Lesser(s, v), shipping |-> f]
    BY <1>3, <1>5, <1>6 DEF CouponCandidate
<1> HIDE DEF Cap
<1>8. v \in Nat
    BY <1>2, <1>4, <1>5, CouponFields
<1>9. f \in Nat /\ f <= fee
    BY <1>2, <1>6
<1>10. Lesser(s, v) \in Nat /\ Lesser(s, v) <= s
    BY <1>8, LesserFacts
<1> QED
    BY <1>7, <1>9, <1>10

\* What comes off is never more than there is, and with a coupon that is not exclusive never
\* less than the campaign alone takes.
LEMMA OffWithin ==
    ASSUME NEW n \in Nat, NEW x, IsCheckout(x, n), NEW off, off = OffOf(x)
    PROVE  /\ off.campaign \in Nat /\ off.product \in Nat /\ off.shipping \in Nat
           /\ off.campaign <= Subtotal(x) /\ off.product <= EligibleTotal(x)
           /\ off.campaign + off.product <= Subtotal(x)
           /\ off.shipping <= x.fee
           /\ \/ x.coupon # NoCoupon /\ x.coupon.stacking = "exclusive"
              \/ off.campaign + off.product + off.shipping
                   >= CampaignDiscount(x.campaign, Subtotal(x))
<1>1. PICK s : s = Subtotal(x)
    OBVIOUS
<1>2. PICK e : e = EligibleTotal(x)
    OBVIOUS
<1>3. s \in Nat /\ e \in Nat /\ e <= s
    BY <1>1, <1>2, TotalsOfCheckout
<1>4. x.campaign \in Campaigns /\ x.coupon \in Coupons \cup {NoCoupon} /\ x.fee \in Nat
    BY CheckoutFields
<1>5. PICK c : c = CampaignDiscount(x.campaign, s)
    OBVIOUS
<1>6. c \in Nat /\ c <= s
    BY <1>3, <1>4, <1>5, CampaignWithin
<1>7. CASE x.coupon = NoCoupon
    <2>1. off = [campaign |-> c, product |-> 0, shipping |-> 0]
        BY <1>1, <1>5, <1>7 DEF OffOf
    <2>2. off.campaign = c /\ off.product = 0 /\ off.shipping = 0
        BY <2>1
    <2> QED
        BY <1>1, <1>2, <1>3, <1>4, <1>5, <1>6, <2>2
<1>8. CASE x.coupon # NoCoupon
    <2>1. x.coupon \in Coupons
        BY <1>4, <1>8
    <2>2. PICK candidate : candidate = CouponCandidate(x.coupon, e, x.fee)
        OBVIOUS
    <2>3. PICK p : p = candidate.product
        OBVIOUS
    <2>4. PICK d : d = candidate.shipping
        OBVIOUS
    <2>5. p \in Nat /\ p <= e /\ d \in Nat /\ d <= x.fee
        BY <1>3, <1>4, <2>1, <2>2, <2>3, <2>4, CandidateWithin
    <2>6. off = Combine(x.coupon.stacking, s, c, candidate)
        BY <1>1, <1>2, <1>5, <1>8, <2>2 DEF OffOf, CandidateOf
    <2>7. CASE x.coupon.stacking = "exclusive"
        <3>1. off.campaign = 0 /\ off.product = p /\ off.shipping = d
            BY <2>3, <2>4, <2>6, <2>7 DEF Combine
        <3> QED
            BY <1>1, <1>2, <1>3, <1>8, <2>5, <2>7, <3>1
    <2>8. CASE x.coupon.stacking = "with_campaign"
        <3>1. off.campaign = c /\ off.product = Lesser(p, s - c) /\ off.shipping = d
            BY <2>3, <2>4, <2>6, <2>8 DEF Combine
        <3>2. /\ off.product \in Nat /\ off.product <= p /\ off.product <= s - c
            BY <1>3, <1>6, <2>5, <3>1 DEF Lesser
        <3> QED
            BY <1>1, <1>2, <1>3, <1>5, <1>6, <2>5, <3>1, <3>2
    <2>9. CASE x.coupon.stacking = "best_discount"
        <3>1. CASE p + d > c
            <4>1. off.campaign = 0 /\ off.product = p /\ off.shipping = d
                BY <2>3, <2>4, <2>6, <2>9, <3>1 DEF Combine
            <4> QED
                BY <1>1, <1>2, <1>3, <1>5, <1>6, <2>5, <3>1, <4>1
        <3>2. CASE ~(p + d > c)
            <4>1. off.campaign = c /\ off.product = 0 /\ off.shipping = 0
                BY <2>3, <2>4, <2>6, <2>9, <3>2 DEF Combine
            <4> QED
                BY <1>1, <1>2, <1>3, <1>4, <1>5, <1>6, <2>5, <4>1
        <3> QED
            BY <3>1, <3>2
    <2> QED
        BY <2>1, <2>7, <2>8, <2>9, CouponFields
<1> QED
    BY <1>7, <1>8

-----------------------------------------------------------------------------
(* What is charged *)

\* A list with one more line totals that line more.
LEMMA TotalOfLonger ==
    ASSUME NEW n \in Nat, NEW a, NEW c, NEW I, NEW K, Amounts(n, a, I), Amounts(n + 1, c, K),
           \A i \in 1..n : Part(c, K, i) = Part(a, I, i)
    PROVE  LinesTotal(c, K) = LinesTotal(a, I) + Part(c, K, n + 1)
<1>1. PICK f : Runs(f, n, a, I)
    BY TotalRuns
<1>2. PICK h : Runs(h, n + 1, c, K)
    BY n + 1 \in Nat, TotalRuns
<1> DEFINE T == {i \in 0..n : h[i] = f[i]}
<1>3. 0 \in T
    BY <1>1, <1>2 DEF Runs
<1>4. ASSUME NEW i \in 1..n, i - 1 \in T PROVE i \in T
    <2>1. f[i] = f[i - 1] + Part(a, I, i)
        BY <1>1 DEF Runs
    <2>2. h[i] = h[i - 1] + Part(c, K, i)
        BY <1>2 DEF Runs
    <2> QED
        BY <1>4, <2>1, <2>2
<1>5. h[n] = f[n]
    <2>1. n \in T
        <3> HIDE DEF T
        <3> QED
            BY <1>3, <1>4, SetInduction, n \in 0..n
    <2> QED
        BY <2>1
<1>6. h[n + 1] = h[n + 1 - 1] + Part(c, K, n + 1)
    BY <1>2, n + 1 \in 1..(n + 1) DEF Runs
<1>7. n + 1 - 1 = n
    OBVIOUS
<1> QED
    BY <1>1, <1>2, <1>5, <1>6, <1>7 DEF Runs

\* The prices of a checkout that is not refused.
LEMMA PricedFacts ==
    ASSUME NEW n \in Nat, NEW x, IsCheckout(x, n),
           NEW p, p = EvaluatePromotions(x), p.st = "priced"
    PROVE  /\ p.off = OffOf(x)
           /\ p.shares \in [1..n -> Nat]
           /\ LinesTotal(p.shares, 1..n) = p.off.campaign + p.off.product
           /\ p.shippingFee \in Nat
           /\ p.total = Subtotal(x) - (p.off.campaign + p.off.product) + p.shippingFee
           /\ p.shippingFee = x.fee - p.off.shipping
<1>1. PICK off : off = OffOf(x)
    OBVIOUS
<1>2. /\ off.campaign \in Nat /\ off.product \in Nat /\ off.shipping \in Nat
      /\ off.campaign <= Subtotal(x) /\ off.product <= EligibleTotal(x)
      /\ off.campaign + off.product <= Subtotal(x)
      /\ off.shipping <= x.fee
    BY <1>1, OffWithin
<1>3. /\ x.lines \in [1..n -> Nat] /\ DOMAIN x.lines = 1..n
      /\ x.eligible \in SUBSET (1..n) /\ x.fee \in Nat
    BY CheckoutFields
<1>4. Subtotal(x) \in Nat /\ EligibleTotal(x) \in Nat
    BY TotalsOfCheckout
<1>5. PICK a : a = AllocateDiscount(x.lines, off.campaign, 1..n)
    OBVIOUS
<1>6. PICK b : b = AllocateDiscount(x.lines, off.product, x.eligible)
    OBVIOUS
<1>7. a \in [1..n -> Nat] /\ LinesTotal(a, 1..n) = off.campaign
    <2>1. /\ a \in [1..n -> Nat]
          /\ LinesTotal(a, 1..n)
               = Lesser(off.campaign, LinesTotal(x.lines, SharingLines(x.lines, 1..n)))
        BY <1>2, <1>3, <1>5, SharesAddUp
    <2>2. LinesTotal(x.lines, SharingLines(x.lines, 1..n)) = Subtotal(x)
        BY <1>3, TotalsOfCheckout
    <2>3. Lesser(off.campaign, Subtotal(x)) = off.campaign
        BY <1>2, <1>4, LesserFacts
    <2> QED
        BY <2>1, <2>2, <2>3
<1>8. b \in [1..n -> Nat] /\ LinesTotal(b, 1..n) = off.product
    <2>1. /\ b \in [1..n -> Nat]
          /\ LinesTotal(b, 1..n)
               = Lesser(off.product, LinesTotal(x.lines, SharingLines(x.lines, x.eligible)))
        <3>1. PICK I : I = x.eligible
            OBVIOUS
        <3>2. PICK d : d = off.product
            OBVIOUS
        <3>3. PICK lines : lines = x.lines
            OBVIOUS
        <3>4. /\ lines \in [1..n -> Nat] /\ I \in SUBSET (1..n) /\ d \in Nat
              /\ b = AllocateDiscount(lines, d, I)
            BY <1>2, <1>3, <1>6, <3>1, <3>2, <3>3
        <3>5. /\ b \in [1..n -> Nat]
              /\ LinesTotal(b, 1..n) = Lesser(d, LinesTotal(lines, SharingLines(lines, I)))
            BY <3>4, SharesAddUp
        <3> QED
            BY <3>1, <3>2, <3>3, <3>5
    <2>2. LinesTotal(x.lines, SharingLines(x.lines, x.eligible)) = EligibleTotal(x)
        BY TotalsOfCheckout
    <2>3. Lesser(off.product, EligibleTotal(x)) = off.product
        BY <1>2, <1>4, LesserFacts
    <2> QED
        BY <2>1, <2>2, <2>3
<1>9. PICK total : total = Less(Subtotal(x), off.campaign + off.product) + x.fee - off.shipping
    OBVIOUS
<1>10. p = [st |-> "priced", off |-> off, shares |-> [i \in 1..n |-> a[i] + b[i]],
            shippingFee |-> x.fee - off.shipping, total |-> total]
    <2>1. p # Refused
        BY DEF Refused
    <2> QED
        BY <2>1, <1>1, <1>3, <1>5, <1>6, <1>9, EvaluateUnfolds
<1>11. p.off = off /\ p.shares = [i \in 1..n |-> a[i] + b[i]]
       /\ p.shippingFee = x.fee - off.shipping /\ p.total = total
    BY <1>10
<1>12. p.shares \in [1..n -> Nat]
    BY <1>7, <1>8, <1>11
<1>13. LinesTotal(p.shares, 1..n) = off.campaign + off.product
    <2>1. Amounts(n, a, 1..n) /\ Amounts(n, b, 1..n) /\ Len(p.shares) = n
        BY <1>7, <1>8, <1>12, ListFacts DEF Amounts, Part
    <2>2. \A i \in 1..n : Part(p.shares, 1..n, i) = Part(a, 1..n, i) + Part(b, 1..n, i)
        BY <1>11 DEF Part
    <2> QED
        BY <1>7, <1>8, <2>1, <2>2, TotalsAdd
<1>14. p.shippingFee \in Nat
    BY <1>2, <1>3, <1>11
<1>15. Less(Subtotal(x), off.campaign + off.product)
         = Subtotal(x) - (off.campaign + off.product)
    <2>1. PICK d : d = off.campaign + off.product
        OBVIOUS
    <2>2. d \in Nat /\ d <= Subtotal(x)
        BY <1>2, <2>1
    <2> QED
        BY <1>4, <2>1, <2>2, LesserFacts
<1>16. total = Subtotal(x) - (off.campaign + off.product) + (x.fee - off.shipping)
    BY <1>2, <1>3, <1>4, <1>9, <1>15
<1> QED
    BY <1>1, <1>11, <1>12, <1>13, <1>14, <1>16

\* The tax on an amount is an amount.
LEMMA AddedTaxIsNat ==
    ASSUME NEW policy, NEW m \in Nat PROVE AddedTax(policy, m) \in Nat
<1>1. TaxRate \in Nat /\ 100 \in Nat \ {0}
    BY PricingAssumption
<1>2. RoundedShare(m, TaxRate, 100) \in Nat
    BY <1>1, RoundedShareIsNat
<1> QED
    BY <1>2 DEF AddedTax

\* What is left of the lines, and the tax on it.
BasesOf(x, p, n) == [i \in 1..n |-> LineBase(x.lines, p.shares, i)]
AddedOf(x, p, n) == [i \in 1..n |-> AddedTax(x.policy, LineBase(x.lines, p.shares, i))]

\* What is left of a line is an amount, and with its discount the line unless that exceeds it.
LEMMA BaseFacts ==
    ASSUME NEW n \in Nat, NEW x, IsCheckout(x, n), NEW p, p.shares \in [1..n -> Nat]
    PROVE  /\ \A i \in 1..n : LineBase(x.lines, p.shares, i) \in Nat
           /\ BasesOf(x, p, n) \in [1..n -> Nat] /\ AddedOf(x, p, n) \in [1..n -> Nat]
           /\ \A i \in 1..n : p.shares[i] <= x.lines[i]
                => LineBase(x.lines, p.shares, i) + p.shares[i] = x.lines[i]
<1>1. x.lines \in [1..n -> Nat]
    BY CheckoutFields
<1>2. ASSUME NEW i \in 1..n
      PROVE  /\ LineBase(x.lines, p.shares, i) \in Nat
             /\ p.shares[i] <= x.lines[i]
                  => LineBase(x.lines, p.shares, i) + p.shares[i] = x.lines[i]
    <2>1. PICK l : l = x.lines[i]
        OBVIOUS
    <2>2. PICK s : s = p.shares[i]
        OBVIOUS
    <2>3. l \in Nat /\ s \in Nat
        BY <1>1, <2>1, <2>2
    <2>4. LineBase(x.lines, p.shares, i) = l - Lesser(s, l)
        BY <2>1, <2>2 DEF LineBase
    <2>5. l - Lesser(s, l) \in Nat /\ (s <= l => l - Lesser(s, l) + s = l)
        BY <2>3 DEF Lesser
    <2> QED
        BY <2>1, <2>2, <2>4, <2>5
<1>3. \A i \in 1..n : AddedTax(x.policy, LineBase(x.lines, p.shares, i)) \in Nat
    BY <1>2, AddedTaxIsNat
<1> QED
    BY <1>2, <1>3 DEF BasesOf, AddedOf

\* The order's total is what is left of its lines, the delivery, the wrap and their tax.
LEMMA TaxedTotalFacts ==
    ASSUME NEW n \in Nat, NEW x, IsCheckout(x, n), NEW p, p.shares \in [1..n -> Nat],
           p.shippingFee \in Nat
    PROVE  /\ LinesTotal(BasesOf(x, p, n), 1..n) \in Nat
           /\ LinesTotal(AddedOf(x, p, n), 1..n) \in Nat
           /\ TaxedTotal(x, p)
                = LinesTotal(BasesOf(x, p, n), 1..n) + LinesTotal(AddedOf(x, p, n), 1..n)
                    + (p.shippingFee + AddedTax(x.policy, p.shippingFee))
                    + (x.gift + AddedTax(x.policy, x.gift))
<1>1. PICK a : a = BasesOf(x, p, n)
    OBVIOUS
<1>2. PICK b : b = AddedOf(x, p, n)
    OBVIOUS
<1>3. a \in [1..n -> Nat] /\ b \in [1..n -> Nat] /\ DOMAIN x.lines = 1..n
    BY <1>1, <1>2, BaseFacts, CheckoutFields
<1>4. PICK gross : gross = [i \in 1..n |-> a[i] + b[i]]
    OBVIOUS
<1>5. gross \in [1..n -> Nat]
    BY <1>3, <1>4
<1>6. /\ Amounts(n, a, 1..n) /\ Amounts(n, b, 1..n) /\ Len(gross) = n
      /\ DOMAIN gross = 1..n
    BY <1>3, <1>5, ListFacts DEF Amounts, Part
<1>7. \A i \in 1..n : Part(gross, 1..n, i) = Part(a, 1..n, i) + Part(b, 1..n, i)
    BY <1>4 DEF Part
<1>8. LinesTotal(gross, 1..n) = LinesTotal(a, 1..n) + LinesTotal(b, 1..n)
    BY <1>6, <1>7, TotalsAdd
<1>9. gross = [i \in DOMAIN x.lines |->
                 LineBase(x.lines, p.shares, i)
                   + AddedTax(x.policy, LineBase(x.lines, p.shares, i))]
    BY <1>1, <1>2, <1>3, <1>4 DEF BasesOf, AddedOf
<1>10. TaxedTotal(x, p) = LinesTotal(gross, 1..n)
                            + (p.shippingFee + AddedTax(x.policy, p.shippingFee))
                            + (x.gift + AddedTax(x.policy, x.gift))
    BY <1>6, <1>9 DEF TaxedTotal
<1>11. LinesTotal(a, 1..n) \in Nat /\ LinesTotal(b, 1..n) \in Nat
    BY <1>6, TotalIsNat
<1> QED
    BY <1>1, <1>2, <1>8, <1>10, <1>11

\* Unless a line is discounted by more than it costs, the order is charged what it was quoted.
LEMMA ChargedAsQuoted ==
    ASSUME NEW n \in Nat, NEW x, IsCheckout(x, n),
           NEW p, p = EvaluatePromotions(x), p.st = "priced",
           \A i \in 1..n : p.shares[i] <= x.lines[i]
    PROVE  TaxedTotal(x, p)
             = p.total + x.gift
                 + (LinesTotal(AddedOf(x, p, n), 1..n)
                      + AddedTax(x.policy, p.shippingFee) + AddedTax(x.policy, x.gift))
<1>1. /\ p.shares \in [1..n -> Nat] /\ p.shippingFee \in Nat
      /\ LinesTotal(p.shares, 1..n) = p.off.campaign + p.off.product
      /\ p.total = Subtotal(x) - (p.off.campaign + p.off.product) + p.shippingFee
    BY PricedFacts
<1>2. /\ x.lines \in [1..n -> Nat] /\ Len(x.lines) = n /\ DOMAIN x.lines = 1..n
      /\ x.gift \in Nat
    BY CheckoutFields
<1>3. PICK a : a = BasesOf(x, p, n)
    OBVIOUS
<1>4. a \in [1..n -> Nat] /\ \A i \in 1..n : a[i] + p.shares[i] = x.lines[i]
    BY <1>1, <1>3, BaseFacts DEF BasesOf
<1>5. Amounts(n, a, 1..n) /\ Amounts(n, p.shares, 1..n)
    BY <1>1, <1>4, ListFacts DEF Amounts, Part
<1>6. \A i \in 1..n : Part(x.lines, 1..n, i) = Part(a, 1..n, i) + Part(p.shares, 1..n, i)
    BY <1>4 DEF Part
<1>7. Subtotal(x) = LinesTotal(a, 1..n) + LinesTotal(p.shares, 1..n)
    BY <1>2, <1>5, <1>6, TotalsAdd DEF Subtotal
<1>8. /\ LinesTotal(a, 1..n) \in Nat /\ LinesTotal(p.shares, 1..n) \in Nat
    BY <1>5, TotalIsNat
<1>9. PICK t : t = LinesTotal(AddedOf(x, p, n), 1..n)
    OBVIOUS
<1>10. /\ t \in Nat
       /\ TaxedTotal(x, p) = LinesTotal(a, 1..n) + t
                               + (p.shippingFee + AddedTax(x.policy, p.shippingFee))
                               + (x.gift + AddedTax(x.policy, x.gift))
    BY <1>1, <1>3, <1>9, TaxedTotalFacts
<1>11. AddedTax(x.policy, p.shippingFee) \in Nat /\ AddedTax(x.policy, x.gift) \in Nat
    BY <1>1, <1>2, AddedTaxIsNat
<1>12. p.total = LinesTotal(a, 1..n) + p.shippingFee
    BY <1>1, <1>7, <1>8
<1>13. PICK c : c = LinesTotal(a, 1..n)
    OBVIOUS
<1>14. PICK u : u = AddedTax(x.policy, p.shippingFee)
    OBVIOUS
<1>15. PICK v : v = AddedTax(x.policy, x.gift)
    OBVIOUS
<1>16. TaxedTotal(x, p) = c + t + (p.shippingFee + u) + (x.gift + v)
    BY <1>10, <1>13, <1>14, <1>15
<1>17. p.total = c + p.shippingFee
    BY <1>12, <1>13
<1>18. c \in Nat /\ t \in Nat /\ u \in Nat /\ v \in Nat
    BY <1>8, <1>10, <1>11, <1>13, <1>14, <1>15
<1>19. TaxedTotal(x, p) = p.total + x.gift + (t + u + v)
    BY <1>1, <1>2, <1>16, <1>17, <1>18
<1> QED
    BY <1>9, <1>14, <1>15, <1>19

\* The basket adds up to the total, unless nothing is left to list.
LEMMA BasketAddsUp ==
    ASSUME NEW n \in Nat, NEW x, IsCheckout(x, n), NEW p, p.shares \in [1..n -> Nat],
           p.shippingFee \in Nat,
           NEW t, t = TaxedTotal(x, p), NEW basket, basket = BasketItems(x, p, t)
    PROVE  /\ t \in Nat /\ basket \in [1..(n + 1) -> Nat] /\ DOMAIN basket = 1..(n + 1)
           /\ \/ \A i \in 1..(n + 1) : basket[i] = 0
              \/ LinesTotal(basket, 1..(n + 1)) = t
<1>1. PICK m : m = n + 1
    OBVIOUS
<1>2. m \in Nat
    BY <1>1
<1>3. PICK a : a = BasesOf(x, p, n)
    OBVIOUS
<1>4. PICK left : left = [i \in 1..m |-> IF i > n THEN p.shippingFee
                                         ELSE LineBase(x.lines, p.shares, i)]
    OBVIOUS
<1>5. a \in [1..n -> Nat] /\ \A i \in 1..n : LineBase(x.lines, p.shares, i) = a[i]
    BY <1>3, BaseFacts DEF BasesOf
<1>6. /\ left \in [1..m -> Nat] /\ left[m] = p.shippingFee
      /\ \A i \in 1..n : i \in 1..m /\ left[i] = a[i]
    BY <1>1, <1>4, <1>5
<1>7. DOMAIN left = 1..m
    BY <1>4
<1>8. Amounts(n, a, 1..n)
    BY <1>5, ListFacts DEF Amounts, Part
<1>9. Amounts(m, left, 1..m)
    BY <1>2, <1>6, ListFacts DEF Amounts, Part
<1>10. PICK sum : sum = LinesTotal(left, 1..m)
    OBVIOUS
<1>11. sum = LinesTotal(a, 1..n) + p.shippingFee
    <2>1. \A i \in 1..n : Part(left, 1..m, i) = Part(a, 1..n, i)
        BY <1>6 DEF Part
    <2>2. Part(left, 1..m, m) = p.shippingFee
        BY <1>1, <1>6 DEF Part
    <2>3. Amounts(n + 1, left, 1..m)
        BY <1>1, <1>9
    <2>4. LinesTotal(left, 1..m) = LinesTotal(a, 1..n) + Part(left, 1..m, n + 1)
        BY <1>8, <2>1, <2>3, TotalOfLonger
    <2> QED
        BY <1>1, <1>10, <2>2, <2>4
<1>12. sum \in Nat /\ t \in Nat /\ sum <= t
    <2>1. PICK b : b = LinesTotal(AddedOf(x, p, n), 1..n)
        OBVIOUS
    <2>2. PICK c : c = LinesTotal(a, 1..n)
        OBVIOUS
    <2>3. /\ b \in Nat /\ c \in Nat
          /\ t = c + b + (p.shippingFee + AddedTax(x.policy, p.shippingFee))
                   + (x.gift + AddedTax(x.policy, x.gift))
        BY <1>3, <2>1, <2>2, TaxedTotalFacts
    <2>4. x.gift \in Nat
        BY CheckoutFields
    <2>5. AddedTax(x.policy, p.shippingFee) \in Nat /\ AddedTax(x.policy, x.gift) \in Nat
        BY <2>4, AddedTaxIsNat
    <2>6. PICK u : u = AddedTax(x.policy, p.shippingFee)
        OBVIOUS
    <2>7. PICK v : v = AddedTax(x.policy, x.gift)
        OBVIOUS
    <2>8. u \in Nat /\ v \in Nat /\ t = c + b + (p.shippingFee + u) + (x.gift + v)
        BY <2>3, <2>5, <2>6, <2>7
    <2>9. sum = c + p.shippingFee
        BY <1>11, <2>2
    <2>10. PICK f : f = p.shippingFee
        OBVIOUS
    <2>11. PICK g : g = x.gift
        OBVIOUS
    <2>12. c \in Nat /\ b \in Nat /\ f \in Nat /\ g \in Nat /\ u \in Nat /\ v \in Nat
        BY <2>3, <2>4, <2>8, <2>10, <2>11
    <2>13. t = c + b + (f + u) + (g + v) /\ sum = c + f
        BY <2>8, <2>9, <2>10, <2>11
    <2> QED
        BY <2>12, <2>13
<1>13. PICK items : items = SharingLines(left, 1..m)
    OBVIOUS
<1>14. items \subseteq 1..m /\ \A i \in 1..m : i \notin items => left[i] = 0
    BY <1>6, <1>13 DEF SharingLines
<1>15. basket = [i \in 1..m |->
                   IF IsLastOf(items, i) THEN Less(left[i] + t, sum) ELSE left[i]]
    <2>1. Len(x.lines) = n
        BY CheckoutFields
    <2>2. \A f : f = left => BasketItems(x, p, t) =
              [i \in DOMAIN f |-> IF IsLastOf(SharingLines(f, DOMAIN f), i)
                                   THEN Less(f[i] + t, LinesTotal(f, DOMAIN f)) ELSE f[i]]
        BY <1>1, <1>4, <2>1 DEF BasketItems
    <2> QED
        BY <1>7, <1>10, <1>13, <2>2
<1>16. CASE items = {}
    <2>1. \A i \in 1..m : ~IsLastOf(items, i)
        BY <1>16 DEF IsLastOf
    <2>2. \A i \in 1..m : basket[i] = 0
        BY <1>14, <1>15, <1>16, <2>1
    <2>3. basket = [i \in 1..m |-> basket[i]]
        BY <1>15
    <2>4. basket \in [1..m -> Nat] /\ DOMAIN basket = 1..m
        BY <2>2, <2>3
    <2> QED
        BY <1>1, <1>12, <2>2, <2>4, Zenon
<1>17. CASE items # {}
    <2>1. PICK k \in items : IsLastOf(items, k)
        BY <1>2, <1>14, <1>17, LastExists
    <2>2. k \in 1..m
        BY <1>14
    <2>3. \A i \in 1..m : i # k => ~IsLastOf(items, i)
        BY <2>1, <2>2 DEF IsLastOf
    <2>4. PICK l : l = left[k]
        OBVIOUS
    <2>5. l \in Nat
        BY <1>6, <2>2, <2>4
    <2>6. Less(l + t, sum) = l + (t - sum)
        BY <1>12, <2>5 DEF Less, Lesser
    <2>7. basket[k] = l + (t - sum) /\ \A i \in 1..m : i # k => basket[i] = left[i]
        BY <1>15, <2>1, <2>2, <2>3, <2>4, <2>6
    <2>8. basket \in [1..m -> Nat]
        <3>1. \A i \in 1..m : basket[i] \in Nat
            BY <1>6, <1>12, <2>5, <2>7
        <3> QED
            BY <1>15, <3>1
    <2>9. PICK delta : delta = [i \in 1..m |-> IF i = k THEN t - sum ELSE 0]
        OBVIOUS
    <2>10. delta \in [1..m -> Nat]
        BY <1>12, <2>9
    <2>11. Amounts(m, delta, 1..m) /\ Len(basket) = m
        BY <1>2, <2>8, <2>10, ListFacts DEF Amounts, Part
    <2>12. LinesTotal(delta, 1..m) = t - sum
        <3>1. \A i \in 1..m : i # k => Part(delta, 1..m, i) = 0
            BY <2>9 DEF Part
        <3>2. Part(delta, 1..m, k) = t - sum
            BY <2>2, <2>9 DEF Part
        <3> QED
            BY <1>2, <2>2, <2>11, <3>1, <3>2, TotalOfOne
    <2>13. ASSUME NEW i \in 1..m
           PROVE  Part(basket, 1..m, i) = Part(left, 1..m, i) + Part(delta, 1..m, i)
        <3>1. CASE i = k
            BY <2>4, <2>7, <2>9, <3>1 DEF Part
        <3>2. CASE i # k
            BY <1>6, <2>7, <2>9, <3>2 DEF Part
        <3> QED
            BY <3>1, <3>2
    <2>14. LinesTotal(basket, 1..m) = sum + (t - sum)
        BY <1>2, <1>9, <1>10, <2>11, <2>12, <2>13, TotalsAdd
    <2>15. LinesTotal(basket, 1..m) = t
        BY <1>12, <2>14
    <2> QED
        BY <1>1, <1>12, <1>15, <2>8, <2>15
<1> QED
    BY <1>16, <1>17

\* Without its coupon a checkout is never refused, and with one that is not exclusive it is
\* charged no more.
LEMMA CouponNeverCosts ==
    ASSUME NEW n \in Nat, NEW x, IsCheckout(x, n),
           NEW p, p = EvaluatePromotions(x), p.st = "priced",
           x.coupon # NoCoupon, x.coupon.stacking # "exclusive"
    PROVE  p.total <= EvaluatePromotions([x EXCEPT !.coupon = NoCoupon]).total
<1>1. PICK y : y = [x EXCEPT !.coupon = NoCoupon]
    OBVIOUS
<1>2. /\ IsCheckout(y, n)
      /\ y.coupon = NoCoupon /\ y.lines = x.lines /\ y.campaign = x.campaign /\ y.fee = x.fee
    BY <1>1 DEF IsCheckout
<1>3. PICK q : q = EvaluatePromotions(y)
    OBVIOUS
<1>4. q.st = "priced"
    BY <1>2, <1>3, EvaluateUnfolds
<1>5. PICK s : s = Subtotal(x)
    OBVIOUS
<1>6. Subtotal(y) = s /\ s \in Nat
    BY <1>2, <1>5, TotalsOfCheckout DEF Subtotal
<1>7. PICK c : c = CampaignDiscount(x.campaign, s)
    OBVIOUS
<1>8. q.off.campaign = c /\ q.off.product = 0 /\ q.off.shipping = 0
    <2>1. q.off = OffOf(y)
        BY <1>2, <1>3, <1>4, PricedFacts
    <2>2. OffOf(y) = [campaign |-> c, product |-> 0, shipping |-> 0]
        BY <1>2, <1>6, <1>7 DEF OffOf
    <2> QED
        BY <2>1, <2>2
<1>9. q.total = s - (q.off.campaign + q.off.product) + q.shippingFee
      /\ q.shippingFee = y.fee - q.off.shipping
    BY <1>2, <1>3, <1>4, <1>6, PricedFacts
<1>10. /\ p.off = OffOf(x) /\ p.shippingFee = x.fee - p.off.shipping
       /\ p.total = s - (p.off.campaign + p.off.product) + p.shippingFee
    BY <1>5, PricedFacts
<1>11. /\ p.off.campaign \in Nat /\ p.off.product \in Nat /\ p.off.shipping \in Nat
       /\ p.off.campaign + p.off.product + p.off.shipping >= c
    BY <1>5, <1>7, <1>10, OffWithin
<1>12. x.fee \in Nat /\ x.campaign \in Campaigns
    BY CheckoutFields
<1>13. c \in Nat
    BY <1>6, <1>7, <1>12, CampaignWithin
<1>14. q.total = s - c + x.fee
    BY <1>2, <1>6, <1>8, <1>9, <1>12, <1>13
<1>15. p.total <= s - c + x.fee
    BY <1>6, <1>10, <1>11, <1>12, <1>13
<1> QED
    BY <1>1, <1>3, <1>14, <1>15

-----------------------------------------------------------------------------
(* The theorems *)

\* A checkout was refused, or it carries the prices and charges computed for it.
PricingInv ==
    \/ pricing.st = "refused" /\ charged = NothingCharged
    \/ \E n \in Nat :
         /\ IsCheckout(checkout, n)
         /\ pricing = EvaluatePromotions(checkout) /\ pricing.st = "priced"
         /\ charged = [total |-> TaxedTotal(checkout, pricing),
                       basket |-> BasketItems(checkout, pricing, TaxedTotal(checkout, pricing))]

\* What a checkout is about is a checkout of as many lines as its cart has.
LEMMA PriceCheckoutSound ==
    ASSUME NEW n \in Nat, NEW x, IsCheckout(x, n), PriceCheckout(x)
    PROVE  PricingInv'
<1>1. checkout' = x /\ pricing' = EvaluatePromotions(x)
    BY DEF PriceCheckout
<1>2. pricing'.st \in {"refused", "priced"}
    BY <1>1, EvaluateUnfolds DEF Refused
<1>3. CASE pricing'.st = "refused"
    BY <1>3 DEF PriceCheckout, PricingInv
<1>4. CASE pricing'.st = "priced"
    <2>1. charged' = [total |-> TaxedTotal(x, pricing'),
                      basket |-> BasketItems(x, pricing', TaxedTotal(x, pricing'))]
        BY <1>4 DEF PriceCheckout
    <2> QED
        BY <1>1, <1>4, <2>1 DEF PricingInv
<1> QED
    BY <1>2, <1>3, <1>4

\* The invariant is inductive.
LEMMA PricingInductive == PricingSpec => []PricingInv
<1>1. PricingInit => PricingInv
    BY DEF PricingInit, PricingInv, Refused
<1>2. PricingInv /\ [PricingNext]_priceVars => PricingInv'
    <2>1. CASE UNCHANGED priceVars
        BY <2>1 DEF PricingInv, priceVars
    <2>2. CASE PricingNext
        <3>1. PICK n \in 1..MaxLines : \E lines \in [1..n -> LinePrice],
                     eligible \in SUBSET (1..n), campaign \in Campaigns,
                     coupon \in Coupons \cup {NoCoupon}, fee \in Fee, gift \in GiftFee,
                     policy \in {"inclusive", "exclusive"} :
                PriceCheckout([lines |-> lines, eligible |-> eligible, campaign |-> campaign,
                               coupon |-> coupon, fee |-> fee, gift |-> gift,
                               policy |-> policy])
            BY <2>2 DEF PricingNext
        <3>2. PICK lines \in [1..n -> LinePrice],
                     eligible \in SUBSET (1..n), campaign \in Campaigns,
                     coupon \in Coupons \cup {NoCoupon}, fee \in Fee, gift \in GiftFee,
                     policy \in {"inclusive", "exclusive"} :
                PriceCheckout([lines |-> lines, eligible |-> eligible, campaign |-> campaign,
                               coupon |-> coupon, fee |-> fee, gift |-> gift,
                               policy |-> policy])
            BY <3>1
        <3>3. PICK x : x = [lines |-> lines, eligible |-> eligible, campaign |-> campaign,
                            coupon |-> coupon, fee |-> fee, gift |-> gift, policy |-> policy]
            OBVIOUS
        <3>4. /\ LinePrice \subseteq Nat /\ Fee \subseteq Nat /\ GiftFee \subseteq Nat
              /\ MaxLines \in Nat
            BY PricingAssumption
        <3>5. n \in Nat /\ lines \in [1..n -> Nat] /\ fee \in Nat /\ gift \in Nat
            <4>1. n \in Nat
                BY <3>4
            <4>2. lines \in [1..n -> Nat]
                BY <3>4
            <4>3. fee \in Nat /\ gift \in Nat
                BY <3>4
            <4> QED
                BY <4>1, <4>2, <4>3
        <3>6. IsCheckout(x, n)
            BY <3>3, <3>5 DEF IsCheckout
        <3> QED
            BY <3>2, <3>3, <3>5, <3>6, PriceCheckoutSound
    <2> QED
        BY <2>1, <2>2
<1> QED
    BY <1>1, <1>2, PTL DEF PricingSpec

\* It implies both invariants of the runs.
LEMMA PricingInvAgrees == PricingInv => PricingTypeOK /\ PricesAgree
<1>1. CASE pricing.st = "refused" /\ charged = NothingCharged
    <2>1. charged.total = 0 /\ charged.basket = <<>>
        BY <1>1 DEF NothingCharged
    <2>2. charged.basket \in Seq(Nat)
        BY <2>1
    <2> QED
        BY <1>1, <2>1, <2>2 DEF PricingTypeOK, PricesAgree
<1>2. ASSUME NEW n \in Nat, IsCheckout(checkout, n),
             pricing = EvaluatePromotions(checkout), pricing.st = "priced",
             charged = [total |-> TaxedTotal(checkout, pricing),
                        basket |-> BasketItems(checkout, pricing, TaxedTotal(checkout, pricing))]
      PROVE  PricingTypeOK /\ PricesAgree
    <2>1. PICK x : x = checkout
        OBVIOUS
    <2>2. PICK p : p = pricing
        OBVIOUS
    <2>3. /\ IsCheckout(x, n) /\ p = EvaluatePromotions(x) /\ p.st = "priced"
        BY <1>2, <2>1, <2>2
    <2>4. /\ charged.total = TaxedTotal(x, p)
          /\ charged.basket = BasketItems(x, p, charged.total)
        BY <1>2, <2>1, <2>2
    <2>5. /\ p.shares \in [1..n -> Nat] /\ p.shippingFee \in Nat
          /\ LinesTotal(p.shares, 1..n) = p.off.campaign + p.off.product
        BY <2>3, PricedFacts
    <2>6. /\ DOMAIN x.lines = 1..n /\ x.lines \in [1..n -> Nat]
        BY <2>3, CheckoutFields
    <2>7. /\ charged.total \in Nat /\ charged.basket \in [1..(n + 1) -> Nat]
          /\ DOMAIN charged.basket = 1..(n + 1)
          /\ \/ \A i \in 1..(n + 1) : charged.basket[i] = 0
             \/ LinesTotal(charged.basket, 1..(n + 1)) = charged.total
        BY <2>3, <2>4, <2>5, BasketAddsUp
    <2>8. charged.basket \in Seq(Nat)
        BY <2>7, n + 1 \in Nat
    <2>9. PricingTypeOK
        BY <1>2, <2>7, <2>8 DEF PricingTypeOK
    <2>10. PICK added : added = AddedOf(x, p, n)
        OBVIOUS
    <2>11. added = [i \in DOMAIN x.lines |-> AddedTax(x.policy, LineBase(x.lines, p.shares, i))]
           /\ DOMAIN added = 1..n
        BY <2>6, <2>10 DEF AddedOf
    <2>12. OverDiscounted
             \/ charged.total = p.total + x.gift
                  + (LinesTotal(added, DOMAIN added)
                       + AddedTax(x.policy, p.shippingFee) + AddedTax(x.policy, x.gift))
        <3> SUFFICES ASSUME ~OverDiscounted
                     PROVE  charged.total = p.total + x.gift
                              + (LinesTotal(added, DOMAIN added)
                                  + AddedTax(x.policy, p.shippingFee)
                                  + AddedTax(x.policy, x.gift))
            OBVIOUS
        <3>1. \A i \in 1..n : p.shares[i] \in Nat /\ x.lines[i] \in Nat
            BY <2>5, <2>6
        <3>2. \A i \in 1..n : ~(p.shares[i] > x.lines[i])
            BY <2>1, <2>2, <2>6 DEF OverDiscounted
        <3>3. \A i \in 1..n : p.shares[i] <= x.lines[i]
            BY <3>1, <3>2
        <3> QED
            <4>1. TaxedTotal(x, p)
                    = p.total + x.gift
                        + (LinesTotal(AddedOf(x, p, n), 1..n)
                             + AddedTax(x.policy, p.shippingFee) + AddedTax(x.policy, x.gift))
                BY <2>3, <3>3, ChargedAsQuoted
            <4>2. LinesTotal(added, DOMAIN added) = LinesTotal(AddedOf(x, p, n), 1..n)
                BY <2>10, <2>11
            <4> QED
                BY <2>4, <4>1, <4>2, Zenon
    <2>13. x.coupon = NoCoupon \/ x.coupon.stacking = "exclusive"
             \/ p.total <= EvaluatePromotions([x EXCEPT !.coupon = NoCoupon]).total
        BY <2>3, CouponNeverCosts
    <2>14. PricesAgree
        BY <2>1, <2>2, <2>5, <2>6, <2>7, <2>11, <2>12, <2>13 DEF PricesAgree
    <2> QED
        BY <2>9, <2>14
<1> QED
    BY <1>1, <1>2 DEF PricingInv

\* Every checkout is refused or priced, and charges amounts: no discount makes one negative.
THEOREM PricingTypeCorrect == PricingSpec => []PricingTypeOK
BY PricingInductive, PricingInvAgrees, PTL

\* The discounts of the lines add up to the discount of the order; an order none of whose
\* lines is discounted by more than it costs is charged what evaluatePromotions quoted, the
\* wrap and the added tax; the basket the provider gets adds up to that; and a coupon that is
\* not exclusive never makes it more: for carts of any length, and any prices and rates.
THEOREM PricesAgreeHolds == PricingSpec => []PricesAgree
BY PricingInductive, PricingInvAgrees, PTL

-----------------------------------------------------------------------------
(* Lists of locks *)

Tables == {"capacity", "request", "order", "reservation", "variant", "product", "redemption",
           "coupon"}
LockRows == [table : Tables, id : VariantId \cup OrderId \cup ProductId \cup {0},
             mode : {"update", "write", "share"}]

\* The place of a lock in the order settlements follow.
Place(l) ==
    IF l.table = "request" THEN 0
    ELSE IF l.table = "order" THEN 1
    ELSE IF l.table = "reservation" THEN 2
    ELSE IF l.table = "variant" THEN 2 + l.id
    ELSE IF l.table = "product" THEN 3 + NumVariants
    ELSE IF l.table = "redemption" THEN 4 + NumVariants
    ELSE 5 + NumVariants

Precedes(l, m) == Place(l) < Place(m) \/ (l.table = "product" /\ m.table = "product")

\* A list of locks in that order, between two places.
Ascending(s, low, high) ==
    /\ s \in Seq(LockRows)
    /\ \A i \in 1..Len(s) : Place(s[i]) \in low..high
    /\ \A i, j \in 1..Len(s) : i < j => Precedes(s[i], s[j])

\* What comes later may be put behind.
LEMMA JoinAscending ==
    ASSUME NEW s, NEW t, NEW a \in Nat, NEW b \in Nat, NEW c \in Nat, NEW d \in Nat,
           Ascending(s, a, b), Ascending(t, c, d), a <= b, b < c, c <= d
    PROVE  Ascending(s \o t, a, d)
<1>1. s \in Seq(LockRows) /\ t \in Seq(LockRows) /\ Len(s) \in Nat /\ Len(t) \in Nat
    BY DEF Ascending
<1>2. s \o t \in Seq(LockRows) /\ Len(s \o t) = Len(s) + Len(t)
    BY <1>1
<1>3. ASSUME NEW i \in 1..Len(s \o t)
      PROVE  \/ i \in 1..Len(s) /\ (s \o t)[i] = s[i]
             \/ i > Len(s) /\ i - Len(s) \in 1..Len(t) /\ (s \o t)[i] = t[i - Len(s)]
    BY <1>1, <1>2
<1>4. ASSUME NEW i \in 1..Len(s \o t) PROVE Place((s \o t)[i]) \in a..d
    <2>1. CASE i \in 1..Len(s) /\ (s \o t)[i] = s[i]
        <3>1. Place(s[i]) \in a..b
            BY <2>1 DEF Ascending
        <3> QED
            BY <2>1, <3>1
    <2>2. CASE i > Len(s) /\ i - Len(s) \in 1..Len(t) /\ (s \o t)[i] = t[i - Len(s)]
        <3>1. Place(t[i - Len(s)]) \in c..d
            BY <2>2 DEF Ascending
        <3> QED
            BY <2>2, <3>1
    <2> QED
        BY <1>3, <2>1, <2>2
<1>5. ASSUME NEW i \in 1..Len(s \o t), NEW j \in 1..Len(s \o t), i < j
      PROVE  Precedes((s \o t)[i], (s \o t)[j])
    <2>1. CASE i \in 1..Len(s) /\ (s \o t)[i] = s[i] /\ j \in 1..Len(s) /\ (s \o t)[j] = s[j]
        <3>1. Precedes(s[i], s[j])
            BY <1>5, <2>1 DEF Ascending
        <3> QED
            BY <2>1, <3>1
    <2>2. CASE /\ i \in 1..Len(s) /\ (s \o t)[i] = s[i]
               /\ j > Len(s) /\ j - Len(s) \in 1..Len(t) /\ (s \o t)[j] = t[j - Len(s)]
        <3>1. Place(s[i]) \in a..b /\ Place(t[j - Len(s)]) \in c..d
            BY <2>2 DEF Ascending
        <3>2. Place(s[i]) < Place(t[j - Len(s)])
            BY <3>1
        <3> QED
            BY <2>2, <3>2 DEF Precedes
    <2>3. CASE /\ i > Len(s) /\ i - Len(s) \in 1..Len(t) /\ (s \o t)[i] = t[i - Len(s)]
               /\ j > Len(s) /\ j - Len(s) \in 1..Len(t) /\ (s \o t)[j] = t[j - Len(s)]
        <3>1. i - Len(s) < j - Len(s)
            BY <1>1, <1>5
        <3>2. Precedes(t[i - Len(s)], t[j - Len(s)])
            BY <2>3, <3>1 DEF Ascending
        <3> QED
            BY <2>3, <3>2
    <2> QED
        BY <1>3, <1>5, <2>1, <2>2, <2>3
<1> QED
    BY <1>2, <1>4, <1>5 DEF Ascending

LEMMA VariantsFinite ==
    ASSUME NEW vs \in SUBSET VariantId
    PROVE  IsFiniteSet(vs) /\ Cardinality(vs) \in Nat
           /\ IsFiniteSet(ProductsOf(vs)) /\ Cardinality(ProductsOf(vs)) \in Nat
<1>1. IsFiniteSet(1..NumVariants)
    BY LockAssumption, FS_Interval
<1>2. IsFiniteSet(vs)
    BY <1>1, FS_Subset DEF VariantId
<1>3. PICK f : f = [v \in vs |-> ProductOf[v]]
    OBVIOUS
<1>4. f \in Surjection(vs, ProductsOf(vs))
    BY <1>3 DEF Surjection, ProductsOf
<1>5. IsFiniteSet(ProductsOf(vs))
    BY <1>2, <1>4, FS_Surjection
<1> QED
    BY <1>2, <1>5, FS_CardinalityType

LEMMA VariantLocksAscend ==
    ASSUME NEW vs \in SUBSET VariantId, NEW s \in AscendingListsOf(vs)
    PROVE  Ascending(VariantLocks(s), 3, 2 + NumVariants)
<1>1. PICK n \in Nat : s \in [1..n -> vs] /\ \A i, j \in 1..n : i < j => s[i] < s[j]
    BY VariantsFinite DEF AscendingListsOf
<1>2. \A i \in 1..n : s[i] \in 1..NumVariants
    BY <1>1 DEF VariantId
<1>3. VariantLocks(s) = [i \in 1..n |-> [table |-> "variant", id |-> s[i], mode |-> "update"]]
    BY <1>1 DEF VariantLocks, ForUpdate
<1>4. \A i \in 1..n : [table |-> "variant", id |-> s[i], mode |-> "update"] \in LockRows
    BY <1>2 DEF LockRows, Tables, VariantId
<1>5. VariantLocks(s) \in Seq(LockRows) /\ Len(VariantLocks(s)) = n
    BY <1>3, <1>4
<1>6. \A i \in 1..n : Place(VariantLocks(s)[i]) = 2 + s[i]
    BY <1>3 DEF Place
<1>7. \A i \in 1..n : Place(VariantLocks(s)[i]) \in 3..(2 + NumVariants)
    BY <1>2, <1>6, LockAssumption
<1>8. \A i, j \in 1..n : i < j => Precedes(VariantLocks(s)[i], VariantLocks(s)[j])
    BY <1>1, <1>2, <1>6 DEF Precedes
<1> QED
    BY <1>5, <1>7, <1>8 DEF Ascending

LEMMA ProductLocksAscend ==
    ASSUME NEW vs \in SUBSET VariantId, NEW q \in ListsOf(ProductsOf(vs))
    PROVE  Ascending(ProductLocks(q), 3 + NumVariants, 3 + NumVariants)
<1>1. PICK n \in Nat : q \in [1..n -> ProductsOf(vs)]
    BY VariantsFinite DEF ListsOf
<1>2. \A i \in 1..n : q[i] \in ProductId
    BY <1>1, LockAssumption DEF ProductsOf
<1>3. ProductLocks(q)
        = [i \in 1..n |-> [table |-> "product", id |-> q[i], mode |-> "write"]]
    BY <1>1 DEF ProductLocks, Written
<1>4. \A i \in 1..n : [table |-> "product", id |-> q[i], mode |-> "write"] \in LockRows
    BY <1>2 DEF LockRows, Tables
<1>5. ProductLocks(q) \in Seq(LockRows) /\ Len(ProductLocks(q)) = n
    BY <1>3, <1>4
<1>6. \A i \in 1..n : /\ ProductLocks(q)[i].table = "product"
                      /\ Place(ProductLocks(q)[i]) = 3 + NumVariants
    BY <1>3 DEF Place
<1> QED
    BY <1>5, <1>6, LockAssumption DEF Ascending, Precedes

\* Stock work ascends, whatever variants it is about.
LEMMA StockLocksAscend ==
    ASSUME NEW vs \in SUBSET VariantId, NEW stock \in StockLocks(vs)
    PROVE  Ascending(stock, 3, 3 + NumVariants)
<1>1. PICK s \in AscendingListsOf(vs), q \in ListsOf(ProductsOf(vs)) :
          stock = VariantLocks(s) \o ProductLocks(q)
    BY DEF StockLocks
<1>2. CASE NumVariants = 0
    <2>1. vs = {} /\ ProductsOf(vs) = {}
        BY <1>2 DEF VariantId, ProductsOf
    <2>2. Ascending(VariantLocks(s), 3, 2 + NumVariants)
        BY VariantLocksAscend
    <2>3. Len(VariantLocks(s)) = 0
        <3>1. VariantLocks(s) \in Seq(LockRows) /\ Len(VariantLocks(s)) \in Nat
            BY <2>2 DEF Ascending
        <3>2. \A i \in 1..Len(VariantLocks(s)) : Place(VariantLocks(s)[i]) \in 3..2
            BY <1>2, <2>2 DEF Ascending
        <3> QED
            BY <3>1, <3>2
    <2>4. Ascending(ProductLocks(q), 3 + NumVariants, 3 + NumVariants)
        BY ProductLocksAscend
    <2>5. VariantLocks(s) \o ProductLocks(q) = ProductLocks(q)
        BY <2>2, <2>3, <2>4 DEF Ascending
    <2> QED
        BY <1>1, <1>2, <2>4, <2>5
<1>3. CASE NumVariants # 0
    <2>1. /\ Ascending(VariantLocks(s), 3, 2 + NumVariants)
          /\ Ascending(ProductLocks(q), 3 + NumVariants, 3 + NumVariants)
        BY VariantLocksAscend, ProductLocksAscend
    <2>2. /\ 2 + NumVariants \in Nat /\ 3 + NumVariants \in Nat /\ 3 <= 2 + NumVariants
          /\ 2 + NumVariants < 3 + NumVariants
        BY <1>3, LockAssumption
    <2> QED
        BY <1>1, <2>1, <2>2, JoinAscending
<1> QED
    BY <1>2, <1>3

\* So do the transitions of an order, with an approval before them or a coupon after them.
LEMMA TransitionsAscend ==
    ASSUME NEW o \in OrderId, NEW locks \in TransitionLocks(o)
    PROVE  Ascending(locks, 1, 4 + NumVariants)
<1>1. PICK stock \in StockLocks(Stocked[o]) :
          locks = <<ForUpdate("order", o), ForUpdate("reservation", o)>> \o stock
                    \o <<ForUpdate("redemption", o)>>
    BY DEF TransitionLocks
<1> DEFINE first == <<ForUpdate("order", o), ForUpdate("reservation", o)>>
           last == <<ForUpdate("redemption", o)>>
<1>2. Stocked[o] \in SUBSET VariantId
    BY LockAssumption
<1>3. Ascending(stock, 3, 3 + NumVariants)
    BY <1>2, StockLocksAscend
<1>4. Ascending(first, 1, 2)
    <2>1. /\ ForUpdate("order", o) \in LockRows /\ ForUpdate("reservation", o) \in LockRows
          /\ Place(ForUpdate("order", o)) = 1 /\ Place(ForUpdate("reservation", o)) = 2
        BY DEF ForUpdate, LockRows, Tables, Place
    <2>2. /\ first \in Seq(LockRows) /\ Len(first) = 2
          /\ first[1] = ForUpdate("order", o) /\ first[2] = ForUpdate("reservation", o)
        BY <2>1
    <2> QED
        BY <2>1, <2>2 DEF Ascending, Precedes
<1>5. Ascending(last, 4 + NumVariants, 4 + NumVariants)
    <2>1. /\ ForUpdate("redemption", o) \in LockRows
          /\ Place(ForUpdate("redemption", o)) = 4 + NumVariants
        BY DEF ForUpdate, LockRows, Tables, Place
    <2>2. last \in Seq(LockRows) /\ Len(last) = 1 /\ last[1] = ForUpdate("redemption", o)
        BY <2>1
    <2> QED
        BY <2>1, <2>2, LockAssumption DEF Ascending, Precedes
<1> HIDE DEF first, last
<1>6. /\ 3 + NumVariants \in Nat /\ 4 + NumVariants \in Nat
      /\ 3 <= 3 + NumVariants /\ 3 + NumVariants < 4 + NumVariants
    BY LockAssumption
<1>7. Ascending(first \o stock, 1, 3 + NumVariants)
    BY <1>3, <1>4, <1>6, JoinAscending
<1>8. Ascending((first \o stock) \o last, 1, 4 + NumVariants)
    BY <1>5, <1>6, <1>7, JoinAscending
<1> QED
    BY <1>1, <1>8 DEF first, last

LEMMA Widened ==
    ASSUME NEW s, NEW a \in Nat, NEW b \in Nat, NEW c \in Nat, NEW d \in Nat,
           Ascending(s, a, b), c <= a, b <= d
    PROVE  Ascending(s, c, d)
BY DEF Ascending

LEMMA ApprovedAscends ==
    ASSUME NEW o \in OrderId, NEW approval \in {<<>>, <<ForUpdate("request", o)>>},
           NEW locks \in TransitionLocks(o)
    PROVE  Ascending(approval \o locks, 0, 5 + NumVariants)
<1>1. Ascending(locks, 1, 4 + NumVariants)
    BY TransitionsAscend
<1>2. Ascending(approval, 0, 0)
    <2>1. CASE approval = <<>>
        BY <2>1 DEF Ascending
    <2>2. CASE approval = <<ForUpdate("request", o)>>
        <3>1. ForUpdate("request", o) \in LockRows /\ Place(ForUpdate("request", o)) = 0
            BY DEF ForUpdate, LockRows, Tables, Place
        <3>2. /\ approval \in Seq(LockRows) /\ Len(approval) = 1
              /\ approval[1] = ForUpdate("request", o)
            BY <2>2, <3>1
        <3> QED
            BY <3>1, <3>2 DEF Ascending, Precedes
    <2> QED
        BY <2>1, <2>2
<1>3. 4 + NumVariants \in Nat /\ 5 + NumVariants \in Nat /\ 1 <= 4 + NumVariants
    BY LockAssumption
<1>4. Ascending(approval \o locks, 0, 4 + NumVariants)
    BY <1>1, <1>2, <1>3, JoinAscending
<1> QED
    BY <1>3, <1>4, Widened, LockAssumption

LEMMA ReopenedAscends ==
    ASSUME NEW o \in OrderId, NEW locks \in TransitionLocks(o)
    PROVE  Ascending(locks \o <<ForUpdate("coupon", 0)>>, 0, 5 + NumVariants)
<1>1. Ascending(locks, 1, 4 + NumVariants)
    BY TransitionsAscend
<1> DEFINE last == <<ForUpdate("coupon", 0)>>
<1>2. Ascending(last, 5 + NumVariants, 5 + NumVariants)
    <2>1. ForUpdate("coupon", 0) \in LockRows /\ Place(ForUpdate("coupon", 0)) = 5 + NumVariants
        BY DEF ForUpdate, LockRows, Tables, Place
    <2>2. last \in Seq(LockRows) /\ Len(last) = 1 /\ last[1] = ForUpdate("coupon", 0)
        BY <2>1
    <2> QED
        BY <2>1, <2>2, LockAssumption DEF Ascending, Precedes
<1> HIDE DEF last
<1>3. /\ 4 + NumVariants \in Nat /\ 5 + NumVariants \in Nat /\ 1 <= 4 + NumVariants
      /\ 4 + NumVariants < 5 + NumVariants
    BY LockAssumption
<1>4. Ascending(locks \o last, 1, 5 + NumVariants)
    BY <1>1, <1>2, <1>3, JoinAscending
<1> QED
    BY <1>3, <1>4, Widened DEF last

-----------------------------------------------------------------------------
(* The other lists are lists of locks *)

LEMMA StockRows ==
    ASSUME NEW vs \in SUBSET VariantId, NEW stock \in StockLocks(vs)
    PROVE  stock \in Seq(LockRows)
BY StockLocksAscend DEF Ascending

LEMMA VariantRows ==
    ASSUME NEW vs \in SUBSET VariantId, NEW n \in Nat, NEW s \in [1..n -> vs]
    PROVE  VariantLocks(s) \in Seq(LockRows)
<1>1. VariantLocks(s) = [i \in 1..n |-> [table |-> "variant", id |-> s[i], mode |-> "update"]]
    BY DEF VariantLocks, ForUpdate
<1>2. \A i \in 1..n : [table |-> "variant", id |-> s[i], mode |-> "update"] \in LockRows
    BY DEF LockRows, Tables
<1> QED
    BY <1>1, <1>2

LEMMA ProductRows ==
    ASSUME NEW vs \in SUBSET VariantId, NEW q \in ListsOf(ProductsOf(vs))
    PROVE  ProductLocks(q) \in Seq(LockRows)
BY ProductLocksAscend DEF Ascending

\* A list of some variants: its length, and the variants on it.
LEMMA ItemFacts ==
    ASSUME NEW items \in ItemLists
    PROVE  /\ \E n \in Nat : items \in [1..n -> VariantId]
           /\ Range(items) \in SUBSET VariantId
<1>1. PICK vs \in SUBSET VariantId : items \in ListsOf(vs)
    BY DEF ItemLists
<1>2. PICK n \in Nat : items \in [1..n -> vs]
    BY <1>1, VariantsFinite DEF ListsOf
<1>3. items \in [1..n -> VariantId]
    BY <1>2
<1> QED
    BY <1>3 DEF Range

LEMMA ReserveRows ==
    ASSUME NEW items \in ItemLists, NEW locks \in ReserveLocks(items)
    PROVE  locks \in Seq(LockRows)
<1>1. PICK stock \in StockLocks(Range(items)) :
          locks = [i \in DOMAIN items |-> Referenced("variant", items[i])] \o stock
    BY DEF ReserveLocks
<1>2. PICK n \in Nat : items \in [1..n -> VariantId]
    BY ItemFacts
<1>3. PICK refs : refs = [i \in DOMAIN items |-> Referenced("variant", items[i])]
    OBVIOUS
<1>4. refs = [i \in 1..n |-> [table |-> "variant", id |-> items[i], mode |-> "share"]]
    BY <1>2, <1>3 DEF Referenced
<1>5. \A i \in 1..n : [table |-> "variant", id |-> items[i], mode |-> "share"] \in LockRows
    BY <1>2 DEF LockRows, Tables
<1>6. refs \in Seq(LockRows)
    BY <1>4, <1>5
<1>7. stock \in Seq(LockRows)
    BY ItemFacts, StockRows
<1> QED
    BY <1>1, <1>3, <1>6, <1>7

\* A checkout of a store with a limit takes the lock of the limit first.
LEMMA CheckoutRows ==
    ASSUME NEW items \in ItemLists, NEW locks \in CheckoutLocks(items)
    PROVE  /\ locks \in Seq(LockRows)
           /\ OrdersLimited => locks # <<>> /\ locks[1] = ForUpdate("capacity", 0)
<1>1. PICK coupon \in CouponLocks, reserve \in ReserveLocks(items) :
          locks = CapacityLock \o coupon \o reserve
    BY DEF CheckoutLocks
<1>2. reserve \in Seq(LockRows)
    BY ReserveRows
<1>3. ForUpdate("capacity", 0) \in LockRows /\ ForUpdate("coupon", 0) \in LockRows
    BY DEF ForUpdate, LockRows, Tables
<1>4. coupon \in Seq(LockRows)
    <2>1. PICK c : c = ForUpdate("coupon", 0)
        OBVIOUS
    <2>2. c \in LockRows /\ (coupon = <<>> \/ coupon = <<c>>)
        BY <1>3, <2>1 DEF CouponLocks
    <2>3. <<>> \in Seq(LockRows) /\ <<c>> \in Seq(LockRows)
        BY <2>2
    <2> QED
        BY <2>2, <2>3, Zenon
<1>5. CapacityLock \in Seq(LockRows)
    BY <1>3 DEF CapacityLock
<1>6. locks \in Seq(LockRows)
    BY <1>1, <1>2, <1>4, <1>5
<1>7. ASSUME OrdersLimited PROVE locks # <<>> /\ locks[1] = ForUpdate("capacity", 0)
    <2>1. PICK limit : limit = ForUpdate("capacity", 0)
        OBVIOUS
    <2>2. CapacityLock = <<limit>> /\ limit \in LockRows
        BY <1>3, <1>7, <2>1 DEF CapacityLock
    <2>3. PICK rest : rest = coupon \o reserve
        OBVIOUS
    <2>4. rest \in Seq(LockRows) /\ locks = <<limit>> \o rest
        BY <1>1, <1>2, <1>4, <2>2, <2>3
    <2>5. locks[1] = limit /\ Len(locks) = 1 + Len(rest)
        BY <2>2, <2>4
    <2> QED
        BY <2>1, <2>4, <2>5
<1> QED
    BY <1>6, <1>7

LEMMA ExpiryRows ==
    ASSUME NEW o \in OrderId, NEW locks \in ExpiryLocks(o)
    PROVE  locks \in Seq(LockRows)
<1>1. PICK stock \in StockLocks(Stocked[o]) :
          locks = stock \o <<Written("order", o), ForUpdate("redemption", o)>>
    BY DEF ExpiryLocks
<1>2. stock \in Seq(LockRows)
    BY LockAssumption, StockRows
<1>3. Written("order", o) \in LockRows /\ ForUpdate("redemption", o) \in LockRows
    BY DEF Written, ForUpdate, LockRows, Tables
<1>4. <<Written("order", o), ForUpdate("redemption", o)>> \in Seq(LockRows)
    BY <1>3
<1> QED
    BY <1>1, <1>2, <1>4

\* FlattenSeq is a recursive function: the lists joined up to i.
Joins(f, lists, n) == f = [i \in 1..n |-> IF i = 1 THEN lists[i] ELSE f[i - 1] \o lists[i]]

LEMMA FlattenRows ==
    ASSUME NEW n \in Nat \ {0}, NEW lists \in [1..n -> Seq(LockRows)]
    PROVE  FlattenSeq(lists) \in Seq(LockRows)
<1>1. Len(lists) = n
    OBVIOUS
<1> DEFINE Joined == CHOOSE f : Joins(f, lists, n)
           T == {m \in 0..n : \E f : Joins(f, lists, m)}
<1>2. FlattenSeq(lists) = Joined[n]
    BY <1>1 DEF FlattenSeq, Joins
<1>3. 0 \in T
    <2>1. PICK z : z = [i \in 1..0 |-> IF i = 1 THEN lists[i] ELSE <<>>]
        OBVIOUS
    <2>2. Joins(z, lists, 0)
        BY <2>1 DEF Joins
    <2> QED
        BY <2>2
<1>4. ASSUME NEW m \in 1..n, m - 1 \in T PROVE m \in T
    <2>1. PICK f : Joins(f, lists, m - 1)
        BY <1>4
    <2>2. PICK g : g = [i \in 1..m |-> IF i = 1 THEN lists[i] ELSE f[i - 1] \o lists[i]]
        OBVIOUS
    <2>3. \A i \in 1..(m - 1) : g[i] = f[i]
        <3>1. \A i \in 1..(m - 1) : f[i] = IF i = 1 THEN lists[i] ELSE f[i - 1] \o lists[i]
            BY <2>1 DEF Joins
        <3>2. \A i \in 1..m : g[i] = IF i = 1 THEN lists[i] ELSE f[i - 1] \o lists[i]
            BY <2>2
        <3>3. \A i \in 1..(m - 1) : i \in 1..m
            BY <1>4
        <3> QED
            BY <3>1, <3>2, <3>3, Zenon
    <2>4. \A i \in 1..m : i # 1 => i - 1 \in 1..(m - 1) /\ g[i - 1] = f[i - 1]
        BY <1>4, <2>3
    <2>5. g = [i \in 1..m |-> IF i = 1 THEN lists[i] ELSE g[i - 1] \o lists[i]]
        BY <2>2, <2>4
    <2>6. Joins(g, lists, m)
        BY <2>5, Zenon DEF Joins
    <2>7. m \in 0..n
        BY <1>4
    <2> QED
        BY <2>6, <2>7
<1> HIDE DEF T
<1>5. \A m \in 0..n : m \in T
    BY <1>3, <1>4, SetInduction
<1>6. Joins(Joined, lists, n)
    <2>1. \E f : Joins(f, lists, n)
        BY <1>5 DEF T
    <2> QED
        BY <2>1
<1> HIDE DEF Joined
<1> DEFINE U == {m \in 0..n : m # 0 => Joined[m] \in Seq(LockRows)}
<1>7. 0 \in U
    OBVIOUS
<1>8. ASSUME NEW m \in 1..n, m - 1 \in U PROVE m \in U
    <2>1. Joined[m] = IF m = 1 THEN lists[m] ELSE Joined[m - 1] \o lists[m]
        BY <1>6 DEF Joins
    <2>2. m # 1 => Joined[m - 1] \in Seq(LockRows)
        BY <1>8
    <2>3. Joined[m] \in Seq(LockRows)
        BY <2>1, <2>2
    <2> QED
        BY <2>3
<1> HIDE DEF U
<1>9. \A m \in 0..n : m \in U
    BY <1>7, <1>8, SetInduction
<1> QED
    BY <1>2, <1>9 DEF U

-----------------------------------------------------------------------------
(* The inductive invariant of RowLocks *)

Orderly == {"settle", "reopen", "adjust"}

\* What a transaction takes, is in its order, and for a checkout begins with the limit.
GoodWork(w) ==
    /\ w \in [kind : WorkKinds, locks : Seq(LockRows), taken : Nat]
    /\ w.taken <= Len(w.locks)
    /\ w.kind \in Orderly => Ascending(w.locks, 0, 5 + NumVariants)
    /\ w.kind = "checkout" /\ OrdersLimited
         => w.locks # <<>> /\ w.locks[1] = ForUpdate("capacity", 0)

Apart(w, v) == \A i \in 1..w.taken, j \in 1..v.taken : ~Clash(w.locks[i], v.locks[j])

LockInv ==
    /\ work = [t \in Transaction |-> work[t]]
    /\ \A t \in Transaction : GoodWork(work[t])
    /\ \A t, u \in Transaction : t # u => Apart(work[t], work[u])

LEMMA ClashIsMutual == \A l, m : Clash(l, m) <=> Clash(m, l)
BY DEF Clash, SameRow

\* A transaction may go on to good work that is apart from the others'.
LEMMA WorkGoesOn ==
    ASSUME LockInv, NEW t \in Transaction, NEW w, GoodWork(w),
           work' = [work EXCEPT ![t] = w],
           \A u \in Transaction : u # t => Apart(w, work[u])
    PROVE  LockInv'
<1>1. work' = [u \in Transaction |-> IF u = t THEN w ELSE work[u]]
    BY DEF LockInv
<1>2. work' = [u \in Transaction |-> work'[u]]
    BY <1>1
<1>3. \A u \in Transaction : GoodWork(work'[u])
    BY <1>1 DEF LockInv
<1>4. ASSUME NEW u \in Transaction, NEW v \in Transaction, u # v PROVE Apart(work'[u], work'[v])
    <2>1. CASE u = t
        BY <1>1, <1>4, <2>1
    <2>2. CASE v = t
        <3>1. Apart(w, work[u])
            BY <1>4, <2>2
        <3>2. work'[u] = work[u] /\ work'[v] = w
            BY <1>1, <1>4, <2>2
        <3> QED
            BY <3>1, <3>2, ClashIsMutual DEF Apart
    <2>3. CASE u # t /\ v # t
        BY <1>1, <1>4, <2>3 DEF LockInv
    <2> QED
        BY <2>1, <2>2, <2>3
<1>5. (\A u \in Transaction : GoodWork(work[u]))'
    BY <1>3 DEF GoodWork, Ascending
<1>6. (\A u, v \in Transaction : u # v => Apart(work[u], work[v]))'
    BY <1>4 DEF Apart
<1> QED
    BY <1>2, <1>5, <1>6 DEF LockInv

LEMMA InitOrderly == LockInit => LockInv
<1> SUFFICES ASSUME LockInit PROVE LockInv
    OBVIOUS
<1>1. <<>> \in Seq(LockRows) /\ Len(<<>>) = 0
    OBVIOUS
<1>2. GoodWork(NoWork)
    BY <1>1 DEF NoWork, GoodWork, WorkKinds, Orderly
<1>3. \A t \in Transaction : work[t] = NoWork
    BY DEF LockInit
<1>4. Apart(NoWork, NoWork)
    BY DEF Apart, NoWork
<1>5. work = [t \in Transaction |-> work[t]]
    BY DEF LockInit
<1> QED
    BY <1>2, <1>3, <1>4, <1>5 DEF LockInv

\* What begins has no lock yet.
LEMMA BeginKeeps ==
    ASSUME LockInv, NEW t \in Transaction, NEW kind \in WorkKinds, NEW locks \in Seq(LockRows),
           kind \in Orderly => Ascending(locks, 0, 5 + NumVariants),
           kind = "checkout" /\ OrdersLimited
               => locks # <<>> /\ locks[1] = ForUpdate("capacity", 0),
           StartWork(t, kind, locks)
    PROVE  LockInv'
<1> DEFINE w == [kind |-> kind, locks |-> locks, taken |-> 0]
<1>1. GoodWork(w)
    <2>1. Len(locks) \in Nat
        OBVIOUS
    <2> QED
        BY <2>1 DEF GoodWork
<1>2. \A u \in Transaction : u # t => Apart(w, work[u])
    BY DEF Apart
<1>3. work' = [work EXCEPT ![t] = w]
    BY DEF StartWork
<1> HIDE DEF w
<1> QED
    BY <1>1, <1>2, <1>3, WorkGoesOn

LEMMA EndKeeps ==
    ASSUME LockInv, NEW t \in Transaction, work' = [work EXCEPT ![t] = NoWork]
    PROVE  LockInv'
<1>1. <<>> \in Seq(LockRows) /\ Len(<<>>) = 0
    OBVIOUS
<1>2. GoodWork(NoWork)
    BY <1>1 DEF NoWork, GoodWork, WorkKinds, Orderly
<1>3. \A u \in Transaction : u # t => Apart(NoWork, work[u])
    BY DEF Apart, NoWork
<1> QED
    BY <1>2, <1>3, WorkGoesOn

LEMMA TakeLockKeeps ==
    ASSUME LockInv, NEW t \in Transaction, TakeLock(t)
    PROVE  LockInv'
<1>1. GoodWork(work[t])
    BY DEF LockInv
<1>2. PICK w : w = [work[t] EXCEPT !.taken = work[t].taken + 1]
    OBVIOUS
<1>3. work' = [work EXCEPT ![t] = w]
    BY <1>2 DEF TakeLock
<1>4. /\ w.kind = work[t].kind /\ w.locks = work[t].locks /\ w.taken = work[t].taken + 1
      /\ w \in [kind : WorkKinds, locks : Seq(LockRows), taken : Nat]
    BY <1>1, <1>2 DEF GoodWork
<1>5. GoodWork(w)
    <2>1. work[t].taken < Len(work[t].locks)
        BY DEF TakeLock, Waiting
    <2>2. Len(work[t].locks) \in Nat /\ work[t].taken \in Nat
        BY <1>1 DEF GoodWork
    <2>3. w.taken <= Len(w.locks)
        BY <1>4, <2>1, <2>2
    <2> QED
        BY <1>1, <1>4, <2>3 DEF GoodWork
<1>6. ASSUME NEW u \in Transaction, u # t PROVE Apart(w, work[u])
    <2> SUFFICES ASSUME NEW i \in 1..w.taken, NEW j \in 1..work[u].taken
                 PROVE  ~Clash(w.locks[i], work[u].locks[j])
        BY DEF Apart
    <2>1. work[t].taken \in Nat
        BY <1>1 DEF GoodWork
    <2>2. CASE i = work[t].taken + 1
        <3>1. ~WaitsFor(t, u) /\ Waiting(t)
            BY DEF TakeLock
        <3>2. ~Clash(Wanted(t), work[u].locks[j])
            BY <1>6, <3>1 DEF WaitsFor
        <3> QED
            BY <1>4, <2>2, <3>2 DEF Wanted
    <2>3. CASE i # work[t].taken + 1
        <3>1. i \in 1..work[t].taken
            BY <1>4, <2>1, <2>3
        <3>2. Apart(work[t], work[u])
            BY <1>6 DEF LockInv
        <3> QED
            BY <1>4, <3>1, <3>2 DEF Apart
    <2> QED
        BY <2>2, <2>3
<1> QED
    BY <1>3, <1>5, <1>6, WorkGoesOn

\* An expiry run has its reservations from the first: nobody else had them.
LEMMA ExpireKeeps ==
    ASSUME LockInv, NEW t \in Transaction, NEW S \in SUBSET OrderId, S # {},
           NEW batch \in ListsOf(S), Expire(t, batch)
    PROVE  LockInv'
<1>1. PICK n : n = Cardinality(S)
    OBVIOUS
<1>2. n \in Nat \ {0} /\ batch \in [1..n -> OrderId]
    <2>1. IsFiniteSet(S)
        BY LockAssumption, FS_Subset
    <2>2. n \in Nat /\ n # 0
        BY <1>1, <2>1, FS_CardinalityType, FS_EmptySet
    <2>3. batch \in [1..n -> S]
        BY <1>1 DEF ListsOf
    <2> QED
        BY <2>2, <2>3
<1>3. PICK each \in [DOMAIN batch -> UNION {ExpiryLocks(o) : o \in OrderId}] :
          /\ \A i \in DOMAIN batch : each[i] \in ExpiryLocks(batch[i])
          /\ work' = [work EXCEPT ![t] = [kind |-> "expire",
                 locks |-> [i \in DOMAIN batch |-> ForUpdate("reservation", batch[i])]
                           \o FlattenSeq(each),
                 taken |-> Len(batch)]]
    BY Zenon DEF Expire, BeginExpiry
<1>4. DOMAIN batch = 1..n /\ Len(batch) = n
    BY <1>2
<1>5. each \in [1..n -> Seq(LockRows)]
    <2>1. each = [i \in 1..n |-> each[i]]
        BY <1>3, <1>4
    <2>2. ASSUME NEW i \in 1..n PROVE each[i] \in Seq(LockRows)
        <3>1. batch[i] \in OrderId /\ each[i] \in ExpiryLocks(batch[i])
            BY <1>2, <1>3, <1>4
        <3> QED
            BY <3>1, ExpiryRows
    <2> QED
        BY <2>1, <2>2
<1>6. PICK first : first = [i \in 1..n |-> ForUpdate("reservation", batch[i])]
    OBVIOUS
<1>7. PICK rest : rest = FlattenSeq(each)
    OBVIOUS
<1>8. rest \in Seq(LockRows)
    BY <1>2, <1>5, <1>7, FlattenRows
<1>9. first \in Seq(LockRows) /\ Len(first) = n
    <2>1. \A i \in 1..n : first[i] = [table |-> "reservation", id |-> batch[i], mode |-> "update"]
        BY <1>6 DEF ForUpdate
    <2>2. ASSUME NEW i \in 1..n PROVE first[i] \in LockRows
        <3>1. batch[i] \in VariantId \cup OrderId \cup ProductId \cup {0}
            BY <1>2
        <3>2. first[i] = [table |-> "reservation", id |-> batch[i], mode |-> "update"]
            BY <2>1
        <3> QED
            BY <3>1, <3>2 DEF LockRows, Tables
    <2>3. first \in [1..n -> LockRows]
        BY <1>6, <2>2
    <2> HIDE DEF LockRows
    <2> QED
        BY <1>2, <2>3
<1>10. PICK w : w = [kind |-> "expire", locks |-> first \o rest, taken |-> n]
    OBVIOUS
<1>11. work' = [work EXCEPT ![t] = w]
    BY <1>3, <1>4, <1>6, <1>7, <1>10, Zenon
<1>12. /\ first \o rest \in Seq(LockRows) /\ Len(first \o rest) = n + Len(rest)
       /\ Len(rest) \in Nat /\ \A i \in 1..n : (first \o rest)[i] = first[i]
    <2>1. first \o rest \in Seq(LockRows) /\ Len(rest) \in Nat
        BY <1>8, <1>9
    <2>2. Len(first \o rest) = n + Len(rest)
        BY <1>8, <1>9
    <2>3. \A i \in 1..n : (first \o rest)[i] = first[i]
        BY <1>2, <1>8, <1>9
    <2> QED
        BY <2>1, <2>2, <2>3
<1>13. GoodWork(w)
    <2>1. "expire" \in WorkKinds /\ "expire" \notin Orderly
        BY DEF WorkKinds, Orderly
    <2>2. n <= Len(first \o rest)
        BY <1>2, <1>12
    <2> HIDE DEF LockRows
    <2> QED
        BY <1>2, <1>10, <1>12, <2>1, <2>2 DEF GoodWork
<1>14. ASSUME NEW u \in Transaction PROVE Apart(w, work[u])
    <2> SUFFICES ASSUME NEW i \in 1..n, NEW j \in 1..work[u].taken
                 PROVE  ~Clash((first \o rest)[i], work[u].locks[j])
        BY <1>10 DEF Apart
    <2>1. batch[i] \in Range(batch)
        BY <1>4 DEF Range
    <2>2. ~SameRow(work[u].locks[j], ForUpdate("reservation", batch[i]))
        BY <2>1 DEF Expire
    <2>3. (first \o rest)[i] = ForUpdate("reservation", batch[i])
        BY <1>6, <1>12
    <2> QED
        BY <2>2, <2>3 DEF Clash, SameRow
<1> QED
    BY <1>11, <1>13, <1>14, WorkGoesOn

LEMMA NextOrderly == LockInv /\ [LockNext]_lockVars => LockInv'
<1> SUFFICES ASSUME LockInv, [LockNext]_lockVars PROVE LockInv'
    OBVIOUS
<1>1. CASE UNCHANGED lockVars
    BY <1>1 DEF lockVars, LockInv, GoodWork, Ascending, Apart
<1>2. ASSUME NEW t \in Transaction, NEW o \in OrderId, Settle(t, o) PROVE LockInv'
    <2>1. PICK approval \in {<<>>, <<ForUpdate("request", o)>>}, locks \in TransitionLocks(o) :
              StartWork(t, "settle", approval \o locks)
        BY <1>2 DEF Settle
    <2>2. Ascending(approval \o locks, 0, 5 + NumVariants)
        BY ApprovedAscends
    <2>3. approval \o locks \in Seq(LockRows)
        BY <2>2 DEF Ascending
    <2>4. "settle" \in WorkKinds
        BY DEF WorkKinds
    <2> QED
        BY <2>1, <2>2, <2>3, <2>4, BeginKeeps
<1>3. ASSUME NEW t \in Transaction, NEW o \in OrderId, Reopen(t, o) PROVE LockInv'
    <2>1. PICK locks \in TransitionLocks(o) :
              StartWork(t, "reopen", locks \o <<ForUpdate("coupon", 0)>>)
        BY <1>3 DEF Reopen
    <2>2. Ascending(locks \o <<ForUpdate("coupon", 0)>>, 0, 5 + NumVariants)
        BY ReopenedAscends
    <2>3. locks \o <<ForUpdate("coupon", 0)>> \in Seq(LockRows)
        BY <2>2 DEF Ascending
    <2>4. "reopen" \in WorkKinds
        BY DEF WorkKinds
    <2> QED
        BY <2>1, <2>2, <2>3, <2>4, BeginKeeps
<1>4. ASSUME NEW t \in Transaction, NEW o \in OrderId, Compensate(t, o) PROVE LockInv'
    <2>1. PICK stock \in StockLocks(Stocked[o]) :
              StartWork(t, "compensate", <<ForUpdate("reservation", o)>> \o stock
                                     \o <<ForUpdate("redemption", o), Written("order", o)>>)
        BY <1>4 DEF Compensate
    <2>2. PICK first, last : /\ first = <<ForUpdate("reservation", o)>>
                             /\ last = <<ForUpdate("redemption", o), Written("order", o)>>
        OBVIOUS
    <2>3. /\ ForUpdate("reservation", o) \in LockRows /\ ForUpdate("redemption", o) \in LockRows
          /\ Written("order", o) \in LockRows
        BY DEF ForUpdate, Written, LockRows, Tables
    <2>4. first \in Seq(LockRows) /\ last \in Seq(LockRows) /\ stock \in Seq(LockRows)
        BY <2>2, <2>3, LockAssumption, StockRows
    <2>7. first \o stock \o last \in Seq(LockRows)
        BY <2>4
    <2>8. StartWork(t, "compensate", first \o stock \o last)
        BY <2>1, <2>2, Zenon
    <2>5. "compensate" \in WorkKinds /\ "compensate" \notin Orderly /\ "compensate" # "checkout"
        BY DEF WorkKinds, Orderly
    <2> QED
        BY <2>5, <2>7, <2>8, BeginKeeps
<1>5. ASSUME NEW t \in Transaction, NEW vs \in SUBSET VariantId, Adjust(t, vs) PROVE LockInv'
    <2>1. PICK locks \in StockLocks(vs) : StartWork(t, "adjust", locks)
        BY <1>5 DEF Adjust
    <2>2. 3 + NumVariants \in Nat /\ 5 + NumVariants \in Nat /\ 3 + NumVariants <= 5 + NumVariants
        BY LockAssumption
    <2>3. Ascending(locks, 0, 5 + NumVariants)
        BY <2>2, StockLocksAscend, Widened
    <2>4. locks \in Seq(LockRows) /\ "adjust" \in WorkKinds /\ "adjust" # "checkout"
        BY <2>3 DEF Ascending, WorkKinds
    <2> QED
        BY <2>1, <2>3, <2>4, BeginKeeps
<1>6. ASSUME NEW t \in Transaction, NEW items \in ItemLists, BeginCheckout(t, items) PROVE LockInv'
    <2>1. PICK locks \in CheckoutLocks(items) : StartWork(t, "checkout", locks)
        BY <1>6 DEF BeginCheckout
    <2>2. "checkout" \in WorkKinds /\ "checkout" \notin Orderly
        BY DEF WorkKinds, Orderly
    <2> QED
        BY <2>1, <2>2, CheckoutRows, BeginKeeps
<1>7. ASSUME NEW t \in Transaction, NEW items \in ItemLists, NEW o \in OrderId,
             Exchange(t, o, items)
      PROVE  LockInv'
    <2>1. PICK locks \in ReserveLocks(items) :
              StartWork(t, "exchange", <<ForUpdate("request", o), ForUpdate("order", o)>> \o locks)
        BY <1>7 DEF Exchange
    <2>2. PICK first : first = <<ForUpdate("request", o), ForUpdate("order", o)>>
        OBVIOUS
    <2>3. ForUpdate("request", o) \in LockRows /\ ForUpdate("order", o) \in LockRows
        BY DEF ForUpdate, LockRows, Tables
    <2>4. first \in Seq(LockRows) /\ locks \in Seq(LockRows)
        BY <2>2, <2>3, ReserveRows
    <2>5. first \o locks \in Seq(LockRows)
        BY <2>4
    <2>6. "exchange" \in WorkKinds /\ "exchange" \notin Orderly /\ "exchange" # "checkout"
        BY DEF WorkKinds, Orderly
    <2> QED
        BY <2>1, <2>2, <2>5, <2>6, BeginKeeps
<1>8. ASSUME NEW t \in Transaction, NEW s \in ItemLists, NEW o \in OrderId, Receive(t, o, s)
      PROVE  LockInv'
    <2>1. PICK q \in ListsOf(ProductsOf(Range(s))) :
              StartWork(t, "receive",
                        <<ForUpdate("request", o)>> \o VariantLocks(s) \o ProductLocks(q))
        BY <1>8 DEF Receive
    <2>2. PICK r, vl, pl : r = ForUpdate("request", o) /\ vl = VariantLocks(s)
                           /\ pl = ProductLocks(q)
        OBVIOUS
    <2>3. r \in LockRows
        BY <2>2 DEF ForUpdate, LockRows, Tables
    <2>4. vl \in Seq(LockRows) /\ pl \in Seq(LockRows)
        BY <2>2, ItemFacts, VariantRows, ProductRows
    <2>5. <<r>> \o vl \o pl \in Seq(LockRows)
        BY <2>3, <2>4
    <2>6. "receive" \in WorkKinds /\ "receive" \notin Orderly /\ "receive" # "checkout"
        BY DEF WorkKinds, Orderly
    <2>7. StartWork(t, "receive", <<r>> \o vl \o pl)
        BY <2>1, <2>2, Zenon
    <2> QED
        BY <2>5, <2>6, <2>7, BeginKeeps
<1>9. ASSUME NEW t \in Transaction, NEW items \in ItemLists,
             NEW vs \in SUBSET (VariantId \ Range(items)), AdjustDefaults(t, items, vs)
      PROVE  LockInv'
    <2>1. PICK named \in AscendingListsOf(vs), q \in ListsOf(ProductsOf(Range(items) \cup vs)) :
              StartWork(t, "adjustDefaults", VariantLocks(items \o named) \o ProductLocks(q))
        BY <1>9 DEF AdjustDefaults
    <2>2. PICK n \in Nat : items \in [1..n -> VariantId]
        BY ItemFacts
    <2>3. PICK m \in Nat : named \in [1..m -> vs]
        BY VariantsFinite DEF AscendingListsOf
    <2>4. items \in Seq(VariantId) /\ named \in Seq(VariantId)
        BY <2>2, <2>3
    <2>5. PICK both : both = items \o named
        OBVIOUS
    <2>6. both \in Seq(VariantId)
        BY <2>4, <2>5
    <2>7. Len(both) \in Nat /\ both \in [1..Len(both) -> VariantId]
        BY <2>6
    <2>8. VariantLocks(both) \in Seq(LockRows)
        BY <2>7, VariantRows
    <2>9. Range(items) \cup vs \in SUBSET VariantId
        BY ItemFacts
    <2>10. ProductLocks(q) \in Seq(LockRows)
        BY <2>9, ProductRows
    <2>11. PICK vl, pl : vl = VariantLocks(both) /\ pl = ProductLocks(q)
        OBVIOUS
    <2>12. vl \o pl \in Seq(LockRows)
        BY <2>8, <2>10, <2>11
    <2>13. /\ "adjustDefaults" \in WorkKinds /\ "adjustDefaults" \notin Orderly
           /\ "adjustDefaults" # "checkout"
        BY DEF WorkKinds, Orderly
    <2>14. StartWork(t, "adjustDefaults", vl \o pl)
        BY <2>1, <2>5, <2>11, Zenon
    <2> QED
        BY <2>12, <2>13, <2>14, BeginKeeps
<1>10. ASSUME NEW t \in Transaction, NEW p \in ProductId, EditProduct(t, p) PROVE LockInv'
    <2>1. PICK s \in ListsOf({v \in VariantId : ProductOf[v] = p}) :
              StartWork(t, "edit", <<Written("product", p)>> \o VariantLocks(s))
        BY <1>10 DEF EditProduct
    <2>2. PICK vs : vs = {v \in VariantId : ProductOf[v] = p}
        OBVIOUS
    <2>3. vs \in SUBSET VariantId
        BY <2>2
    <2>4. PICK n \in Nat : s \in [1..n -> vs]
        BY <2>2, <2>3, VariantsFinite DEF ListsOf
    <2>5. PICK r, vl : r = Written("product", p) /\ vl = VariantLocks(s)
        OBVIOUS
    <2>6. r \in LockRows
        BY <2>5 DEF Written, LockRows, Tables
    <2>7. vl \in Seq(LockRows)
        BY <2>3, <2>4, <2>5, VariantRows
    <2>8. <<r>> \o vl \in Seq(LockRows)
        BY <2>6, <2>7
    <2>9. "edit" \in WorkKinds /\ "edit" \notin Orderly /\ "edit" # "checkout"
        BY DEF WorkKinds, Orderly
    <2>10. StartWork(t, "edit", <<r>> \o vl)
        BY <2>1, <2>5, Zenon
    <2> QED
        BY <2>8, <2>9, <2>10, BeginKeeps
<1>11. ASSUME NEW t \in Transaction, NEW S \in (SUBSET OrderId) \ {{}},
              NEW batch \in ListsOf(S), Expire(t, batch)
       PROVE  LockInv'
    BY <1>11, ExpireKeeps
<1>12. ASSUME NEW t \in Transaction, End(t) \/ AbortDeadlocked(t) PROVE LockInv'
    BY <1>12, EndKeeps DEF End, AbortDeadlocked
<1> QED
    BY <1>1, <1>2, <1>3, <1>4, <1>5, <1>6, <1>7, <1>8, <1>9, <1>10, <1>11, <1>12, TakeLockKeeps
    DEF LockNext, TakeUp

\* Every transaction has some first part of its list, and nobody a lock that clashes with it,
\* for any number of transactions.
THEOREM LockInvHolds == LockSpec => []LockInv
BY InitOrderly, NextOrderly, PTL DEF LockSpec

-----------------------------------------------------------------------------
(* Deadlocks *)

\* The locks a transaction has clash with no other's, whichever orders, variants and stores.
THEOREM LocksAreHeldCorrect == LockSpec => []LocksAreHeld
<1>1. LockInv => LocksAreHeld
    <2> SUFFICES ASSUME LockInv, NEW t \in Transaction
                 PROVE  /\ work[t].kind \in WorkKinds
                        /\ work[t].taken \in 0..Len(work[t].locks)
                        /\ \A u \in Transaction \ {t} :
                             \A i \in 1..work[t].taken, j \in 1..work[u].taken :
                               ~Clash(work[t].locks[i], work[u].locks[j])
        BY DEF LocksAreHeld
    <2>1. GoodWork(work[t]) /\ \A u \in Transaction \ {t} : Apart(work[t], work[u])
        BY DEF LockInv
    <2>2. Len(work[t].locks) \in Nat
        BY <2>1 DEF GoodWork
    <2> QED
        BY <2>1, <2>2 DEF GoodWork, Apart
<1> QED
    BY <1>1, LockInvHolds, PTL

\* Of checkouts alone none can be deadlocked when the plan limits the orders: all but one wait
\* for the lock of the limit, which is the first of each.
LEMMA LimitSerializes == LockInv /\ OrdersLimited => CheckoutsSerialize
<1> SUFFICES ASSUME LockInv, OrdersLimited, NEW D \in SUBSET Transaction, Deadlocked(D),
                    \A t \in D : work[t].kind = "checkout"
             PROVE  FALSE
    BY DEF CheckoutsSerialize
<1>1. PICK t \in D, u \in D : WaitsFor(t, u)
    BY DEF Deadlocked
<1>2. PICK v \in D : WaitsFor(u, v)
    BY DEF Deadlocked
<1>3. ASSUME NEW x \in D, NEW y \in D, WaitsFor(x, y)
      PROVE  1 \in 1..work[y].taken /\ work[y].locks[1] = ForUpdate("capacity", 0)
    <2>1. GoodWork(work[y]) /\ work[y].kind = "checkout"
        BY DEF LockInv
    <2>2. work[y].taken \in Nat /\ \E i \in 1..work[y].taken : TRUE
        BY <1>3, <2>1 DEF WaitsFor, GoodWork
    <2> QED
        BY <2>1, <2>2 DEF GoodWork
<1>4. Clash(work[u].locks[1], work[v].locks[1])
    BY <1>1, <1>2, <1>3 DEF Clash, SameRow, ForUpdate
<1>5. Apart(work[u], work[v])
    BY <1>2 DEF LockInv, WaitsFor
<1> QED
    BY <1>1, <1>2, <1>3, <1>4, <1>5 DEF Apart

\* A waiting transaction in the order waits for a place after all it has, products apart.
LEMMA WaitsFurtherOn ==
    ASSUME NEW w, GoodWork(w), w.kind \in Orderly, w.taken < Len(w.locks)
    PROVE  /\ Place(w.locks[w.taken + 1]) \in 0..(5 + NumVariants)
           /\ \A i \in 1..w.taken : Precedes(w.locks[i], w.locks[w.taken + 1])
<1>1. Ascending(w.locks, 0, 5 + NumVariants) /\ w.taken \in Nat
    BY DEF GoodWork
<1>2. Len(w.locks) \in Nat
    BY <1>1 DEF Ascending
<1>3. w.taken + 1 \in 1..Len(w.locks) /\ \A i \in 1..w.taken : i \in 1..Len(w.locks)
                                                              /\ i < w.taken + 1
    BY <1>1, <1>2
<1> QED
    BY <1>1, <1>3 DEF Ascending

LEMMA OrderSerializes == LockInv => SettlementsSerialize
<1> SUFFICES ASSUME LockInv, NEW D \in SUBSET Transaction, Deadlocked(D),
                    \A t \in D : work[t].kind \in {"settle", "reopen", "adjust"}
             PROVE  \E t \in D :
                      /\ Wanted(t).table = "product"
                      /\ \E i \in 1..work[t].taken : work[t].locks[i].table = "product"
    BY DEF SettlementsSerialize
<1>1. ASSUME NEW t \in D
      PROVE  /\ Place(Wanted(t)) \in 0..(5 + NumVariants)
             /\ \A i \in 1..work[t].taken : Precedes(work[t].locks[i], Wanted(t))
    <2>1. GoodWork(work[t]) /\ work[t].kind \in Orderly
        BY DEF LockInv, Orderly
    <2>2. work[t].taken < Len(work[t].locks)
        BY DEF Deadlocked, WaitsFor, Waiting
    <2> QED
        BY <2>1, <2>2, WaitsFurtherOn DEF Wanted
<1> DEFINE Left == {5 + NumVariants - Place(Wanted(t)) : t \in D}
<1>2. Left \in SUBSET Nat /\ Left # {}
    <2>1. D # {}
        BY DEF Deadlocked
    <2>2. \A t \in D : 5 + NumVariants - Place(Wanted(t)) \in Nat
        BY <1>1, LockAssumption
    <2> QED
        BY <2>1, <2>2
<1>3. PICK m \in Left : \A k \in Left : m <= k
    BY <1>2, LeastNumber
<1>4. PICK t \in D : m = 5 + NumVariants - Place(Wanted(t))
    BY <1>3
<1>5. \A u \in D : Place(Wanted(u)) <= Place(Wanted(t))
    <2> SUFFICES ASSUME NEW u \in D PROVE Place(Wanted(u)) <= Place(Wanted(t))
        OBVIOUS
    <2>1. 5 + NumVariants - Place(Wanted(t)) <= 5 + NumVariants - Place(Wanted(u))
        BY <1>3, <1>4
    <2>2. Place(Wanted(u)) \in Nat /\ Place(Wanted(t)) \in Nat
        BY <1>1
    <2> QED
        BY <2>1, <2>2, LockAssumption
<1>6. PICK u \in D : WaitsFor(t, u)
    BY DEF Deadlocked
<1>7. PICK i \in 1..work[u].taken : Clash(Wanted(t), work[u].locks[i])
    BY <1>6 DEF WaitsFor
<1>8. /\ work[u].locks[i].table = Wanted(t).table
      /\ Place(work[u].locks[i]) = Place(Wanted(t))
    BY <1>7 DEF Clash, SameRow, Place
<1>9. Precedes(work[u].locks[i], Wanted(u))
    BY <1>1
<1>10. ~(Place(work[u].locks[i]) < Place(Wanted(u)))
    <2>1. Place(Wanted(u)) \in Nat /\ Place(Wanted(t)) \in Nat
        BY <1>1
    <2> QED
        BY <1>5, <1>8, <2>1
<1>11. Wanted(u).table = "product" /\ work[u].locks[i].table = "product"
    BY <1>9, <1>10 DEF Precedes
<1> QED
    BY <1>11

\* Checkouts of a store whose plan limits the orders of a month deadlock in no number, and
\* settlements, reopened orders and stock edits over products only (assertPlanCapacity,
\* transitionOrderOperation, setInventoryBalances).
THEOREM DeadlocksAreKnownHolds == LockSpec => []DeadlocksAreKnown
<1>1. LockInv => DeadlocksAreKnown
    BY LimitSerializes, OrderSerializes DEF DeadlocksAreKnown
<1> QED
    BY <1>1, LockInvHolds, PTL
=============================================================================
