-------------------------- MODULE EventBufferProofs --------------------------
(***************************************************************************)
(* What EventBuffer promises for every capacity, every width of a cycle    *)
(* and every length of a window: nothing recorded goes uncounted, a cut    *)
(* record repeats nothing, and folding keeps the beginning and the order.  *)
(*                                                                         *)
(* The sums and checksums the folds compute are recursive functions. The   *)
(* library's induction rule takes an operator as a parameter; here the     *)
(* rule is instead one about sets of numbers (NatSets), drawn from the     *)
(* library's theorem that a well-founded relation has minimal elements.    *)
(***************************************************************************)
EXTENDS EventBuffer, SequenceTheorems, FiniteSetTheorems,
        WellFoundedInduction, TLAPS

-----------------------------------------------------------------------------
(* Induction over the natural numbers, as a fact about sets of them.       *)

\* A set of natural numbers that has a member has a least one.
LEMMA LeastOfNaturals ==
  ASSUME NEW T, T \subseteq Nat, T # {}
  PROVE  \E x \in T : \A y \in T : x <= y
<1> DEFINE R == OpToRel(<, Nat)
<1>1. \A x, y \in T : y < x => <<y, x>> \in R
  BY DEF OpToRel
<1>2. IsWellFoundedOn(R, Nat)
  BY NatLessThanWellFounded, Zenon
<1> HIDE DEF R
<1>3. PICK x \in T : \A y \in T : ~ (<<y, x>> \in R)
  BY <1>2, WFMin
<1>4. \A y \in T : ~ (y < x) /\ x \in Nat /\ y \in Nat
  BY <1>1, <1>3
<1>5. QED
  BY <1>3, <1>4

\* Induction: a set that holds 0, and n + 1 with every n, holds them all.
LEMMA NatSets ==
  ASSUME NEW S, 0 \in S, \A n \in Nat : n \in S => n + 1 \in S
  PROVE  Nat \subseteq S
<1> SUFFICES ASSUME Nat \ S # {} PROVE FALSE
  OBVIOUS
<1>1. PICK x \in Nat \ S : \A y \in Nat \ S : x <= y
  BY LeastOfNaturals
<1>2. x # 0 /\ x - 1 \in Nat
  BY <1>1
<1>3. x - 1 \in S
  BY <1>1, <1>2
<1>4. x - 1 + 1 = x
  BY <1>1
<1>5. QED
  BY <1>1, <1>2, <1>3, <1>4

-----------------------------------------------------------------------------
(* Sums.                                                                   *)

\* s[i] is the sum of the first i numbers of f, for i up to n.
SumsUp(f, n, s) ==
  /\ s \in [0..n -> Int]
  /\ \A i \in 0..n : s[i] = IF i = 0 THEN 0 ELSE s[i - 1] + f[i]

Numbers(f, n) == \A i \in 1..n : f[i] \in Nat

\* SumTo is what any partial sums say it is.
LEMMA SumUnique ==
  ASSUME NEW f, NEW n \in Nat, NEW s, SumsUp(f, n, s), Numbers(f, n)
  PROVE  SumTo(f, n) = s[n]
<1> DEFINE Adds(c) == c = [i \in 0..n |-> IF i = 0 THEN 0 ELSE c[i - 1] + f[i]]
<1> DEFINE c == CHOOSE c : Adds(c)
<1>1. Adds(s)
  BY DEF SumsUp
<1>2. Adds(c)
  <2>1. \E d : Adds(d)
    BY <1>1
  <2> HIDE DEF Adds
  <2>2. QED
    BY <2>1
<1>3. SumTo(f, n) = c[n]
  BY DEF SumTo
<1> HIDE DEF c
<1> DEFINE S == {i \in Nat : i <= n => c[i] = s[i]}
<1>4. 0 \in S
  BY <1>2 DEF SumsUp
<1>5. ASSUME NEW i \in Nat, i \in S PROVE i + 1 \in S
  <2> SUFFICES ASSUME i + 1 <= n PROVE c[i + 1] = s[i + 1]
    OBVIOUS
  <2>1. i + 1 \in 0..n /\ i + 1 # 0 /\ i + 1 - 1 = i /\ c[i] = s[i]
    BY <1>5
  <2>2. c[i + 1] = c[i] + f[i + 1]
    BY <1>2, <2>1
  <2>3. s[i + 1] = s[i] + f[i + 1]
    BY <2>1 DEF SumsUp
  <2>4. QED
    BY <2>1, <2>2, <2>3
<1>6. n \in S
  <2> HIDE DEF S
  <2>1. QED
    BY <1>4, <1>5, NatSets
<1>7. QED
  BY <1>3, <1>6

\* Numbers have partial sums.
LEMMA SumExists ==
  ASSUME NEW f, NEW n \in Nat, Numbers(f, n)
  PROVE  \E s : SumsUp(f, n, s)
<1> DEFINE Sums(m) == \E s : SumsUp(f, m, s)
<1> DEFINE S == {m \in Nat : m <= n => Sums(m)}
<1>1. Sums(0)
  <2>1. SumsUp(f, 0, [i \in 0..0 |-> 0])
    BY DEF SumsUp
  <2>2. QED
    BY <2>1
<1>2. ASSUME NEW m \in Nat, Sums(m), m + 1 <= n PROVE Sums(m + 1)
  <2>1. PICK s : SumsUp(f, m, s)
    BY <1>2
  <2> DEFINE t == [i \in 0..m + 1 |-> IF i = m + 1 THEN s[m] + f[m + 1] ELSE s[i]]
  <2>2. f[m + 1] \in Nat
    BY <1>2 DEF Numbers
  <2>3. \A i \in 0..m : s[i] \in Int
    BY <2>1 DEF SumsUp
  <2>4. t \in [0..m + 1 -> Int]
    BY <2>2, <2>3
  <2>5. ASSUME NEW i \in 0..m + 1
        PROVE t[i] = IF i = 0 THEN 0 ELSE t[i - 1] + f[i]
    <3>1. CASE i = m + 1
      BY <3>1
    <3>2. CASE i # m + 1
      <4>1. i \in 0..m /\ (i # 0 => i - 1 \in 0..m)
        BY <3>2
      <4>2. s[i] = IF i = 0 THEN 0 ELSE s[i - 1] + f[i]
        BY <2>1, <4>1 DEF SumsUp
      <4>3. t[i] = s[i] /\ (i # 0 => t[i - 1] = s[i - 1])
        BY <4>1
      <4>4. QED
        BY <4>2, <4>3
    <3>3. QED
      BY <3>1, <3>2
  <2>6. SumsUp(f, m + 1, t)
    BY <2>4, <2>5 DEF SumsUp
  <2> HIDE DEF t
  <2>7. QED
    BY <2>6
<1> HIDE DEF Sums
<1>3. 0 \in S /\ \A m \in Nat : m \in S => m + 1 \in S
  BY <1>1, <1>2
<1>4. n \in S
  <2> HIDE DEF S
  <2>1. QED
    BY <1>3, NatSets
<1>5. QED
  BY <1>4 DEF Sums

\* The partial sums up to n.
LEMMA SumIs ==
  ASSUME NEW f, NEW n \in Nat, Numbers(f, n)
  PROVE  \E s : SumsUp(f, n, s) /\ \A m \in 0..n : SumTo(f, m) = s[m]
<1>1. PICK s : SumsUp(f, n, s)
  BY SumExists
<1>2. ASSUME NEW m \in 0..n PROVE SumTo(f, m) = s[m]
  <2> DEFINE t == [i \in 0..m |-> s[i]]
  <2>1. SumsUp(f, m, t) /\ Numbers(f, m) /\ t[m] = s[m]
    BY <1>1 DEF SumsUp, Numbers
  <2> HIDE DEF t
  <2>2. QED
    BY <2>1, SumUnique
<1>3. QED
  BY <1>1, <1>2

\* The sum of nothing.
LEMMA SumNothing == ASSUME NEW f PROVE SumTo(f, 0) = 0
<1>1. Numbers(f, 0)
  BY DEF Numbers
<1>2. PICK s : SumsUp(f, 0, s) /\ SumTo(f, 0) = s[0]
  BY <1>1, SumIs
<1>3. QED
  BY <1>2 DEF SumsUp

\* One number more.
LEMMA SumNext ==
  ASSUME NEW f, NEW n \in Nat, Numbers(f, n + 1)
  PROVE  SumTo(f, n + 1) = SumTo(f, n) + f[n + 1]
<1>1. n + 1 \in Nat /\ n \in 0..n + 1 /\ n + 1 \in 0..n + 1 /\ n + 1 - 1 = n
  OBVIOUS
<1>2. PICK s : SumsUp(f, n + 1, s) /\ \A m \in 0..n + 1 : SumTo(f, m) = s[m]
  BY <1>1, SumIs
<1>3. s[n + 1] = s[n] + f[n + 1]
  BY <1>1, <1>2 DEF SumsUp
<1>4. QED
  BY <1>1, <1>2, <1>3

\* A sum of numbers is one, and no less than any of them.
LEMMA SumIsNumber ==
  ASSUME NEW f, NEW n \in Nat, Numbers(f, n)
  PROVE  SumTo(f, n) \in Nat
<1> DEFINE S == {m \in Nat : m <= n => SumTo(f, m) \in Nat}
<1>1. 0 \in S
  BY SumNothing
<1>2. ASSUME NEW m \in Nat, m \in S PROVE m + 1 \in S
  <2> SUFFICES ASSUME m + 1 <= n PROVE SumTo(f, m + 1) \in Nat
    OBVIOUS
  <2>1. Numbers(f, m + 1) /\ f[m + 1] \in Nat /\ SumTo(f, m) \in Nat
    BY <1>2 DEF Numbers
  <2>2. QED
    BY <2>1, SumNext
<1>3. n \in S
  <2> HIDE DEF S
  <2>1. QED
    BY <1>1, <1>2, NatSets
<1>4. QED
  BY <1>3

\* Zeros add up to zero.
LEMMA SumOfZeros ==
  ASSUME NEW f, NEW n \in Nat, \A i \in 1..n : f[i] = 0
  PROVE  SumTo(f, n) = 0
<1> DEFINE S == {m \in Nat : m <= n => SumTo(f, m) = 0}
<1>1. 0 \in S
  BY SumNothing
<1>2. ASSUME NEW m \in Nat, m \in S PROVE m + 1 \in S
  <2> SUFFICES ASSUME m + 1 <= n PROVE SumTo(f, m + 1) = 0
    OBVIOUS
  <2>1. Numbers(f, m + 1) /\ f[m + 1] = 0 /\ SumTo(f, m) = 0
    BY <1>2 DEF Numbers
  <2>2. QED
    BY <2>1, SumNext
<1>3. n \in S
  <2> HIDE DEF S
  <2>1. QED
    BY <1>1, <1>2, NatSets
<1>4. QED
  BY <1>3

\* The sum depends on the numbers alone.
LEMMA SumSame ==
  ASSUME NEW f, NEW g, NEW n \in Nat, Numbers(f, n),
         \A i \in 1..n : g[i] = f[i]
  PROVE  SumTo(g, n) = SumTo(f, n)
<1>1. PICK s : SumsUp(f, n, s) /\ SumTo(f, n) = s[n]
  BY SumIs
<1>2. SumsUp(g, n, s) /\ Numbers(g, n)
  BY <1>1 DEF SumsUp, Numbers
<1>3. QED
  BY <1>1, <1>2, SumUnique

\* Two sums, term by term.
LEMMA SumAdds ==
  ASSUME NEW f, NEW g, NEW h, NEW n \in Nat, Numbers(f, n), Numbers(g, n),
         \A i \in 1..n : h[i] = f[i] + g[i]
  PROVE  SumTo(h, n) = SumTo(f, n) + SumTo(g, n)
<1>1. PICK s : SumsUp(f, n, s) /\ SumTo(f, n) = s[n]
  BY SumIs
<1>2. PICK t : SumsUp(g, n, t) /\ SumTo(g, n) = t[n]
  BY SumIs
<1> DEFINE u == [i \in 0..n |-> s[i] + t[i]]
<1>3. \A i \in 0..n : s[i] \in Int /\ t[i] \in Int
  BY <1>1, <1>2 DEF SumsUp
<1>4. Numbers(h, n)
  BY DEF Numbers
<1>5. u \in [0..n -> Int]
  BY <1>3
<1>6. ASSUME NEW i \in 0..n PROVE u[i] = IF i = 0 THEN 0 ELSE u[i - 1] + h[i]
  <2>1. CASE i = 0
    BY <1>1, <1>2, <2>1 DEF SumsUp
  <2>2. CASE i # 0
    <3>1. i \in 1..n /\ i - 1 \in 0..n
      BY <2>2
    <3>2. /\ s[i] = s[i - 1] + f[i] /\ t[i] = t[i - 1] + g[i]
          /\ f[i] \in Nat /\ g[i] \in Nat /\ h[i] = f[i] + g[i]
          /\ s[i - 1] \in Int /\ t[i - 1] \in Int
          /\ u[i] = s[i] + t[i] /\ u[i - 1] = s[i - 1] + t[i - 1]
      BY <1>1, <1>2, <1>3, <2>2, <3>1 DEF SumsUp, Numbers
    <3>3. QED
      BY <2>2, <3>2
  <2>3. QED
    BY <2>1, <2>2
<1>7. SumsUp(h, n, u) /\ u[n] = s[n] + t[n]
  BY <1>5, <1>6 DEF SumsUp
<1> HIDE DEF u
<1>8. QED
  BY <1>1, <1>2, <1>4, <1>7, SumUnique

\* g is the n numbers of f behind the first m.
Stretch(g, f, m, n) == \A i \in 1..n : g[i] = f[m + i]

\* A sum in two parts, the second of which is g.
LEMMA SumJoins ==
  ASSUME NEW f, NEW g, NEW m \in Nat, NEW n \in Nat,
         NEW k \in Nat, k = m + n, Numbers(f, k),
         Stretch(g, f, m, n)
  PROVE  SumTo(f, k) = SumTo(f, m) + SumTo(g, n)
<1>1. PICK s : SumsUp(f, k, s) /\ \A i \in 0..k : SumTo(f, i) = s[i]
  BY SumIs
<1> DEFINE t == [i \in 0..n |-> s[m + i] - s[m]]
<1>2. \A i \in 0..k : s[i] \in Int
  BY <1>1 DEF SumsUp
<1>3. \A i \in 0..n : m + i \in 0..k /\ m \in 0..k
  OBVIOUS
<1>4. t \in [0..n -> Int]
  BY <1>2, <1>3
<1>5. Numbers(g, n)
  BY DEF Numbers, Stretch
<1>6. ASSUME NEW i \in 0..n PROVE t[i] = IF i = 0 THEN 0 ELSE t[i - 1] + g[i]
  <2>1. CASE i = 0
    BY <1>2, <1>3, <2>1
  <2>2. CASE i # 0
    <3>1. /\ i \in 1..n /\ i - 1 \in 0..n /\ m + i # 0
          /\ m + i - 1 = m + (i - 1)
      BY <2>2
    <3>2. s[m + i] = s[m + (i - 1)] + f[m + i]
      BY <1>1, <1>3, <3>1 DEF SumsUp
    <3>3. /\ f[m + i] \in Nat /\ g[i] = f[m + i]
          /\ s[m + i] \in Int /\ s[m + (i - 1)] \in Int /\ s[m] \in Int
          /\ t[i] = s[m + i] - s[m] /\ t[i - 1] = s[m + (i - 1)] - s[m]
      BY <1>2, <1>3, <3>1 DEF Numbers, Stretch
    <3>4. QED
      BY <2>2, <3>2, <3>3
  <2>3. QED
    BY <2>1, <2>2
<1>7. SumsUp(g, n, t) /\ t[n] = s[k] - s[m]
  <2>1. n \in 0..n
    OBVIOUS
  <2>2. t[n] = s[k] - s[m]
    BY <2>1
  <2>3. SumsUp(g, n, t)
    <3> HIDE DEF t
    <3>1. QED
      BY <1>4, <1>6 DEF SumsUp
  <2>4. QED
    BY <2>2, <2>3
<1> HIDE DEF t
<1>8. SumTo(g, n) = t[n]
  BY <1>5, <1>7, SumUnique
<1>9. m \in 0..k /\ k \in 0..k
  OBVIOUS
<1>10. /\ s[m] \in Int /\ s[k] \in Int
       /\ SumTo(f, m) = s[m] /\ SumTo(f, k) = s[k]
  BY <1>1, <1>2, <1>9
<1>11. QED
  BY <1>7, <1>8, <1>10

-----------------------------------------------------------------------------
(* The sums over the rounds of a cycle.                                    *)

\* p events make q rounds of w.
Makes(w, q, p) == p = w * q

Block(r, s, n) == [i \in 1..n |-> r[s + i]]
Column(r, s, w, k, q) == [j \in 1..q |-> r[s + w * (j - 1) + k]]
Row(r, s, w, q) == [k \in 1..w |-> SumTo(Column(r, s, w, k, q), q)]

\* Place k of round j is among the w * q places.
LEMMA InRounds ==
  ASSUME NEW w \in Nat, NEW q \in Nat, NEW j \in 1..q, NEW k \in 1..w
  PROVE  /\ w * (j - 1) \in Nat /\ w * (j - 1) + k \in 1..w * q
         /\ w * (j - 1) + w <= w * q /\ w * q \in Nat
<1>1. w * (j - 1) \in Nat /\ w * (q - j) \in Nat /\ w * q \in Nat
  OBVIOUS
<1>2. w * q = w * (j - 1) + w + w * (q - j)
  OBVIOUS
<1>3. QED
  BY <1>1, <1>2

\* Adding up column by column is adding up in order.
LEMMA RowIsBlock ==
  ASSUME NEW r, NEW s \in Nat, NEW w \in Nat, NEW last \in Nat,
         Numbers(Block(r, s, w * last), w * last)
  PROVE  SumTo(Row(r, s, w, last), w) = SumTo(Block(r, s, w * last), w * last)
<1> DEFINE Agree(q) ==
      SumTo(Row(r, s, w, q), w) = SumTo(Block(r, s, w * q), w * q)
<1>1. ASSUME NEW q \in 0..last
      PROVE  /\ w * q \in Nat /\ w * q <= w * last
             /\ \A i \in 1..w * q : r[s + i] \in Nat
             /\ Numbers(Block(r, s, w * q), w * q)
             /\ \A k \in 1..w : Numbers(Column(r, s, w, k, q), q)
  <2>1. w * q \in Nat /\ w * last \in Nat /\ w * (last - q) \in Nat
    OBVIOUS
  <2>2. w * last = w * q + w * (last - q)
    OBVIOUS
  <2>3. w * q <= w * last
    BY <2>1, <2>2
  <2>4. \A i \in 1..w * last : r[s + i] \in Nat
    BY <2>1 DEF Numbers, Block
  <2>5. \A i \in 1..w * q : r[s + i] \in Nat
    BY <2>1, <2>3, <2>4
  <2>6. ASSUME NEW k \in 1..w, NEW j \in 1..q
        PROVE  r[s + w * (j - 1) + k] \in Nat
    <3>1. w * (j - 1) \in Nat /\ w * (j - 1) + k \in 1..w * q
      BY InRounds
    <3>2. s + w * (j - 1) + k = s + (w * (j - 1) + k)
      BY <3>1
    <3>3. QED
      BY <2>5, <3>1, <3>2
  <2>7. Numbers(Block(r, s, w * q), w * q)
    BY <2>5 DEF Numbers, Block
  <2>8. QED
    BY <2>1, <2>3, <2>5, <2>6, <2>7 DEF Numbers, Column
<1>2. Agree(0)
  <2>1. \A k \in 1..w : Row(r, s, w, 0)[k] = 0
    BY SumNothing DEF Row
  <2>2. SumTo(Row(r, s, w, 0), w) = 0
    BY <2>1, SumOfZeros
  <2>3. w * 0 = 0
    OBVIOUS
  <2>4. QED
    BY <2>2, <2>3, SumNothing
<1>3. ASSUME NEW q \in Nat, Agree(q), q + 1 <= last PROVE Agree(q + 1)
  <2> DEFINE f == Block(r, s, w * (q + 1))
             next == Block(r, s + w * q, w)
  <2>1. q \in 0..last /\ q + 1 \in 0..last
    BY <1>3
  <2>2. w * q \in Nat /\ w * (q + 1) = w * q + w
    OBVIOUS
  <2>3. Numbers(f, w * q + w)
    BY <1>1, <2>1, <2>2
  <2>4. \A i \in 1..w : next[i] = f[w * q + i] /\ next[i] = r[s + w * q + i]
    <3>1. ASSUME NEW i \in 1..w
          PROVE  /\ w * q + i \in 1..w * (q + 1)
                 /\ s + w * q + i = s + (w * q + i)
      BY <2>2
    <3>2. QED
      BY <3>1 DEF Block
  <2>5. SumTo(f, w * q + w) = SumTo(f, w * q) + SumTo(next, w)
    <3> HIDE DEF f, next
    <3>1. Stretch(next, f, w * q, w)
      BY <2>4 DEF Stretch
    <3>2. PICK m \in Nat, k \in Nat : m = w * q /\ k = w * q + w
      BY <2>2
    <3>3. k = m + w /\ Numbers(f, k) /\ Stretch(next, f, m, w)
      BY <2>3, <3>1, <3>2
    <3>4. SumTo(f, k) = SumTo(f, m) + SumTo(next, w)
      BY <3>3, SumJoins
    <3>5. QED
      BY <3>2, <3>4
  <2>6. SumTo(f, w * q) = SumTo(Block(r, s, w * q), w * q)
    <3>1. \A i \in 1..w * q : f[i] = Block(r, s, w * q)[i]
      BY <2>2 DEF Block
    <3>2. Numbers(Block(r, s, w * q), w * q)
      BY <1>1, <2>1
    <3>3. QED
      BY <2>2, <3>1, <3>2, SumSame
  <2>7. Numbers(next, w)
    <3>1. \A i \in 1..w : w * q + i \in 1..w * q + w
      BY <2>2
    <3> HIDE DEF f, next
    <3>2. QED
      BY <2>3, <2>4, <3>1 DEF Numbers
  <2>8. ASSUME NEW k \in 1..w
        PROVE  /\ Row(r, s, w, q)[k] \in Nat
               /\ Row(r, s, w, q + 1)[k] = Row(r, s, w, q)[k] + next[k]
    <3> DEFINE old == Column(r, s, w, k, q)
               new == Column(r, s, w, k, q + 1)
    <3>1. Numbers(old, q) /\ Numbers(new, q + 1)
      BY <1>1, <2>1
    <3>2. \A j \in 1..q : new[j] = old[j]
      BY DEF Column
    <3>3. new[q + 1] = r[s + w * q + k]
      <4>1. q + 1 \in 1..q + 1 /\ q + 1 - 1 = q
        OBVIOUS
      <4>2. QED
        BY <4>1 DEF Column
    <3>4. Row(r, s, w, q)[k] = SumTo(old, q)
      BY DEF Row
    <3>5. Row(r, s, w, q + 1)[k] = SumTo(new, q + 1)
      BY DEF Row
    <3> HIDE DEF old, new
    <3>6. SumTo(new, q + 1) = SumTo(new, q) + new[q + 1]
      BY <3>1, SumNext
    <3>7. SumTo(new, q) = SumTo(old, q) /\ SumTo(old, q) \in Nat
      BY <3>1, <3>2, SumSame, SumIsNumber
    <3>8. QED
      BY <2>4, <3>3, <3>4, <3>5, <3>6, <3>7
  <2>9. SumTo(Row(r, s, w, q + 1), w) = SumTo(Row(r, s, w, q), w) + SumTo(next, w)
    <3>1. Numbers(Row(r, s, w, q), w)
      BY <2>8 DEF Numbers
    <3> HIDE DEF next
    <3>2. QED
      BY <2>7, <2>8, <3>1, SumAdds
  <2>10. QED
    BY <1>3, <2>2, <2>5, <2>6, <2>9
<1> HIDE DEF Agree
<1> DEFINE S == {q \in Nat : q <= last => Agree(q)}
<1>4. 0 \in S /\ \A q \in Nat : q \in S => q + 1 \in S
  BY <1>2, <1>3
<1>5. last \in S
  <2> HIDE DEF S
  <2>1. QED
    BY <1>4, NatSets
<1>6. QED
  BY <1>5 DEF Agree

\* A sum over three stretches is the sum of the three.
LEMMA SumOfThree ==
  ASSUME NEW r, NEW g, NEW e, NEW s \in Nat, NEW p \in Nat, NEW d \in Nat,
         NEW m \in Nat, m = s + p, NEW k \in Nat, k = m + d,
         Numbers(r, k),
         Stretch(g, r, s, p), Stretch(e, r, m, d)
  PROVE  SumTo(r, k) = SumTo(r, s) + SumTo(g, p) + SumTo(e, d)
<1>1. SumTo(r, k) = SumTo(r, m) + SumTo(e, d)
  BY SumJoins
<1>2. Numbers(r, m)
  BY DEF Numbers
<1>3. SumTo(r, m) = SumTo(r, s) + SumTo(g, p)
  BY <1>2, SumJoins
<1>4. QED
  BY <1>1, <1>3

\* f is r with the q rounds of w from s + 1 on, p numbers, replaced by a
\* round of their sums.
IsFolded(f, r, s, w, q, p, d) ==
  /\ Makes(w, q, p)
  /\ \A i \in 1..s : f[i] = r[i]
  /\ \A k \in 1..w : f[s + k] = Row(r, s, w, q)[k]
  /\ \A i \in 1..d : f[s + w + i] = r[s + p + i]

\* A sum keeps its value when the rounds of a cycle are replaced by one that
\* adds them up.
LEMMA SumFolds ==
  ASSUME NEW r, NEW f, NEW s \in Nat, NEW w \in Nat, NEW q \in Nat, NEW p \in Nat,
         NEW d \in Nat, NEW n \in Nat, n = s + p + d, NEW h \in Nat, h = s + w + d,
         Numbers(r, n), IsFolded(f, r, s, w, q, p, d)
  PROVE  SumTo(f, h) = SumTo(r, n)
<1>1. /\ Makes(w, q, p) /\ Numbers(r, s + p + d)
      /\ \A i \in 1..s : f[i] = r[i]
      /\ \A k \in 1..w : f[s + k] = Row(r, s, w, q)[k]
      /\ \A i \in 1..d : f[s + w + i] = r[s + p + i]
  BY DEF IsFolded
<1> DEFINE mid == Block(r, s, p)
           row == Row(r, s, w, q)
           end == Block(r, s + p, d)
<1>2. /\ Numbers(r, s) /\ Numbers(r, s + p)
      /\ \A i \in 1..p : r[s + i] \in Nat
  BY <1>1 DEF Numbers
<1>3. /\ \A i \in 1..p : mid[i] = r[s + i]
      /\ \A i \in 1..d : end[i] = r[s + p + i]
  BY DEF Block
<1>4. SumTo(row, w) = SumTo(mid, p)
  <2>1. \A i \in 1..w * q : r[s + i] \in Nat
    BY <1>1, <1>2 DEF Makes
  <2>2. Numbers(Block(r, s, w * q), w * q)
    BY <2>1 DEF Numbers, Block
  <2>3. SumTo(row, w) = SumTo(Block(r, s, w * q), w * q)
    BY <2>2, RowIsBlock
  <2>4. w * q = p
    BY <1>1 DEF Makes
  <2>5. QED
    BY <2>3, <2>4, Zenon
<1>5. \A k \in 1..w : row[k] \in Nat
  <2>1. ASSUME NEW k \in 1..w, NEW j \in 1..q PROVE r[s + w * (j - 1) + k] \in Nat
    <3>1. w * (j - 1) \in Nat /\ w * (j - 1) + k \in 1..p
      BY <1>1, InRounds DEF Makes
    <3>2. s + w * (j - 1) + k = s + (w * (j - 1) + k)
      BY <3>1
    <3>3. QED
      BY <1>2, <3>1, <3>2
  <2>2. \A k \in 1..w : Numbers(Column(r, s, w, k, q), q)
    BY <2>1 DEF Numbers, Column
  <2>3. QED
    BY <2>2, SumIsNumber DEF Row
<1> HIDE DEF mid, row, end
<1>6. SumTo(r, s + p + d) = SumTo(r, s) + SumTo(mid, p) + SumTo(end, d)
  <2>1. PICK m \in Nat : m = s + p
    BY <1>1
  <2>2. PICK k \in Nat : k = m + d /\ k = s + p + d
    BY <2>1
  <2>3. Numbers(r, k) /\ Stretch(mid, r, s, p) /\ Stretch(end, r, m, d)
    BY <1>3, <2>1, <2>2 DEF Stretch
  <2>4. SumTo(r, k) = SumTo(r, s) + SumTo(mid, p) + SumTo(end, d)
    BY <2>1, <2>2, <2>3, SumOfThree
  <2>5. QED
    BY <2>2, <2>4
<1>7. Numbers(f, s + w + d) /\ Numbers(f, s + w)
  <2>1. ASSUME NEW i \in 1..s + w + d PROVE f[i] \in Nat
    <3>1. CASE i <= s
      <4>1. i \in 1..s
        BY <3>1
      <4>2. QED
        BY <1>1, <1>2, <4>1 DEF Numbers
    <3>2. CASE i > s /\ i <= s + w
      <4>1. i - s \in 1..w /\ s + (i - s) = i
        BY <3>2
      <4>2. f[i] = row[i - s]
        BY <1>1, <4>1 DEF row
      <4>3. QED
        BY <1>5, <4>1, <4>2
    <3>3. CASE i > s + w
      <4>1. i - s - w \in 1..d /\ s + w + (i - s - w) = i
        BY <3>3
      <4>2. f[i] = r[s + p + (i - s - w)]
        BY <1>1, <4>1
      <4>3. s + p + (i - s - w) \in 1..s + p + d
        BY <1>1, <4>1
      <4>4. QED
        BY <1>1, <4>2, <4>3 DEF Numbers
    <3>4. QED
      BY <3>1, <3>2, <3>3
  <2>2. 1..s + w \subseteq 1..s + w + d
    OBVIOUS
  <2>3. QED
    BY <2>1, <2>2 DEF Numbers
<1>8. SumTo(f, s + w + d) = SumTo(f, s) + SumTo(row, w) + SumTo(end, d)
  <2>1. PICK m \in Nat : m = s + w
    OBVIOUS
  <2>2. PICK k \in Nat : k = m + d /\ k = s + w + d
    BY <2>1
  <2>3. Numbers(f, k) /\ Stretch(row, f, s, w) /\ Stretch(end, f, m, d)
    <3>1. Numbers(f, k)
      BY <1>7, <2>2
    <3>2. Stretch(row, f, s, w)
      BY <1>1 DEF row, Stretch
    <3>3. Stretch(end, f, m, d)
      BY <1>1, <1>3, <2>1 DEF Stretch
    <3>4. QED
      BY <3>1, <3>2, <3>3
  <2>4. SumTo(f, k) = SumTo(f, s) + SumTo(row, w) + SumTo(end, d)
    BY <2>1, <2>2, <2>3, SumOfThree
  <2>5. QED
    BY <2>2, <2>4
<1>9. SumTo(f, s) = SumTo(r, s)
  BY <1>1, <1>2, SumSame
<1>10. QED
  BY <1>4, <1>6, <1>8, <1>9

-----------------------------------------------------------------------------
(* The cycles of a buffer.                                                 *)

\* Place k of round q is place k of a round.
LEMMA Remainder ==
  ASSUME NEW w \in Nat \ {0}, NEW q \in Nat, NEW k \in 0..w - 1
  PROVE  (w * q + k) % w = k
<1> DEFINE S == {n \in Nat : (w * n + k) % w = k}
<1>1. 0 \in S
  <2>1. w * 0 + k = k /\ k % w = k
    OBVIOUS
  <2>2. QED
    BY <2>1
<1>2. ASSUME NEW n \in Nat, n \in S PROVE n + 1 \in S
  <2>1. PICK x \in Nat : x = w * n + k
    OBVIOUS
  <2>2. w * (n + 1) + k = x + w
    BY <2>1
  <2>3. (x + w) % w = x % w
    BY <2>1
  <2>4. QED
    BY <1>2, <2>1, <2>2, <2>3
<1>3. q \in S
  <2> HIDE DEF S
  <2>1. QED
    BY <1>1, <1>2, NatSets
<1>4. QED
  BY <1>3

\* A remainder is a place of a round.
LEMMA InRound ==
  ASSUME NEW w \in Nat \ {0}, NEW k \in Nat
  PROVE  k % w \in 0..w - 1
OBVIOUS

\* A cycle lies in the buffer, and its copies are worth removing.
LEMMA CycleFacts ==
  ASSUME TypeOK, NEW by, NEW c \in Cycles(by)
  PROVE  /\ c.width \in 1..MaxWidth /\ c.start \in 1..Len(buf)
         /\ c.copies \in 2..Len(buf) /\ Len(buf) \in Nat
         /\ c.width \in Nat \ {0} /\ c.copies \in Nat /\ c.start \in Nat
         /\ c.width * c.copies \in Nat
         /\ c.start + c.width * c.copies - 1 <= Len(buf)
         /\ Removed(c) \in Nat /\ Removed(c) >= c.width
         /\ Removed(c) = c.width * c.copies - c.width
<1>1. Len(buf) \in Nat /\ MaxWidth \in Nat
  BY BufferAssumption DEF TypeOK
<1>2. /\ c.width \in 1..MaxWidth /\ c.start \in 1..Len(buf)
      /\ c.copies \in 2..Len(buf)
      /\ c.start + c.width * c.copies - 1 <= Len(buf)
  BY DEF Cycles, Repeats
<1>3. c.width \in Nat \ {0} /\ c.copies \in Nat /\ c.start \in Nat /\ c.copies >= 2
  BY <1>1, <1>2
<1>4. PICK w \in Nat \ {0}, q \in Nat : w = c.width /\ q = c.copies /\ q >= 2
  BY <1>3
<1>5. /\ w * q \in Nat /\ w * (q - 1) \in Nat /\ w * (q - 1) = w * q - w
      /\ w * (q - 2) \in Nat /\ w * (q - 1) = w * (q - 2) + w
  BY <1>4
<1>6. QED
  BY <1>1, <1>2, <1>3, <1>4, <1>5 DEF Removed

\* Whatever is in a cycle is like the line of the first round it is a copy of.
LEMMA CycleCopies ==
  ASSUME TypeOK, NEW by, NEW c \in Cycles(by), NEW k \in 0..c.width - 1,
         NEW j \in 1..c.copies
  PROVE  /\ c.width * (j - 1) + k \in 0..c.width * c.copies - 1
         /\ c.start + c.width * (j - 1) + k \in 1..Len(buf)
         /\ Same(by, buf[c.start + k], buf[c.start + c.width * (j - 1) + k])
<1>1. /\ c.width \in Nat \ {0} /\ c.copies \in Nat /\ c.start \in Nat \ {0}
      /\ Len(buf) \in Nat /\ c.width * c.copies \in Nat
      /\ c.start + c.width * c.copies - 1 <= Len(buf)
  BY CycleFacts
<1>2. PICK w \in Nat \ {0}, q \in Nat, s \in Nat \ {0} :
        w = c.width /\ q = c.copies /\ s = c.start
  BY <1>1
<1>3. k + 1 \in 1..w /\ j \in 1..q
  BY <1>2
<1>4. w * (j - 1) \in Nat /\ w * (j - 1) + (k + 1) \in 1..w * q /\ w * q \in Nat
  BY <1>2, <1>3, InRounds
<1>5. PICK x \in Nat, p \in Nat : x = w * (j - 1) + k /\ p = w * q
  BY <1>4
<1>6. x \in 0..p - 1
  BY <1>4, <1>5
<1>7. x % w = k
  <2>1. j - 1 \in Nat /\ k \in 0..w - 1
    BY <1>2
  <2>2. QED
    BY <1>5, <2>1, Remainder
<1>8. Same(by, buf[s + (x % w)], buf[s + x])
  BY <1>2, <1>5, <1>6 DEF Cycles, Repeats
<1>9. s + x = s + w * (j - 1) + k
  BY <1>4, <1>5
<1>10. s + x \in 1..Len(buf)
  <2>1. s + p - 1 <= Len(buf)
    BY <1>1, <1>2, <1>5
  <2>2. QED
    BY <1>1, <1>6, <2>1
<1>11. QED
  BY <1>2, <1>5, <1>6, <1>7, <1>8, <1>9, <1>10

\* Fewer copies repeat as well, so a cycle is known by its place and width.
LEMMA RepeatsLess ==
  ASSUME NEW by, NEW s \in Nat, NEW w \in Nat, NEW m \in Nat, NEW n \in Nat,
         m <= n, Len(buf) \in Nat, Repeats(by, s, w, n)
  PROVE  Repeats(by, s, w, m)
<1>1. w * m \in Nat /\ w * n \in Nat /\ w * (n - m) \in Nat
  OBVIOUS
<1>2. w * n = w * m + w * (n - m)
  OBVIOUS
<1>3. PICK p \in Nat, r \in Nat : p = w * m /\ r = w * n /\ p <= r
  BY <1>1, <1>2
<1>4. s + r - 1 <= Len(buf)
  BY <1>3 DEF Repeats
<1>5. s + p - 1 <= Len(buf) /\ 0..p - 1 \subseteq 0..r - 1
  BY <1>3, <1>4
<1>6. QED
  BY <1>3, <1>5 DEF Repeats

\* No two cycles have the same width and start.
LEMMA OneCycleAtAPlace ==
  ASSUME TypeOK, NEW by, NEW c \in Cycles(by), NEW d \in Cycles(by),
         c.width = d.width, c.start = d.start
  PROVE  c = d
<1>1. /\ c.width \in Nat /\ c.start \in Nat /\ c.copies \in Nat
      /\ d.copies \in Nat /\ Len(buf) \in Nat
  BY CycleFacts
<1>2. /\ Repeats(by, c.start, c.width, c.copies)
      /\ ~ Repeats(by, c.start, c.width, c.copies + 1)
      /\ Repeats(by, c.start, c.width, d.copies)
      /\ ~ Repeats(by, c.start, c.width, d.copies + 1)
  BY DEF Cycles
<1>3. c.copies + 1 \in Nat /\ d.copies + 1 \in Nat
  BY <1>1
<1>4. ~ (c.copies + 1 <= d.copies)
  BY <1>1, <1>2, <1>3, RepeatsLess
<1>5. ~ (d.copies + 1 <= c.copies)
  BY <1>1, <1>2, <1>3, RepeatsLess
<1>6. c.copies = d.copies
  BY <1>1, <1>4, <1>5
<1>7. QED
  BY <1>6 DEF Cycles

\* The search finds one of the cycles it looks through.
LEMMA OneIsFirst ==
  ASSUME TypeOK, NEW by, NEW C, C \subseteq Cycles(by), C # {}
  PROVE  \E c \in C : \A d \in C : c = d \/ SearchedBefore(c, d)
<1>1. \A c \in C : c.width \in Nat /\ c.start \in Nat
  BY CycleFacts
<1> DEFINE W == {c.width : c \in C}
<1>2. W \subseteq Nat /\ W # {}
  BY <1>1
<1>3. PICK w \in W : \A x \in W : w <= x
  <2> HIDE DEF W
  <2>1. QED
    BY <1>2, LeastOfNaturals
<1> DEFINE S == {c.start : c \in {e \in C : e.width = w}}
<1>4. S \subseteq Nat /\ S # {}
  BY <1>1, <1>3
<1>5. PICK s \in S : \A x \in S : s <= x
  <2> HIDE DEF S
  <2>1. QED
    BY <1>4, LeastOfNaturals
<1>6. PICK c \in C : c.width = w /\ c.start = s
  BY <1>5
<1>7. ASSUME NEW d \in C PROVE c = d \/ SearchedBefore(c, d)
  <2>1. w <= d.width /\ (d.width = w => s <= d.start)
    BY <1>3, <1>5
  <2>2. d.width = w /\ d.start = s => c = d
    BY <1>6, OneCycleAtAPlace
  <2>3. QED
    BY <1>1, <1>6, <2>1, <2>2 DEF SearchedBefore
<1>8. QED
  BY <1>6, <1>7

\* The search for equal lines ends with a cycle, where there is one.
LEMMA FirstIsACycle ==
  ASSUME TypeOK, Cycles("text") # {}
  PROVE  FirstCycle \in Cycles("text")
<1>1. \E c \in Cycles("text") :
        \A d \in Cycles("text") : c = d \/ SearchedBefore(c, d)
  BY OneIsFirst
<1>2. QED
  BY <1>1 DEF FirstCycle

\* So does the search for the shape that saves most.
LEMMA BestIsACycle ==
  ASSUME TypeOK, Cycles("shape") # {}
  PROVE  BestCycle \in Cycles("shape")
<1>1. \A c \in Cycles("shape") :
        Removed(c) \in Nat /\ Removed(c) <= Len(buf) /\ Len(buf) \in Nat
  <2>1. ASSUME NEW c \in Cycles("shape")
        PROVE  Removed(c) \in Nat /\ Removed(c) <= Len(buf) /\ Len(buf) \in Nat
    BY CycleFacts
  <2>2. QED
    BY <2>1
<1> DEFINE T == {Len(buf) - Removed(c) : c \in Cycles("shape")}
<1>2. T \subseteq Nat /\ T # {}
  BY <1>1
<1>3. PICK t \in T : \A x \in T : t <= x
  <2> HIDE DEF T
  <2>1. QED
    BY <1>2, LeastOfNaturals
<1>4. PICK b \in Cycles("shape") : t = Len(buf) - Removed(b)
  BY <1>3
<1>5. ASSUME NEW d \in Cycles("shape") PROVE Removed(b) >= Removed(d)
  <2>1. t <= Len(buf) - Removed(d)
    BY <1>3
  <2>2. QED
    BY <1>1, <1>4, <2>1
<1> DEFINE C == {d \in Cycles("shape") : Removed(d) = Removed(b)}
<1>6. PICK c \in C : \A d \in C : c = d \/ SearchedBefore(c, d)
  <2>1. C \subseteq Cycles("shape") /\ C # {}
    BY <1>4
  <2> HIDE DEF C
  <2>2. QED
    BY <2>1, OneIsFirst
<1>7. \A d \in Cycles("shape") :
        \/ Removed(c) > Removed(d)
        \/ Removed(c) = Removed(d) /\ (c = d \/ SearchedBefore(c, d))
  BY <1>1, <1>5, <1>6
<1>8. \E e \in Cycles("shape") : \A d \in Cycles("shape") :
        \/ Removed(e) > Removed(d)
        \/ Removed(e) = Removed(d) /\ (e = d \/ SearchedBefore(e, d))
  BY <1>6, <1>7
<1>9. QED
  BY <1>8 DEF BestCycle

\* Two equal rounds are a cycle, of as many copies as there are.
LEMMA TwoRoundsAreACycle ==
  ASSUME TypeOK, NEW by, NEW s \in 1..Len(buf), NEW w \in 1..MaxWidth,
         Repeats(by, s, w, 2)
  PROVE  Cycles(by) # {}
<1>1. Len(buf) \in Nat /\ s \in Nat \ {0} /\ w \in Nat \ {0}
  BY BufferAssumption DEF TypeOK
<1> DEFINE T == {q \in Nat : q >= 2 /\ ~ Repeats(by, s, w, q + 1)}
<1>2. ASSUME NEW q \in Nat, Repeats(by, s, w, q) PROVE q <= Len(buf)
  <2>1. s + w * q - 1 <= Len(buf)
    BY <1>2 DEF Repeats
  <2>2. w * q = q + (w - 1) * q /\ (w - 1) * q \in Nat
    BY <1>1
  <2>3. QED
    BY <1>1, <2>1, <2>2
<1>3. T \subseteq Nat /\ T # {}
  <2>1. Len(buf) + 2 \in T
    BY <1>1, <1>2
  <2>2. QED
    BY <2>1
<1>4. PICK q \in T : \A x \in T : q <= x
  <2> HIDE DEF T
  <2>1. QED
    BY <1>3, LeastOfNaturals
<1>5. q \in Nat /\ q >= 2 /\ ~ Repeats(by, s, w, q + 1)
  BY <1>4
<1>6. Repeats(by, s, w, q)
  <2>1. CASE q = 2
    BY <2>1
  <2>2. CASE q > 2
    <3>1. q - 1 \in Nat /\ q - 1 >= 2 /\ q - 1 + 1 = q /\ ~ (q <= q - 1)
      BY <1>5, <2>2
    <3>2. q - 1 \notin T
      BY <1>4, <3>1
    <3>3. QED
      BY <3>1, <3>2
  <2>3. QED
    BY <1>5, <2>1, <2>2
<1>7. q \in 2..Len(buf)
  BY <1>1, <1>2, <1>5, <1>6
<1>8. [width |-> w, start |-> s, copies |-> q] \in Cycles(by)
  BY <1>5, <1>6, <1>7 DEF Cycles
<1>9. QED
  BY <1>8

-----------------------------------------------------------------------------
(* What a fold leaves.                                                     *)

\* What the type says of the buffer, slot by slot.
LEMMA BufferIs ==
  ASSUME TypeOK
  PROVE  /\ Len(buf) \in Nat /\ Len(buf) <= Slots /\ Slots \in Nat \ {0}
         /\ buf \in [1..Len(buf) -> Events]
         /\ \A i \in 1..Len(buf) :
              /\ buf[i] \in Events
              /\ buf[i].line \in Lines \cup {Notice} /\ buf[i].seq \in Nat \ {0}
              /\ buf[i].time \in Nat /\ buf[i].repeats \in Nat \ {0}
              /\ buf[i].line.value \in 0..CrcMod - 1
<1>1. buf \in Seq(Events) /\ Len(buf) <= Slots
  BY DEF TypeOK
<1>2. Len(buf) \in Nat /\ buf \in [1..Len(buf) -> Events]
  BY <1>1, LenProperties
<1>3. ASSUME NEW e \in Events
      PROVE  /\ e.line \in Lines \cup {Notice} /\ e.seq \in Nat \ {0}
             /\ e.time \in Nat /\ e.repeats \in Nat \ {0}
             /\ e.line.value \in 0..CrcMod - 1
  BY BufferAssumption DEF Events, Lines, Notice
<1>4. QED
  BY <1>1, <1>2, <1>3, BufferAssumption

\* The copies of a line are events of the buffer.
LEMMA CopiesAre ==
  ASSUME TypeOK, NEW by, NEW c \in Cycles(by), NEW k \in 0..c.width - 1
  PROVE  /\ Copies(c, k) \in Seq(Events) /\ Len(Copies(c, k)) = c.copies
         /\ \A j \in 1..c.copies :
              /\ Copies(c, k)[j] = buf[c.start + c.width * (j - 1) + k]
              /\ Copies(c, k)[j] \in Events
<1>1. c.copies \in Nat
  BY CycleFacts
<1>2. ASSUME NEW j \in 1..c.copies
      PROVE  buf[c.start + c.width * (j - 1) + k] \in Events
  BY CycleCopies, BufferIs
<1>3. Copies(c, k) \in [1..c.copies -> Events]
  BY <1>2 DEF Copies
<1>4. \A j \in 1..c.copies :
        Copies(c, k)[j] = buf[c.start + c.width * (j - 1) + k]
  BY DEF Copies
<1> HIDE DEF Copies
<1>5. Copies(c, k) \in Seq(Events) /\ Len(Copies(c, k)) = c.copies
  BY <1>1, <1>3
<1>6. QED
  BY <1>3, <1>4, <1>5

\* The copies' counts add up to what the merged line stands for.
LEMMA TotalIs ==
  ASSUME TypeOK, NEW by, NEW c \in Cycles(by), NEW k \in 0..c.width - 1,
         NEW r, \A j \in 1..c.copies :
                  r[c.start + c.width * (j - 1) + k]
                    = buf[c.start + c.width * (j - 1) + k].repeats
  PROVE  /\ Total(Copies(c, k)) \in Nat \ {0}
         /\ Total(Copies(c, k)) =
              SumTo(Column(r, c.start - 1, c.width, k + 1, c.copies), c.copies)
<1> DEFINE f == [j \in 1..Len(Copies(c, k)) |-> Copies(c, k)[j].repeats]
           g == Column(r, c.start - 1, c.width, k + 1, c.copies)
<1>1. /\ c.copies \in Nat /\ c.copies >= 2 /\ c.start \in Nat
      /\ c.width \in Nat
  BY CycleFacts
<1>2. Total(Copies(c, k)) = SumTo(f, c.copies)
  BY CopiesAre DEF Total
<1>3. ASSUME NEW j \in 1..c.copies
      PROVE  f[j] \in Nat \ {0} /\ g[j] = f[j]
  <2>1. /\ f[j] = buf[c.start + c.width * (j - 1) + k].repeats
        /\ f[j] \in Nat \ {0}
    <3>1. /\ Len(Copies(c, k)) = c.copies
          /\ Copies(c, k)[j] = buf[c.start + c.width * (j - 1) + k]
          /\ Copies(c, k)[j].repeats \in Nat \ {0}
      BY CopiesAre DEF Events
    <3>2. QED
      BY <3>1
  <2>2. PICK x \in Int : x = c.width * (j - 1)
    BY <1>1
  <2>3. c.start - 1 + x + (k + 1) = c.start + x + k
    BY <1>1
  <2>4. g[j] = r[c.start + c.width * (j - 1) + k]
    BY <2>2, <2>3 DEF Column
  <2>5. QED
    BY <2>1, <2>4
<1> HIDE DEF f, g
<1>4. Numbers(f, c.copies)
  BY <1>3 DEF Numbers
<1>5. SumTo(g, c.copies) = SumTo(f, c.copies)
  BY <1>1, <1>3, <1>4, SumSame
<1>6. SumTo(f, c.copies) \in Nat \ {0}
  <2>1. PICK n \in Nat : c.copies = n + 1
    <3>1. c.copies - 1 \in Nat /\ c.copies = c.copies - 1 + 1
      BY <1>1
    <3>2. QED
      BY <3>1
  <2>2. Numbers(f, n) /\ Numbers(f, n + 1)
    BY <1>4, <2>1 DEF Numbers
  <2>3. SumTo(f, n) \in Nat /\ SumTo(f, n + 1) = SumTo(f, n) + f[n + 1]
    BY <2>2, SumIsNumber, SumNext
  <2>4. f[n + 1] \in Nat \ {0}
    BY <1>3, <2>1
  <2>5. QED
    BY <2>1, <2>3, <2>4
<1>7. QED
  BY <1>2, <1>5, <1>6 DEF g

\* A checksum is one, whatever the values are.
LEMMA CrcIsOne ==
  ASSUME NEW copies, NEW n \in Nat, Len(copies) = n,
         \A i \in 1..n : copies[i].line.value \in Nat
  PROVE  Crc(copies) \in 0..CrcMod - 1
<1> DEFINE value(i) == copies[i].line.value
           Follows(m, s) ==
             /\ s \in [0..m -> 0..CrcMod - 1]
             /\ \A i \in 0..m :
                  s[i] = IF i = 0 THEN 0 ELSE (2 * s[i - 1] + value(i)) % CrcMod
           Some(m) == \E s : Follows(m, s)
           S == {m \in Nat : m <= n => Some(m)}
<1>1. CrcMod \in Nat \ {0}
  BY BufferAssumption
<1>2. Some(0)
  <2>1. Follows(0, [i \in 0..0 |-> 0])
    BY <1>1
  <2>2. QED
    BY <2>1
<1>3. ASSUME NEW m \in Nat, Some(m), m + 1 <= n PROVE Some(m + 1)
  <2>1. PICK s : Follows(m, s)
    BY <1>3
  <2> DEFINE x == (2 * s[m] + value(m + 1)) % CrcMod
             t == [i \in 0..m + 1 |-> IF i = m + 1 THEN x ELSE s[i]]
  <2>2. x \in 0..CrcMod - 1
    <3>1. value(m + 1) \in Nat /\ s[m] \in 0..CrcMod - 1
      BY <1>3, <2>1
    <3>2. PICK y \in Nat : y = 2 * s[m] + value(m + 1)
      BY <1>1, <3>1
    <3>3. y % CrcMod \in 0..CrcMod - 1
      BY <1>1
    <3>4. QED
      BY <3>2, <3>3
  <2>3. t \in [0..m + 1 -> 0..CrcMod - 1]
    <3> HIDE DEF x
    <3>1. QED
      BY <2>1, <2>2
  <2>4. ASSUME NEW i \in 0..m + 1
        PROVE  t[i] = IF i = 0 THEN 0 ELSE (2 * t[i - 1] + value(i)) % CrcMod
    <3>1. CASE i = m + 1
      <4>1. t[i] = x /\ t[i - 1] = s[m] /\ i # 0
        BY <3>1
      <4>2. QED
        BY <3>1, <4>1
    <3>2. CASE i # m + 1
      <4>1. i \in 0..m /\ (i # 0 => i - 1 \in 0..m)
        BY <3>2
      <4>2. s[i] = IF i = 0 THEN 0 ELSE (2 * s[i - 1] + value(i)) % CrcMod
        BY <2>1, <4>1
      <4>3. t[i] = s[i] /\ (i # 0 => t[i - 1] = s[i - 1])
        BY <4>1
      <4>4. QED
        BY <4>2, <4>3
    <3>3. QED
      BY <3>1, <3>2
  <2>5. Follows(m + 1, t)
    <3> HIDE DEF t
    <3>1. QED
      BY <2>3, <2>4
  <2> HIDE DEF t
  <2>6. QED
    BY <2>5
<1>4. PICK s : Follows(n, s)
  <2>1. n \in S
    <3> HIDE DEF Some
    <3>1. 0 \in S /\ \A m \in Nat : m \in S => m + 1 \in S
      BY <1>2, <1>3
    <3> HIDE DEF S
    <3>2. QED
      BY <3>1, NatSets
  <2>2. QED
    BY <2>1
<1> DEFINE Is(d) ==
      d = [i \in 0..n |-> IF i = 0 THEN 0
                          ELSE (2 * d[i - 1] + copies[i].line.value) % CrcMod]
           d == CHOOSE d : Is(d)
<1>5. Is(d)
  <2>1. Is(s)
    BY <1>4
  <2>2. \E e : Is(e)
    BY <2>1
  <2> HIDE DEF Is
  <2>3. QED
    BY <2>2
<1>6. Crc(copies) = d[n]
  BY DEF Crc
<1> HIDE DEF d
<1> DEFINE P == {i \in Nat : i <= n => d[i] = s[i]}
<1>7. 0 \in P
  BY <1>4, <1>5
<1>8. ASSUME NEW i \in Nat, i \in P PROVE i + 1 \in P
  <2> SUFFICES ASSUME i + 1 <= n PROVE d[i + 1] = s[i + 1]
    OBVIOUS
  <2>1. i + 1 \in 0..n /\ i + 1 # 0 /\ i + 1 - 1 = i /\ d[i] = s[i]
    BY <1>8
  <2>2. d[i + 1] = (2 * d[i] + copies[i + 1].line.value) % CrcMod
    BY <1>5, <2>1
  <2>3. s[i + 1] = (2 * s[i] + copies[i + 1].line.value) % CrcMod
    BY <1>4, <2>1
  <2>4. QED
    BY <2>1, <2>2, <2>3
<1>9. n \in P
  <2> HIDE DEF P
  <2>1. QED
    BY <1>7, <1>8, NatSets
<1>10. s[n] \in 0..CrcMod - 1
  BY <1>4
<1>11. QED
  BY <1>6, <1>9, <1>10

\* What becomes of a line of the first round.
LEMMA MergedIs ==
  ASSUME TypeOK, NEW by, NEW c \in Cycles(by), NEW k \in 0..c.width - 1
  PROVE  /\ Merged(c, k) \in Events
         /\ Merged(c, k).line = buf[c.start + k].line
         /\ Merged(c, k).seq = buf[c.start + k].seq
         /\ Merged(c, k).repeats = Total(Copies(c, k))
<1>1. /\ c.copies \in Nat /\ c.copies >= 2 /\ c.start \in Nat \ {0}
      /\ c.width \in Nat \ {0} /\ Len(buf) \in Nat
      /\ c.width * c.copies \in Nat
      /\ c.start + c.width * c.copies - 1 \in 1..Len(buf)
  <2>1. /\ c.copies \in Nat /\ c.start \in Nat \ {0} /\ Len(buf) \in Nat
        /\ c.copies >= 2
        /\ c.width \in Nat \ {0} /\ c.width * c.copies \in Nat
        /\ c.start + c.width * c.copies - 1 <= Len(buf)
        /\ Removed(c) \in Nat /\ Removed(c) = c.width * c.copies - c.width
    BY CycleFacts
  <2>2. PICK p \in Nat : p = c.width * c.copies
    BY <2>1
  <2>3. p >= 1
    BY <2>1, <2>2
  <2>4. c.start + p - 1 <= Len(buf)
    BY <2>1, <2>2
  <2>5. c.start + p - 1 \in 1..Len(buf)
    BY <2>1, <2>3, <2>4
  <2>6. QED
    BY <2>1, <2>2, <2>5
<1>2. buf[c.start + k] \in Events
  <2>1. 1 \in 1..c.copies /\ c.width * (1 - 1) = 0
    BY <1>1
  <2>2. c.start + c.width * (1 - 1) + k \in 1..Len(buf)
    BY <2>1, CycleCopies
  <2>3. c.start + k \in 1..Len(buf)
    BY <1>1, <2>1, <2>2
  <2>4. QED
    BY <2>3, BufferIs
<1>3. buf[c.start + c.width * c.copies - 1].time \in Nat
  BY <1>1, BufferIs
<1>4. Total(Copies(c, k)) \in Nat \ {0}
  <2> DEFINE r == [i \in 1..Len(buf) |-> buf[i].repeats]
  <2>1. ASSUME NEW j \in 1..c.copies
        PROVE  r[c.start + c.width * (j - 1) + k]
                 = buf[c.start + c.width * (j - 1) + k].repeats
    BY CycleCopies
  <2> HIDE DEF r
  <2>2. QED
    BY <2>1, TotalIs
<1>5. buf[c.start + c.width * (c.copies - 1) + k].at \in Nat
  <2>1. c.copies \in 1..c.copies
    BY <1>1
  <2>2. buf[c.start + c.width * (c.copies - 1) + k] \in Events
    BY <2>1, CopiesAre
  <2>3. QED
    BY <2>2 DEF Events
<1>6. PICK e \in Events, r \in Nat \ {0}, l \in Nat, a \in Nat :
        /\ e = buf[c.start + k] /\ r = Total(Copies(c, k))
        /\ l = buf[c.start + c.width * c.copies - 1].time
        /\ a = buf[c.start + c.width * (c.copies - 1) + k].at
  BY <1>2, <1>3, <1>4, <1>5
<1> DEFINE f == [e EXCEPT !.repeats = r, !.last = l, !.at = a]
<1>7. f \in Events /\ f.line = e.line /\ f.seq = e.seq /\ f.repeats = r
  BY DEF Events
<1>8. Merged(c, k) = f
  BY <1>6 DEF Merged
<1>9. QED
  BY <1>6, <1>7, <1>8

\* A summary is a line, takes the first copy's place and counts them all.
LEMMA SummaryIs ==
  ASSUME TypeOK, NEW by, NEW c \in Cycles(by), NEW k \in 0..c.width - 1,
         buf[c.start + k].line \in Lines
  PROVE  /\ Summarised(c, k) \in Events
         /\ Summarised(c, k).line \in Lines
         /\ Summarised(c, k).line.summary = "yes"
         /\ Summarised(c, k).seq = buf[c.start + k].seq
         /\ Summarised(c, k).repeats = Total(Copies(c, k))
<1>1. Crc(Copies(c, k)) \in 0..CrcMod - 1
  <2>1. \A j \in 1..c.copies : Copies(c, k)[j].line.value \in Nat
    <3>1. ASSUME NEW j \in 1..c.copies
          PROVE  Copies(c, k)[j].line.value \in Nat
      <4>1. Copies(c, k)[j] \in Events
        BY CopiesAre
      <4>2. QED
        BY <4>1, BufferAssumption DEF Events, Lines, Notice
    <3>2. QED
      BY <3>1
  <2>2. c.copies \in Nat /\ Len(Copies(c, k)) = c.copies
    BY CycleFacts, CopiesAre
  <2>3. QED
    BY <2>1, <2>2, CrcIsOne
<1> DEFINE l == [Merged(c, k).line EXCEPT !.value = Crc(Copies(c, k)),
                                          !.summary = "yes"]
<1>2. Merged(c, k) \in Events /\ Merged(c, k).line \in Lines
  BY MergedIs
<1>3. l \in Lines /\ l.summary = "yes"
  BY <1>1, <1>2 DEF Lines
<1>4. Summarised(c, k) = [Merged(c, k) EXCEPT !.line = l]
  BY DEF Summarised
<1> HIDE DEF l
<1>5. ASSUME NEW e \in Events
      PROVE  /\ [e EXCEPT !.line = l] \in Events
             /\ [e EXCEPT !.line = l].line = l
             /\ [e EXCEPT !.line = l].seq = e.seq
             /\ [e EXCEPT !.line = l].repeats = e.repeats
  BY <1>3 DEF Events
<1>6. QED
  BY <1>2, <1>3, <1>4, <1>5, MergedIs

\* The buffer after a fold.
LEMMA FoldedIs ==
  ASSUME TypeOK, NEW by, NEW c \in Cycles(by), NEW round,
         \A k \in 0..c.width - 1 : round[k] \in Events
  PROVE  /\ Folded(c, round) \in Seq(Events)
         /\ Len(Folded(c, round)) \in Nat
         /\ Len(Folded(c, round)) = Len(buf) - Removed(c)
         /\ Len(Folded(c, round)) >= c.start + c.width - 1
         /\ Len(Folded(c, round)) + 1 <= Len(buf)
         /\ \A i \in 1..Len(Folded(c, round)) :
              /\ i < c.start => Folded(c, round)[i] = buf[i]
              /\ i >= c.start /\ i < c.start + c.width =>
                   Folded(c, round)[i] = round[i - c.start]
              /\ i >= c.start + c.width =>
                   /\ Folded(c, round)[i] = buf[i + Removed(c)]
                   /\ i + Removed(c) \in 1..Len(buf)
<1> DEFINE F == Folded(c, round)
<1>1. PICK n \in Nat, s \in Nat, w \in Nat, m \in Nat :
        /\ n = Len(buf) /\ s = c.start /\ w = c.width /\ m = Removed(c)
        /\ s >= 1 /\ w >= 1 /\ m >= w /\ s + w + m - 1 <= n
  <2>1. /\ Len(buf) \in Nat /\ c.start \in Nat \ {0} /\ c.width \in Nat \ {0}
        /\ Removed(c) \in Nat /\ Removed(c) >= c.width
        /\ c.width * c.copies \in Nat
        /\ c.start + c.width * c.copies - 1 <= Len(buf)
        /\ Removed(c) = c.width * c.copies - c.width
    BY CycleFacts
  <2>2. PICK p \in Nat : p = c.width * c.copies
    BY <2>1
  <2>3. QED
    BY <2>1, <2>2
<1>2. PICK h \in Nat : h = n - m
  BY <1>1
<1>3. F = [i \in 1..h |->
             IF i < s THEN buf[i]
             ELSE IF i < s + w THEN round[i - s] ELSE buf[i + m]]
  BY <1>1, <1>2 DEF Folded
<1>4. ASSUME NEW i \in 1..h
      PROVE  /\ i < s => buf[i] \in Events
             /\ i >= s /\ i < s + w => round[i - s] \in Events
             /\ i >= s + w => i + m \in 1..n /\ buf[i + m] \in Events
  <2>1. i < s => i \in 1..n
    BY <1>1, <1>2
  <2>2. ASSUME i >= s, i < s + w PROVE i - s \in 0..w - 1
    BY <2>2
  <2>3. i + m \in 1..n
    BY <1>1, <1>2
  <2>4. QED
    BY <1>1, <2>1, <2>2, <2>3, BufferIs
<1>5. F \in [1..h -> Events]
  BY <1>1, <1>3, <1>4
<1>6. F \in Seq(Events) /\ Len(F) = h
  <2> HIDE DEF F
  <2>1. QED
    BY <1>2, <1>5
<1>7. \A i \in 1..h :
        /\ i < s => F[i] = buf[i]
        /\ i >= s /\ i < s + w => F[i] = round[i - s]
        /\ i >= s + w => F[i] = buf[i + m] /\ i + m \in 1..n
  BY <1>1, <1>3, <1>4
<1>8. QED
  <2> HIDE DEF F
  <2>1. Len(F) \in Nat /\ Len(F) = n - m /\ Len(F) >= s + w - 1 /\ Len(F) + 1 <= n
    BY <1>1, <1>2, <1>6
  <2>2. QED
    BY <1>1, <1>6, <1>7, <2>1 DEF F

-----------------------------------------------------------------------------
(* What a fold keeps: the order, the beginning, and the counts.            *)

AllLines(b) == \A i \in 1..Len(b) : b[i].line \in Lines
Ordered(b, n) ==
  /\ \A i \in 1..Len(b) : b[i].seq < n
  /\ \A i, j \in 1..Len(b) : i < j => b[i].seq < b[j].seq

Weights(b, lines) ==
  [i \in 1..Len(b) |-> IF b[i].line \in lines THEN b[i].repeats ELSE 0]
CountedIn(b, lines) == SumTo(Weights(b, lines), Len(b))

\* Every slot counts some number of events.
LEMMA WeightsAre ==
  ASSUME NEW b \in Seq(Events), NEW lines
  PROVE  Len(b) \in Nat /\ Numbers(Weights(b, lines), Len(b))
<1>1. Len(b) \in Nat /\ \A i \in 1..Len(b) : b[i] \in Events
  BY LenProperties
<1>2. \A i \in 1..Len(b) : b[i].repeats \in Nat
  BY <1>1 DEF Events
<1>3. QED
  BY <1>1, <1>2 DEF Numbers, Weights

\* Counted is the sum of the weights.
LEMMA CountedIs ==
  ASSUME TypeOK, NEW lines
  PROVE  Counted(lines) = CountedIn(buf, lines) /\ Counted(lines) \in Nat
<1>1. buf \in Seq(Events)
  BY DEF TypeOK
<1>2. Len(buf) \in Nat /\ Numbers(Weights(buf, lines), Len(buf))
  BY <1>1, WeightsAre
<1> DEFINE f == [i \in 1..Len(buf) |->
                   IF i \in Holding(lines) THEN buf[i].repeats ELSE 0]
<1>3. \A i \in 1..Len(buf) : f[i] = Weights(buf, lines)[i]
  BY DEF Holding, Weights
<1>4. Counted(lines) = SumTo(f, Len(buf))
  BY DEF Counted
<1> HIDE DEF f
<1>5. QED
  BY <1>2, <1>3, <1>4, SumSame, SumIsNumber DEF CountedIn

\* A fold that neither puts lines among those that are counted nor takes any
\* away keeps their count.
LEMMA FoldCounts ==
  ASSUME TypeOK, NEW by, NEW c \in Cycles(by), NEW round, NEW lines,
         \A k \in 0..c.width - 1 :
           /\ round[k] \in Events
           /\ round[k].repeats = Total(Copies(c, k))
           /\ \A j \in 1..c.copies :
                buf[c.start + c.width * (j - 1) + k].line \in lines
                  <=> round[k].line \in lines
  PROVE  CountedIn(Folded(c, round), lines) = CountedIn(buf, lines)
<1> DEFINE F == Folded(c, round)
           r == Weights(buf, lines)
           f == Weights(F, lines)
<1> HIDE DEF F, r, f
<1>1. /\ Len(buf) \in Nat /\ c.start \in Nat \ {0} /\ c.width \in Nat \ {0}
      /\ c.copies \in Nat /\ Removed(c) \in Nat /\ Removed(c) >= c.width
      /\ c.width * c.copies \in Nat
      /\ c.start + c.width * c.copies - 1 <= Len(buf)
      /\ Removed(c) = c.width * c.copies - c.width
  BY CycleFacts
<1>2. PICK w \in Nat : w = c.width
  BY <1>1
<1>3. PICK q \in Nat : q = c.copies
  BY <1>1
<1>4. PICK p \in Nat : p = c.width * c.copies
  BY <1>1
<1>5. PICK m \in Nat : m = Removed(c)
  BY <1>1
<1>6. PICK n \in Nat : n = Len(buf)
  BY <1>1
<1>7. PICK a \in Nat, s \in Nat : a = c.start /\ a = s + 1
  <2>1. PICK a \in Nat \ {0} : a = c.start
    BY <1>1
  <2>2. PICK s \in Nat : s = a - 1
    OBVIOUS
  <2>3. a \in Nat /\ a = s + 1
    BY <2>2
  <2>4. QED
    BY <2>1, <2>3
<1>8. PICK d \in Nat : n = s + p + d
  <2>1. c.start + p - 1 <= n
    BY <1>1, <1>4, <1>6
  <2>2. n - (s + p) \in Nat /\ n = s + p + (n - (s + p))
    BY <1>7, <2>1
  <2>3. QED
    BY <2>2
<1>9. p = m + w /\ Makes(w, q, p)
  BY <1>1, <1>2, <1>3, <1>4, <1>5 DEF Makes
<1>10. /\ F \in Seq(Events) /\ Len(F) = s + w + d
       /\ \A i \in 1..s + w + d :
            /\ i < a => F[i] = buf[i]
            /\ i >= a /\ i < a + w => F[i] = round[i - a]
            /\ i >= a + w => F[i] = buf[i + m]
  <2>1. \A k \in 0..c.width - 1 : round[k] \in Events
    OBVIOUS
  <2>2. n - m = s + w + d
    BY <1>8, <1>9
  <2>3. F \in Seq(Events) /\ Len(F) = s + w + d
    BY <1>5, <1>6, <2>1, <2>2, FoldedIs DEF F
  <2>4. \A i \in 1..Len(F) :
          /\ i < c.start => F[i] = buf[i]
          /\ i >= c.start /\ i < c.start + c.width =>
               F[i] = round[i - c.start]
          /\ i >= c.start + c.width => F[i] = buf[i + m]
    BY <1>5, <2>1, FoldedIs DEF F
  <2>5. QED
    BY <1>2, <1>7, <2>3, <2>4
<1>11. \A i \in 1..n : r[i] = IF buf[i].line \in lines THEN buf[i].repeats ELSE 0
  BY <1>6 DEF r, Weights
<1>12. \A i \in 1..Len(F) : f[i] = IF F[i].line \in lines THEN F[i].repeats ELSE 0
  BY DEF f, Weights
<1>13. Numbers(r, n)
  <2>1. buf \in Seq(Events)
    BY DEF TypeOK
  <2>2. QED
    BY <1>6, <2>1, WeightsAre DEF r
<1>14. ASSUME NEW i \in 1..s PROVE f[i] = r[i]
  <2>1. i \in 1..s + w + d /\ i \in 1..n /\ i < a
    BY <1>7, <1>8
  <2>2. F[i] = buf[i]
    BY <1>10, <2>1
  <2>3. QED
    BY <1>10, <1>11, <1>12, <2>1, <2>2
<1>15. ASSUME NEW i \in 1..d PROVE f[s + w + i] = r[s + p + i]
  <2>1. /\ s + w + i \in 1..s + w + d /\ s + p + i \in 1..n
        /\ s + w + i >= a + w /\ s + w + i + m = s + p + i
    BY <1>7, <1>8, <1>9
  <2>2. F[s + w + i] = buf[s + p + i]
    BY <1>10, <2>1
  <2>3. s + w + i \in 1..Len(F)
    BY <1>10, <2>1
  <2>4. QED
    BY <1>11, <1>12, <2>1, <2>2, <2>3
<1>16. ASSUME NEW k \in 1..w PROVE f[s + k] = Row(r, s, w, q)[k]
  <2>1. /\ s + k \in 1..s + w + d /\ s + k >= a /\ s + k < a + w
        /\ s + k - a = k - 1 /\ k - 1 \in 0..w - 1 /\ a - 1 = s /\ k - 1 + 1 = k
    BY <1>7
  <2>2. k - 1 \in 0..c.width - 1 /\ c.start - 1 = s
    BY <1>2, <1>7, <2>1
  <2>3. F[s + k] = round[k - 1]
    BY <1>10, <2>1
  <2>4. f[s + k] = IF round[k - 1].line \in lines
                   THEN Total(Copies(c, k - 1)) ELSE 0
    BY <1>10, <1>12, <2>1, <2>2, <2>3
  <2>5. Row(r, s, w, q)[k] = SumTo(Column(r, s, w, k, q), q)
    BY DEF Row
  <2>6. ASSUME NEW j \in 1..c.copies
        PROVE  r[c.start + c.width * (j - 1) + (k - 1)]
                 = IF round[k - 1].line \in lines
                   THEN buf[c.start + c.width * (j - 1) + (k - 1)].repeats
                   ELSE 0
    <3>1. c.start + c.width * (j - 1) + (k - 1) \in 1..n
      BY <1>6, <2>2, CycleCopies
    <3>2. buf[c.start + c.width * (j - 1) + (k - 1)].line \in lines
            <=> round[k - 1].line \in lines
      BY <2>2
    <3>3. QED
      BY <1>11, <3>1, <3>2
  <2>7. CASE round[k - 1].line \in lines
    <3>1. \A j \in 1..c.copies :
            r[c.start + c.width * (j - 1) + (k - 1)]
              = buf[c.start + c.width * (j - 1) + (k - 1)].repeats
      BY <2>6, <2>7
    <3>2. Total(Copies(c, k - 1)) =
            SumTo(Column(r, c.start - 1, c.width, k - 1 + 1, c.copies), c.copies)
      BY <2>2, <3>1, TotalIs
    <3>3. QED
      BY <1>2, <1>3, <2>1, <2>2, <2>4, <2>5, <2>7, <3>2
  <2>8. CASE round[k - 1].line \notin lines
    <3>1. ASSUME NEW j \in 1..q PROVE Column(r, s, w, k, q)[j] = 0
      <4>1. r[c.start + c.width * (j - 1) + (k - 1)] = 0
        BY <1>3, <2>6, <2>8
      <4>2. PICK x \in Int : x = c.width * (j - 1)
        BY <1>1
      <4>3. c.start + x + (k - 1) = s + x + k
        BY <1>7
      <4>4. r[s + w * (j - 1) + k] = 0
        BY <1>2, <4>1, <4>2, <4>3
      <4>5. QED
        BY <4>4 DEF Column
    <3>2. SumTo(Column(r, s, w, k, q), q) = 0
      BY <3>1, SumOfZeros
    <3>3. QED
      BY <2>4, <2>5, <2>8, <3>2
  <2>9. QED
    BY <2>7, <2>8
<1>17. IsFolded(f, r, s, w, q, p, d)
  BY <1>9, <1>14, <1>15, <1>16 DEF IsFolded
<1>18. SumTo(f, Len(F)) = SumTo(r, n)
  <2>1. PICK h \in Nat : h = s + w + d
    OBVIOUS
  <2>2. SumTo(f, h) = SumTo(r, n)
    BY <1>8, <1>13, <1>17, <2>1, SumFolds
  <2>3. QED
    BY <1>10, <2>1, <2>2
<1>19. QED
  BY <1>6, <1>18 DEF CountedIn, r, f, F

\* The lines of a buffer that was folded stand in the order of their first
\* copies, and the first is still the first.
LEMMA FoldOrder ==
  ASSUME TypeOK, NEW by, NEW c \in Cycles(by), NEW round, NEW n,
         \A k \in 0..c.width - 1 :
           /\ round[k] \in Events /\ round[k].line \in Lines
           /\ round[k].seq = buf[c.start + k].seq,
         AllLines(buf), Ordered(buf, n)
  PROVE  /\ AllLines(Folded(c, round)) /\ Ordered(Folded(c, round), n)
         /\ Folded(c, round)[1].seq = buf[1].seq
<1> DEFINE F == Folded(c, round)
<1> HIDE DEF F
<1>1. PICK s \in Nat \ {0} : s = c.start
  BY CycleFacts
<1>2. PICK w \in Nat \ {0} : w = c.width
  BY CycleFacts
<1>3. PICK m \in Nat : m = Removed(c)
  BY CycleFacts
<1>4. PICK l \in Nat : l = Len(buf)
  BY BufferIs
<1>5. \A k \in 0..c.width - 1 : round[k] \in Events
  OBVIOUS
<1>6. PICK h \in Nat : h = Len(F) /\ h = l - m /\ h >= s + w - 1
  BY <1>1, <1>2, <1>3, <1>4, <1>5, FoldedIs DEF F
<1>7. \A i \in 1..h :
        /\ i < s => F[i] = buf[i]
        /\ i >= s /\ i < s + w => F[i] = round[i - s]
        /\ i >= s + w => F[i] = buf[i + m] /\ i + m \in 1..l
  <2>1. \A i \in 1..Len(F) :
          /\ i < c.start => F[i] = buf[i]
          /\ i >= c.start /\ i < c.start + c.width => F[i] = round[i - c.start]
          /\ i >= c.start + c.width =>
               F[i] = buf[i + Removed(c)] /\ i + Removed(c) \in 1..Len(buf)
    BY <1>5, FoldedIs DEF F
  <2>2. QED
    BY <1>1, <1>2, <1>3, <1>4, <1>6, <2>1
\* Where line i of the folded buffer comes from.
<1> DEFINE from(i) == IF i < s + w THEN i ELSE i + m
<1>8. ASSUME NEW i \in 1..h
      PROVE  /\ from(i) \in 1..l
             /\ F[i].seq = buf[from(i)].seq /\ F[i].line \in Lines
  <2>1. CASE i < s
    <3>1. i \in 1..l /\ i < s + w
      BY <1>6, <2>1
    <3>2. QED
      BY <1>4, <1>7, <2>1, <3>1 DEF AllLines
  <2>2. CASE i >= s /\ i < s + w
    <3>1. i \in 1..l /\ i - s \in 0..w - 1 /\ s + (i - s) = i
      BY <1>6, <2>2
    <3>2. F[i] = round[i - s]
      BY <1>7, <2>2
    <3>3. round[i - s].line \in Lines /\ round[i - s].seq = buf[s + (i - s)].seq
      BY <1>1, <1>2, <3>1
    <3>4. QED
      BY <2>2, <3>1, <3>2, <3>3
  <2>3. CASE i >= s + w
    <3>1. F[i] = buf[i + m] /\ i + m \in 1..l /\ ~ (i < s + w)
      BY <1>7, <2>3
    <3>2. QED
      BY <1>4, <3>1 DEF AllLines
  <2>4. QED
    BY <2>1, <2>2, <2>3
<1>9. ASSUME NEW i \in 1..h, NEW j \in 1..h, i < j PROVE from(i) < from(j)
  BY <1>9
<1>10. 1 \in 1..h /\ from(1) = 1
  BY <1>6
<1> HIDE DEF from
<1>11. \A i \in 1..h : F[i].seq < n
  BY <1>4, <1>8 DEF Ordered
<1>12. \A i, j \in 1..h : i < j => F[i].seq < F[j].seq
  BY <1>4, <1>8, <1>9 DEF Ordered
<1>13. F[1].seq = buf[1].seq
  BY <1>8, <1>10
<1>14. QED
  BY <1>6, <1>8, <1>11, <1>12, <1>13 DEF AllLines, Ordered, F

-----------------------------------------------------------------------------
(* The inductive invariant.                                                *)

Lossless(b) == \A i \in 1..Len(b) : b[i].line.summary = "no"
Times(line) == Cardinality({n \in 1..Len(recorded) : recorded[n] = line})

\* A record that was not cut holds nothing but lines.
Whole == foldExhausted = "no" => dropped = 0 /\ AllLines(buf)

\* One that was is full, ends in the notice, and repeats nothing.
Cut ==
  foldExhausted = "yes" =>
    /\ dropped > 0
    /\ Len(buf) = Slots /\ buf[Slots].line = Notice
    /\ \A i \in 1..Slots - 1 : buf[i].line \in Lines
    /\ Cycles("text") = {} /\ Cycles("shape") = {}

Numbered ==
  /\ Ordered(buf, nextSeq)
  /\ running = "yes" /\ buf = <<>> => nextSeq = 1
  /\ buf # <<>> => buf[1].seq = 1 \/ Slots = 1

LastIsOne == buf # <<>> => buf[Len(buf)].repeats = 1

Accounted ==
  /\ Counted(Lines) + dropped = Len(recorded)
  /\ Counted(Lines) =
       folded + (IF foldExhausted = "yes" THEN Slots - 1 ELSE Len(buf))

EventInv ==
  /\ TypeOK /\ truncated = foldExhausted
  /\ Whole /\ Cut /\ Numbered /\ LastIsOne /\ Accounted /\ LosslessCounts

\* What the last line adds.
LEMMA LastCounts ==
  ASSUME NEW b \in Seq(Events), NEW n \in Nat, Len(b) = n + 1, NEW lines
  PROVE  CountedIn(b, lines) =
           SumTo(Weights(b, lines), n)
             + (IF b[n + 1].line \in lines THEN b[n + 1].repeats ELSE 0)
<1>1. Numbers(Weights(b, lines), n + 1)
  BY WeightsAre
<1>2. CountedIn(b, lines) = SumTo(Weights(b, lines), n) + Weights(b, lines)[n + 1]
  BY <1>1, SumNext DEF CountedIn
<1>3. n + 1 \in 1..Len(b)
  OBVIOUS
<1>4. Weights(b, lines)[n + 1]
        = IF b[n + 1].line \in lines THEN b[n + 1].repeats ELSE 0
  BY <1>3 DEF Weights
<1>5. QED
  BY <1>2, <1>4

\* Two buffers that agree on their first lines count them alike.
LEMMA FirstCount ==
  ASSUME NEW b \in Seq(Events), NEW e \in Seq(Events), NEW n \in Nat,
         n <= Len(b), n <= Len(e), \A i \in 1..n : b[i] = e[i], NEW lines
  PROVE  SumTo(Weights(b, lines), n) = SumTo(Weights(e, lines), n)
<1>1. Len(b) \in Nat /\ Len(e) \in Nat /\ Numbers(Weights(b, lines), Len(b))
  BY WeightsAre
<1>2. \A i \in 1..n : i \in 1..Len(b) /\ i \in 1..Len(e)
  BY <1>1
<1>3. Numbers(Weights(b, lines), n)
  BY <1>1, <1>2 DEF Numbers
<1>4. \A i \in 1..n : Weights(e, lines)[i] = Weights(b, lines)[i]
  BY <1>2 DEF Weights
<1>5. QED
  BY <1>3, <1>4, SumSame

\* A new event stands for itself.
LEMMA EventIsOne ==
  ASSUME TypeOK, NEW line \in Lines \cup {Notice}
  PROVE  /\ Event(line) \in Events /\ Event(line).line = line
         /\ Event(line).repeats = 1 /\ Event(line).seq = nextSeq
<1>1. PICK n \in Nat \ {0} : n = nextSeq
  BY DEF TypeOK
<1>2. 1 \in Nat \ {0} /\ n \in Nat
  OBVIOUS
<1>3. QED
  BY <1>1, <1>2 DEF Event, Events

\* What a run records is a line.
LEMMA OrdinaryIsALine ==
  ASSUME NEW line \in Ordinary
  PROVE  line \in Lines /\ line \in Lines \cup {Notice}
BY BufferAssumption DEF Ordinary, Lines

\* No line reads like the notice.
LEMMA NoticeIsNoLine ==
  /\ Notice \notin Lines
  /\ \A line \in Lines : line.shape # "trace.truncated"
BY BufferAssumption DEF Notice, Lines

\* A line stored behind a buffer adds one to the counts it belongs to.
LEMMA Appended ==
  ASSUME TypeOK, NEW b \in Seq(Events), NEW line \in Ordinary, NEW lines
  PROVE  /\ Append(b, Event(line)) \in Seq(Events)
         /\ Len(Append(b, Event(line))) = Len(b) + 1
         /\ Append(b, Event(line))[Len(b) + 1] = Event(line)
         /\ \A i \in 1..Len(b) : Append(b, Event(line))[i] = b[i]
         /\ CountedIn(Append(b, Event(line)), lines)
              = CountedIn(b, lines) + (IF line \in lines THEN 1 ELSE 0)
<1>1. /\ Event(line) \in Events /\ Event(line).line = line
      /\ Event(line).repeats = 1
  BY OrdinaryIsALine, EventIsOne
<1>2. PICK e \in Events : e = Event(line)
  BY <1>1
<1>3. PICK a \in Seq(Events) : a = Append(b, e)
  BY AppendProperties
<1>4. PICK n \in Nat : n = Len(b)
  BY LenProperties
<1>5. Len(a) = n + 1 /\ a[n + 1] = e /\ \A i \in 1..n : a[i] = b[i]
  BY <1>3, <1>4, AppendProperties
<1>6. CountedIn(a, lines) =
        SumTo(Weights(a, lines), n) + (IF line \in lines THEN 1 ELSE 0)
  BY <1>1, <1>2, <1>5, LastCounts
<1>7. SumTo(Weights(a, lines), n) = CountedIn(b, lines)
  BY <1>4, <1>5, FirstCount DEF CountedIn
<1>8. QED
  BY <1>2, <1>3, <1>4, <1>5, <1>6, <1>7

\* Nothing comes to repeat when the last slot becomes the notice: a round
\* that ends in it would have begun with another notice.
LEMMA NoticeRepeatsNothing ==
  ASSUME TypeOK, TypeOK', NEW by, Cycles(by) = {},
         Len(buf) = Slots, \A i \in 1..Slots - 1 : buf[i].line \in Lines,
         MarkTruncated
  PROVE  Cycles(by)' = {}
<1>1. PICK n \in Nat : n = Slots /\ n = Len(buf) /\ n >= 1
  BY BufferIs
<1>2. PICK e : e = Event(Notice)
  OBVIOUS
<1>3. buf' = [buf EXCEPT ![n] = e] /\ e.line = Notice
  BY <1>1, <1>2, EventIsOne DEF MarkTruncated
<1>4. buf \in [1..n -> Events] /\ buf' \in Seq(Events)
  BY <1>1, BufferIs DEF TypeOK
<1>5. /\ Len(buf') = n /\ buf'[n] = e
      /\ \A i \in 1..n : i # n => buf'[i] = buf[i]
  BY <1>1, <1>3, <1>4, LenProperties
<1> SUFFICES ASSUME NEW c \in Cycles(by)' PROVE FALSE
  OBVIOUS
<1>6. /\ c.width \in 1..MaxWidth /\ c.start \in 1..n /\ c.copies \in 2..n
      /\ Repeats(by, c.start, c.width, c.copies)'
  BY <1>5 DEF Cycles
<1>7. PICK w \in 1..MaxWidth, s \in 1..n, q \in 2..n :
        /\ w = c.width /\ s = c.start /\ q = c.copies
  BY <1>6
<1>8. MaxWidth \in Nat /\ w \in Nat \ {0} /\ s \in Nat \ {0} /\ q \in Nat
  BY <1>1, BufferAssumption
<1>9. PICK p \in Nat : p = w * q /\ w * 2 <= p
  <2>1. w * q \in Nat /\ w * (q - 2) \in Nat /\ w * q = w * 2 + w * (q - 2)
    BY <1>8
  <2>2. QED
    BY <1>8, <2>1
<1>10. /\ s + p - 1 <= n
       /\ \A k \in 0..p - 1 : Same(by, buf'[s + (k % w)], buf'[s + k])
  BY <1>5, <1>6, <1>7, <1>9 DEF Repeats, Same, SameText, SameShape
<1>11. PICK t \in Nat : t = s + w * 2 - 1 /\ t <= n
  BY <1>8, <1>9, <1>10
<1>12. t # n
  <2> SUFFICES ASSUME t = n PROVE FALSE
    OBVIOUS
  <2>1. (w * 1 + (w - 1)) % w = w - 1
    <3>1. w - 1 \in 0..w - 1 /\ 1 \in Nat
      BY <1>8
    <3>2. QED
      BY <1>8, <3>1, Remainder
  <2>2. PICK k \in Nat : k = w * 2 - 1
    BY <1>8
  <2>3. k % w = w - 1 /\ k \in 0..p - 1 /\ s + k = n
    BY <1>8, <1>9, <1>11, <2>1, <2>2
  <2>4. Same(by, buf'[s + (w - 1)], buf'[n])
    BY <1>10, <2>3
  <2>5. s + (w - 1) \in 1..n - 1
    BY <1>8, <1>11
  <2>6. buf'[s + (w - 1)].line \in Lines /\ buf'[n].line = Notice
    BY <1>1, <1>3, <1>5, <2>5
  <2>7. buf'[s + (w - 1)].line.shape = buf'[n].line.shape
    BY <2>4 DEF Same, SameText, SameShape
  <2>8. QED
    BY <2>6, <2>7, NoticeIsNoLine DEF Notice
<1>13. Repeats(by, s, w, 2)
  <2>1. ASSUME NEW k \in 0..w * 2 - 1
        PROVE  Same(by, buf[s + (k % w)], buf[s + k])
    <3>1. k \in 0..p - 1 /\ s + k \in 1..n /\ s + k # n
      BY <1>8, <1>9, <1>11, <1>12
    <3>2. k % w \in 0..w - 1
      BY <1>8, InRound
    <3>3. s + (k % w) \in 1..n /\ s + (k % w) # n
      BY <1>8, <1>11, <1>12, <3>2
    <3>4. Same(by, buf'[s + (k % w)], buf'[s + k])
      BY <1>10, <3>1
    <3>5. QED
      BY <1>5, <3>1, <3>3, <3>4
  <2>2. s + w * 2 - 1 <= Len(buf)
    BY <1>1, <1>11
  <2>3. QED
    BY <2>1, <2>2 DEF Repeats
<1>14. QED
  BY <1>1, <1>13, TwoRoundsAreACycle

\* The slots that hold lines.
LEMMA HoldingIs ==
  ASSUME TypeOK, truncated = foldExhausted, Whole, Cut
  PROVE  Cardinality(Holding(Lines))
           = IF foldExhausted = "yes" THEN Slots - 1 ELSE Len(buf)
<1>1. PICK n \in Nat : n = Len(buf)
  BY BufferIs
<1>2. CASE foldExhausted = "yes"
  <2>1. PICK s \in Nat : s = Slots - 1
    BY BufferAssumption
  <2>2. n = s + 1 /\ buf[s + 1].line = Notice /\ \A i \in 1..s : buf[i].line \in Lines
    BY <1>1, <1>2, <2>1, BufferAssumption DEF Cut
  <2>3. Holding(Lines) = 1..s
    BY <1>1, <2>2, NoticeIsNoLine DEF Holding
  <2>4. Cardinality(1..s) = s
    BY FS_Interval
  <2>5. QED
    BY <1>2, <2>1, <2>3, <2>4
<1>3. CASE foldExhausted # "yes"
  <2>1. foldExhausted = "no"
    BY <1>3 DEF TypeOK, YesNo
  <2>2. Holding(Lines) = 1..n
    BY <1>1, <2>1 DEF Holding, Whole, AllLines
  <2>3. Cardinality(1..n) = n
    BY FS_Interval
  <2>4. QED
    BY <1>1, <1>3, <2>2, <2>3
<1>4. QED
  BY <1>2, <1>3

\* One more recording of a line.
LEMMA OnceMore ==
  ASSUME TypeOK, NEW line \in Ordinary, Recorded(line), NEW l \in Ordinary
  PROVE  /\ Times(l) \in Nat
         /\ Times(l)' = Times(l) + (IF line \in {l} THEN 1 ELSE 0)
<1>1. recorded \in Seq(Lines) /\ line \in Lines
  BY OrdinaryIsALine DEF TypeOK
<1>2. PICK n \in Nat : n = Len(recorded)
  BY <1>1, LenProperties
<1>3. /\ Len(recorded') = n + 1 /\ recorded'[n + 1] = line
      /\ \A i \in 1..n : recorded'[i] = recorded[i]
  BY <1>1, <1>2, AppendProperties DEF Recorded
<1> DEFINE S == {i \in 1..n : recorded[i] = l}
           T == {i \in 1..n + 1 : recorded'[i] = l}
<1>4. Times(l) = Cardinality(S) /\ Times(l)' = Cardinality(T)
  BY <1>2, <1>3 DEF Times
<1>5. IsFiniteSet(S) /\ Cardinality(S) \in Nat /\ n + 1 \notin S
  <2>1. IsFiniteSet(1..n)
    BY FS_Interval
  <2>2. S \subseteq 1..n /\ n + 1 \notin S
    OBVIOUS
  <2>3. QED
    BY <2>1, <2>2, FS_Subset, FS_CardinalityType
<1>6. T = IF line \in {l} THEN S \cup {n + 1} ELSE S
  <2>1. 1..n + 1 = (1..n) \cup {n + 1}
    OBVIOUS
  <2>2. QED
    BY <1>3, <2>1
<1> HIDE DEF S, T
<1>7. Cardinality(S \cup {n + 1}) = Cardinality(S) + 1
  BY <1>5, FS_AddElement
<1>8. QED
  BY <1>4, <1>5, <1>6, <1>7

\* Recording a line in a buffer that has room, or was folded to have it.
LEMMA RecordingKeeps ==
  ASSUME EventInv, NEW line \in Ordinary, Recorded(line),
         foldExhausted = "no", UNCHANGED <<dropped, flags>>,
         NEW b \in Seq(Events), buf' = Append(b, Event(line)),
         Len(b) < Slots, b # <<>> <=> buf # <<>>,
         AllLines(b), Ordered(b, nextSeq), buf # <<>> => b[1].seq = buf[1].seq,
         NEW m \in Nat, Len(buf) = Len(b) + m, folded' = folded + m,
         CountedIn(b, Lines) = Counted(Lines),
         Lossless(b) =>
           /\ Lossless(buf)
           /\ \A l \in Ordinary : CountedIn(b, {l}) = Counted({l})
  PROVE  EventInv'
<1>1. /\ TypeOK /\ truncated = foldExhausted /\ Whole /\ Numbered
      /\ Accounted /\ LosslessCounts /\ dropped = 0
  BY DEF EventInv, Whole
<1>2. line \in Lines /\ line \in Lines \cup {Notice}
  BY OrdinaryIsALine
<1>3. /\ Event(line).line = line /\ Event(line).repeats = 1
      /\ Event(line).seq = nextSeq
  BY <1>1, <1>2, EventIsOne
<1>4. PICK h \in Nat : h = Len(b)
  BY LenProperties
<1>5. /\ buf' \in Seq(Events) /\ Len(buf') = h + 1 /\ buf'[h + 1] = Event(line)
      /\ \A i \in 1..h : buf'[i] = b[i]
  BY <1>1, <1>4, Appended
<1>6. /\ nextSeq \in Nat \ {0} /\ folded \in Nat /\ recorded \in Seq(Lines)
      /\ foldExhausted \in YesNo /\ truncated \in YesNo /\ dropped \in Nat
      /\ outsideWindow \in Nat /\ Slots \in Nat
  BY <1>1, BufferAssumption DEF TypeOK
<1>7. PICK x \in Nat : x = nextSeq /\ nextSeq' = x + 1
  BY <1>6 DEF Recorded
<1>8. recorded' \in Seq(Lines) /\ Len(recorded') = Len(recorded) + 1
  BY <1>2, <1>6, AppendProperties DEF Recorded
<1>9. TypeOK'
  <2>1. nextSeq' \in Nat \ {0} /\ folded' \in Nat
    BY <1>6, <1>7
  <2>2. Len(buf') <= Slots
    BY <1>4, <1>5, <1>6
  <2>3. outsideWindow' \in Nat /\ running' \in YesNo /\ dropped' \in Nat
    BY <1>1, <1>6 DEF Recorded, TypeOK
  <2>4. foldExhausted' \in YesNo /\ truncated' \in YesNo
    BY <1>6 DEF flags
  <2>5. QED
    BY <1>5, <1>8, <2>1, <2>2, <2>3, <2>4 DEF TypeOK
<1>10. foldExhausted' = "no" /\ truncated' = foldExhausted' /\ dropped' = 0
  BY <1>1 DEF flags
<1>11. AllLines(buf)'
  <2>1. ASSUME NEW i \in 1..h + 1 PROVE buf'[i].line \in Lines
    <3>1. CASE i = h + 1
      BY <1>2, <1>3, <1>5, <3>1
    <3>2. CASE i # h + 1
      <4>1. i \in 1..h
        BY <3>2
      <4>2. QED
        BY <1>4, <1>5, <4>1 DEF AllLines
    <3>3. QED
      BY <3>1, <3>2
  <2>2. QED
    BY <1>5, <2>1 DEF AllLines
<1>12. Whole' /\ Cut'
  BY <1>10, <1>11 DEF Whole, Cut
<1>13. Numbered' /\ LastIsOne'
  <2>1. ASSUME NEW i \in 1..h
        PROVE  /\ buf'[i] = b[i] /\ buf'[i].seq = b[i].seq
               /\ b[i].seq < x /\ buf'[i].seq < x
    BY <1>4, <1>5, <1>7 DEF Ordered
  <2>2. buf'[h + 1].seq = x
    BY <1>3, <1>5, <1>7
  <2>3. ASSUME NEW i \in 1..h PROVE b[i].seq \in Nat
    <3>1. b[i] \in Events
      BY <1>4, LenProperties
    <3>2. QED
      BY <3>1 DEF Events
  <2>4. ASSUME NEW i \in 1..h + 1 PROVE buf'[i].seq < x + 1
    <3>1. CASE i = h + 1
      <4>1. buf'[i].seq = x
        BY <2>2, <3>1, Zenon
      <4>2. x < x + 1
        OBVIOUS
      <4>3. QED
        BY <4>1, <4>2
    <3>2. CASE i # h + 1
      <4>1. i \in 1..h
        BY <3>2
      <4>2. PICK y \in Nat : y = b[i].seq
        BY <2>3, <4>1
      <4>3. buf'[i].seq = y /\ y < x
        BY <2>1, <4>1, <4>2
      <4>4. y < x + 1
        BY <4>3
      <4>5. QED
        BY <4>3, <4>4
    <3>3. QED
      BY <3>1, <3>2
  <2>5. ASSUME NEW i \in 1..h + 1, NEW j \in 1..h + 1, i < j
        PROVE  buf'[i].seq < buf'[j].seq
    <3>1. i \in 1..h
      BY <2>5
    <3>2. CASE j = h + 1
      <4>1. buf'[i].seq < x
        BY <2>1, <3>1
      <4>2. buf'[j].seq = x
        BY <2>2, <3>2
      <4>3. QED
        BY <4>1, <4>2
    <3>3. CASE j # h + 1
      <4>1. j \in 1..h
        BY <3>3
      <4>2. b[i].seq < b[j].seq
        BY <1>4, <2>5, <3>1, <4>1 DEF Ordered
      <4>3. buf'[i].seq = b[i].seq
        BY <2>1, <3>1
      <4>4. buf'[j].seq = b[j].seq
        BY <2>1, <4>1
      <4>5. QED
        BY <4>2, <4>3, <4>4
    <3>4. QED
      BY <3>2, <3>3
  <2>6. Ordered(buf, nextSeq)'
    BY <1>5, <1>7, <2>4, <2>5 DEF Ordered
  <2>7. buf' # <<>> /\ buf'[Len(buf')].repeats = 1
    <3>1. Len(<<>>) = 0 /\ h + 1 # 0
      OBVIOUS
    <3>2. QED
      BY <1>3, <1>5, <3>1
  <2>8. buf'[1].seq = 1 \/ Slots = 1
    <3>1. CASE b = <<>>
      <4>1. h = 0 /\ nextSeq = 1
        BY <1>1, <1>4, <3>1 DEF Numbered, Recorded
      <4>2. QED
        BY <1>7, <2>2, <4>1
    <3>2. CASE b # <<>>
      <4>1. h # 0
        BY <1>4, <3>2, EmptySeq
      <4>2. 1 \in 1..h
        BY <4>1
      <4>3. buf'[1].seq = buf[1].seq
        BY <2>1, <3>2, <4>2
      <4>4. QED
        BY <1>1, <3>2, <4>3 DEF Numbered
    <3>3. QED
      BY <3>1, <3>2
  <2>9. QED
    BY <2>6, <2>7, <2>8 DEF Numbered, LastIsOne
<1>14. ASSUME NEW lines PROVE Counted(lines)' = CountedIn(buf', lines)
  BY DEF Counted, CountedIn, Weights, Holding
<1>15. Accounted'
  <2>1. Counted(Lines)' = CountedIn(b, Lines) + 1
    BY <1>1, <1>2, <1>14, Appended
  <2>2. PICK t \in Nat : t = Counted(Lines)
    BY <1>1, CountedIs
  <2>3. t = Len(recorded) /\ t = folded + (h + m)
    BY <1>1, <1>4, <1>6, <2>2 DEF Accounted
  <2>4. Counted(Lines)' = t + 1 /\ folded' = folded + m /\ Len(buf') = h + 1
    BY <1>5, <2>1, <2>2
  <2>5. t + 1 = folded + m + (h + 1)
    BY <1>6, <2>3
  <2>6. Counted(Lines)' + dropped' = Len(recorded')
    BY <1>8, <1>10, <2>3, <2>4
  <2>7. QED
    BY <1>10, <2>4, <2>5, <2>6 DEF Accounted
<1>16. LosslessCounts'
  <2> SUFFICES ASSUME \A i \in 1..Len(buf') : buf'[i].line.summary = "no",
                      NEW l \in Ordinary
               PROVE  Counted({l})' = Times(l)'
    BY DEF LosslessCounts, Times
  <2>1. Lossless(b)
    <3>1. \A i \in 1..h : i \in 1..h + 1
      OBVIOUS
    <3>2. QED
      BY <1>4, <1>5, <3>1 DEF Lossless
  <2>2. Counted({l}) = Times(l) /\ CountedIn(b, {l}) = Counted({l})
    BY <1>1, <2>1 DEF LosslessCounts, Lossless, Times
  <2>3. Counted({l})' = CountedIn(b, {l}) + (IF line \in {l} THEN 1 ELSE 0)
    BY <1>1, <1>14, Appended
  <2>4. QED
    BY <1>1, <2>2, <2>3, OnceMore
<1>17. QED
  BY <1>9, <1>10, <1>12, <1>13, <1>15, <1>16 DEF EventInv

LEMMA FirstRound ==
  ASSUME TypeOK, NEW by, NEW c \in Cycles(by), NEW k \in 0..c.width - 1
  PROVE  c.start + k \in 1..Len(buf)
<1>1. /\ c.start \in 1..Len(buf) /\ Len(buf) \in Nat /\ c.width \in Nat \ {0}
      /\ c.width * c.copies \in Nat /\ Removed(c) \in Nat
      /\ c.start + c.width * c.copies - 1 <= Len(buf)
      /\ Removed(c) = c.width * c.copies - c.width
  BY CycleFacts
<1>2. PICK p \in Nat : p = c.width * c.copies
  BY <1>1
<1>3. PICK w \in Nat : w = c.width
  BY <1>1
<1>4. PICK l \in Nat : l = Len(buf)
  BY <1>1
<1>5. PICK s \in 1..l : s = c.start
  BY <1>1, <1>4
<1>6. PICK m \in Nat : m = Removed(c)
  BY <1>1
<1>7. m = p - w /\ s + p - 1 <= l
  BY <1>1, <1>2, <1>3, <1>4, <1>5, <1>6
<1>8. s + k \in 1..l
  BY <1>3, <1>7
<1>9. QED
  BY <1>4, <1>5, <1>8

\* What both folds leave to the recording that follows.
LEMMA FoldMakesRoom ==
  ASSUME EventInv, foldExhausted = "no",
         NEW by, NEW c \in Cycles(by), NEW round,
         \A k \in 0..c.width - 1 :
           /\ round[k] \in Events /\ round[k].line \in Lines
           /\ round[k].seq = buf[c.start + k].seq
           /\ round[k].repeats = Total(Copies(c, k))
  PROVE  /\ Folded(c, round) \in Seq(Events)
         /\ Len(Folded(c, round)) < Slots
         /\ Folded(c, round) # <<>> /\ buf # <<>>
         /\ AllLines(Folded(c, round)) /\ Ordered(Folded(c, round), nextSeq)
         /\ Folded(c, round)[1].seq = buf[1].seq
         /\ Removed(c) \in Nat
         /\ Len(buf) = Len(Folded(c, round)) + Removed(c)
         /\ CountedIn(Folded(c, round), Lines) = Counted(Lines)
<1>1. TypeOK /\ AllLines(buf) /\ Ordered(buf, nextSeq)
  BY DEF EventInv, Whole, Numbered
<1>2. /\ Folded(c, round) \in Seq(Events)
      /\ Len(Folded(c, round)) \in Nat
      /\ Len(Folded(c, round)) = Len(buf) - Removed(c)
      /\ Len(Folded(c, round)) >= c.start + c.width - 1
      /\ Len(Folded(c, round)) + 1 <= Len(buf)
  BY <1>1, FoldedIs
<1>3. /\ Len(buf) \in Nat /\ Removed(c) \in Nat /\ Len(buf) <= Slots
      /\ c.start \in 1..Len(buf) /\ c.width \in Nat \ {0} /\ Slots \in Nat
  BY <1>1, CycleFacts, BufferIs
<1>4. PICK h \in Nat, l \in Nat, m \in Nat :
        h = Len(Folded(c, round)) /\ l = Len(buf) /\ m = Removed(c)
  BY <1>2, <1>3
<1>5. PICK s \in 1..l, w \in Nat : s = c.start /\ w = c.width /\ w # 0
  BY <1>3, <1>4
<1>6. h = l - m /\ h >= s + w - 1 /\ h + 1 <= l /\ l <= Slots
  BY <1>2, <1>3, <1>4, <1>5
<1>7. l = h + m /\ h < Slots /\ h # 0 /\ l # 0
  BY <1>3, <1>5, <1>6
<1>8. Folded(c, round) # <<>> /\ buf # <<>>
  <2>1. Len(<<>>) = 0
    OBVIOUS
  <2>2. QED
    BY <1>4, <1>7, <2>1
<1>9. ASSUME NEW k \in 0..c.width - 1, NEW j \in 1..c.copies
      PROVE  /\ buf[c.start + c.width * (j - 1) + k].line \in Lines
             /\ round[k].line \in Lines
  <2>1. c.start + c.width * (j - 1) + k \in 1..Len(buf)
    BY <1>1, CycleCopies
  <2>2. QED
    BY <1>1, <2>1 DEF AllLines
<1>10. CountedIn(Folded(c, round), Lines) = CountedIn(buf, Lines)
  BY <1>1, <1>9, FoldCounts
<1>11. /\ AllLines(Folded(c, round)) /\ Ordered(Folded(c, round), nextSeq)
      /\ Folded(c, round)[1].seq = buf[1].seq
  BY <1>1, FoldOrder
<1>12. QED
  BY <1>1, <1>2, <1>3, <1>4, <1>7, <1>8, <1>10, <1>11, CountedIs

\* Folding equal texts loses no text and no count of it.
LEMMA TextFoldIsLossless ==
  ASSUME EventInv, NEW c \in Cycles("text"),
         Lossless(Folded(c, MergedRound(c)))
  PROVE  /\ Lossless(buf)
         /\ \A l \in Ordinary :
              CountedIn(Folded(c, MergedRound(c)), {l}) = Counted({l})
<1> DEFINE F == Folded(c, MergedRound(c))
<1>1. TypeOK
  BY DEF EventInv
<1>2. ASSUME NEW k \in 0..c.width - 1
      PROVE  /\ MergedRound(c)[k] = Merged(c, k)
             /\ Merged(c, k) \in Events
             /\ Merged(c, k).line = buf[c.start + k].line
             /\ Merged(c, k).repeats = Total(Copies(c, k))
  BY <1>1, MergedIs DEF MergedRound
<1>3. ASSUME NEW k \in 0..c.width - 1, NEW j \in 1..c.copies
      PROVE  buf[c.start + c.width * (j - 1) + k].line = Merged(c, k).line
  BY <1>1, <1>2, CycleCopies DEF Same, SameText
<1>4. ASSUME NEW l \in Ordinary
      PROVE  CountedIn(F, {l}) = Counted({l})
  <2>1. \A k \in 0..c.width - 1 :
          /\ MergedRound(c)[k] \in Events
          /\ MergedRound(c)[k].repeats = Total(Copies(c, k))
          /\ \A j \in 1..c.copies :
               buf[c.start + c.width * (j - 1) + k].line \in {l}
                 <=> MergedRound(c)[k].line \in {l}
    BY <1>2, <1>3
  <2>2. CountedIn(F, {l}) = CountedIn(buf, {l})
    BY <1>1, <2>1, FoldCounts
  <2>3. QED
    BY <1>1, <2>2, CountedIs
<1>5. /\ c.start \in 1..Len(buf) /\ Len(buf) \in Nat /\ c.width \in Nat \ {0}
      /\ c.width * c.copies \in Nat /\ Removed(c) \in Nat
      /\ Removed(c) = c.width * c.copies - c.width /\ Removed(c) >= c.width
  BY <1>1, CycleFacts
<1>6. \A k \in 0..c.width - 1 : MergedRound(c)[k] \in Events
  BY <1>2
<1>7. /\ Len(F) \in Nat /\ Len(F) = Len(buf) - Removed(c)
      /\ Len(F) >= c.start + c.width - 1
      /\ \A i \in 1..Len(F) :
           /\ i < c.start => F[i] = buf[i]
           /\ i >= c.start /\ i < c.start + c.width =>
                F[i] = MergedRound(c)[i - c.start]
           /\ i >= c.start + c.width => F[i] = buf[i + Removed(c)]
  BY <1>1, <1>6, FoldedIs
<1> HIDE DEF F
<1>8. PICK n \in Nat, h \in Nat : n = Len(buf) /\ h = Len(F)
  BY <1>5, <1>7
<1>9. PICK m \in Nat, p \in Nat : m = Removed(c) /\ p = c.width * c.copies
  BY <1>5
<1>10. PICK s \in 1..n, w \in Nat \ {0} : s = c.start /\ w = c.width
  BY <1>5, <1>8
<1>11. m = p - w /\ h = n - m /\ h >= s + w - 1 /\ m >= w
  BY <1>5, <1>7, <1>8, <1>9, <1>10
<1>12. \A i \in 1..h :
        /\ i < s => F[i] = buf[i]
        /\ i >= s /\ i < s + w => F[i] = MergedRound(c)[i - s]
        /\ i >= s + w => F[i] = buf[i + m]
  BY <1>7, <1>8, <1>9, <1>10
<1>13. \A i \in 1..h : F[i].line.summary = "no"
  BY <1>8 DEF Lossless, F
<1>14. ASSUME NEW i \in 1..n PROVE buf[i].line.summary = "no"
  <2>1. CASE i < s
    <3>1. i \in 1..h
      BY <1>11, <2>1
    <3>2. QED
      BY <1>12, <1>13, <2>1, <3>1
  <2>2. CASE i >= s + p
    <3>1. i - m \in 1..h /\ i - m >= s + w /\ i - m + m = i
      BY <1>11, <2>2
    <3>2. F[i - m] = buf[i]
      BY <1>12, <3>1
    <3>3. QED
      BY <1>13, <3>1, <3>2
  <2>3. CASE i >= s /\ i < s + p
    <3>1. PICK k \in Nat : k = i - s /\ s + k = i /\ k \in 0..p - 1
      BY <2>3
    <3>2. PICK r \in Nat : r = k % w /\ r \in 0..w - 1
      BY InRound
    <3>3. \A j \in 0..p - 1 : Same("text", buf[s + (j % w)], buf[s + j])
      BY <1>9, <1>10 DEF Cycles, Repeats
    <3>4. buf[s + r].line = buf[i].line
      BY <3>1, <3>2, <3>3 DEF Same, SameText
    <3>5. s + r \in 1..h /\ s + r >= s /\ s + r < s + w /\ s + r - s = r
      BY <1>11, <3>2
    <3>6. F[s + r] = MergedRound(c)[r]
      BY <1>12, <3>5
    <3>7. MergedRound(c)[r].line = buf[s + r].line
      BY <1>2, <1>10, <3>2
    <3>8. F[s + r].line.summary = "no"
      BY <1>13, <3>5
    <3>9. QED
      BY <3>4, <3>6, <3>7, <3>8
  <2>4. QED
    BY <2>1, <2>2, <2>3
<1>15. QED
  BY <1>4, <1>8, <1>14 DEF Lossless, F

\* FoldAndStore keeps the invariant.
LEMMA FoldKeeps ==
  ASSUME EventInv, NEW line \in Ordinary, FoldAndStore(line)
  PROVE  EventInv'
<1>1. TypeOK /\ AllLines(buf)
  BY DEF EventInv, Whole, FoldAndStore
<1>2. PICK c \in Cycles("text") : c = FirstCycle
  BY <1>1, FirstIsACycle DEF FoldAndStore
<1>3. ASSUME NEW k \in 0..c.width - 1
      PROVE  /\ MergedRound(c)[k] \in Events /\ MergedRound(c)[k].line \in Lines
             /\ MergedRound(c)[k].seq = buf[c.start + k].seq
             /\ MergedRound(c)[k].repeats = Total(Copies(c, k))
  <2>1. MergedRound(c)[k] = Merged(c, k)
    BY DEF MergedRound
  <2>2. buf[c.start + k].line \in Lines
    <3>1. c.start + k \in 1..Len(buf)
      BY <1>1, FirstRound
    <3>2. QED
      BY <1>1, <3>1 DEF AllLines
  <2>3. QED
    BY <1>1, <2>1, <2>2, MergedIs
<1> DEFINE F == Folded(c, MergedRound(c))
<1>4. /\ F \in Seq(Events) /\ Len(F) < Slots
      /\ F # <<>> /\ buf # <<>> /\ AllLines(F) /\ Ordered(F, nextSeq)
      /\ F[1].seq = buf[1].seq /\ Removed(c) \in Nat
      /\ Len(buf) = Len(F) + Removed(c)
      /\ CountedIn(F, Lines) = Counted(Lines)
  <2>1. foldExhausted = "no"
    BY DEF FoldAndStore
  <2>2. QED
    BY <1>3, <2>1, FoldMakesRoom
<1>5. Lossless(F) =>
        /\ Lossless(buf)
        /\ \A l \in Ordinary : CountedIn(F, {l}) = Counted({l})
  BY TextFoldIsLossless
<1>6. /\ Recorded(line) /\ foldExhausted = "no" /\ UNCHANGED <<dropped, flags>>
      /\ buf' = Append(F, Event(line)) /\ folded' = folded + Removed(c)
  BY <1>2 DEF FoldAndStore
<1> HIDE DEF F
<1>7. QED
  BY <1>4, <1>5, <1>6, RecordingKeeps

\* SummariseAndStore keeps the invariant.
LEMMA SummaryKeeps ==
  ASSUME EventInv, NEW line \in Ordinary, SummariseAndStore(line)
  PROVE  EventInv'
<1>1. TypeOK /\ AllLines(buf)
  BY DEF EventInv, Whole, SummariseAndStore
<1>2. PICK c \in Cycles("shape") : c = BestCycle
  BY <1>1, BestIsACycle DEF SummariseAndStore
<1>3. ASSUME NEW k \in 0..c.width - 1
      PROVE  /\ SummaryRound(c)[k] \in Events /\ SummaryRound(c)[k].line \in Lines
             /\ SummaryRound(c)[k].line.summary = "yes"
             /\ SummaryRound(c)[k].seq = buf[c.start + k].seq
             /\ SummaryRound(c)[k].repeats = Total(Copies(c, k))
  <2>1. SummaryRound(c)[k] = Summarised(c, k)
    BY DEF SummaryRound
  <2>2. buf[c.start + k].line \in Lines
    <3>1. c.start + k \in 1..Len(buf)
      BY <1>1, FirstRound
    <3>2. QED
      BY <1>1, <3>1 DEF AllLines
  <2>3. QED
    BY <1>1, <2>1, <2>2, SummaryIs
<1> DEFINE F == Folded(c, SummaryRound(c))
<1>4. /\ F \in Seq(Events) /\ Len(F) < Slots
      /\ F # <<>> /\ buf # <<>> /\ AllLines(F) /\ Ordered(F, nextSeq)
      /\ F[1].seq = buf[1].seq /\ Removed(c) \in Nat
      /\ Len(buf) = Len(F) + Removed(c)
      /\ CountedIn(F, Lines) = Counted(Lines)
  <2>1. foldExhausted = "no"
    BY DEF SummariseAndStore
  <2>2. QED
    BY <1>3, <2>1, FoldMakesRoom
\* The first line of the cycle is a summary now.
<1>5. ~ Lossless(F)
  <2>1. \A k \in 0..c.width - 1 : SummaryRound(c)[k] \in Events
    BY <1>3
  <2>2. /\ c.start \in 1..Len(buf) /\ Len(buf) \in Nat /\ c.width \in Nat \ {0}
        /\ Len(F) \in Nat /\ Len(F) >= c.start + c.width - 1
    BY <1>1, <2>1, CycleFacts, FoldedIs
  <2>3. PICK s \in Nat, w \in Nat, h \in Nat :
          /\ s = c.start /\ w = c.width /\ h = Len(F)
          /\ s >= 1 /\ w >= 1 /\ h >= s + w - 1
    <3> HIDE DEF F
    <3>1. QED
      BY <2>2
  <2>4. s \in 1..h /\ s >= s /\ s < s + w /\ s - s = 0 /\ 0 \in 0..w - 1
    BY <2>3
  <2>5. F[s] = SummaryRound(c)[s - s]
    <3>1. \A i \in 1..Len(F) :
            i >= c.start /\ i < c.start + c.width =>
              F[i] = SummaryRound(c)[i - c.start]
      BY <1>1, <2>1, FoldedIs
    <3> HIDE DEF F
    <3>2. QED
      BY <2>3, <2>4, <3>1
  <2>6. SummaryRound(c)[0].line.summary = "yes"
    BY <1>3, <2>3, <2>4
  <2> HIDE DEF F
  <2>7. QED
    BY <2>3, <2>4, <2>5, <2>6 DEF Lossless
<1>6. /\ Recorded(line) /\ foldExhausted = "no" /\ UNCHANGED <<dropped, flags>>
      /\ buf' = Append(F, Event(line)) /\ folded' = folded + Removed(c)
  BY <1>2 DEF SummariseAndStore
<1> HIDE DEF F
<1>7. QED
  BY <1>4, <1>5, <1>6, RecordingKeeps

\* Truncate and Drop: the last slot becomes the notice, and x is what the
\* slot counted before.
LEMMA CuttingKeeps ==
  ASSUME EventInv, NEW line \in Ordinary, Recorded(line), MarkTruncated,
         foldExhausted' = "yes", truncated' = "yes", folded' = folded,
         Len(buf) = Slots, \A i \in 1..Slots - 1 : buf[i].line \in Lines,
         Cycles("text") = {}, Cycles("shape") = {},
         NEW x \in Nat,
         x = (IF buf[Slots].line \in Lines THEN buf[Slots].repeats ELSE 0),
         dropped' = dropped + x + 1,
         Counted(Lines) = folded + (Slots - 1) + x
  PROVE  EventInv'
<1>1. /\ TypeOK /\ Numbered /\ Accounted
  BY DEF EventInv
<1>2. line \in Lines /\ Notice \in Lines \cup {Notice}
  BY OrdinaryIsALine
<1>3. PICK e \in Events :
        e = Event(Notice) /\ e.line = Notice /\ e.repeats = 1 /\ e.seq = nextSeq
  BY <1>1, EventIsOne
<1>4. PICK n \in Nat : Slots = n + 1
  <2>1. PICK s \in Nat \ {0} : s = Slots
    BY BufferAssumption
  <2>2. s - 1 \in Nat /\ s = s - 1 + 1
    OBVIOUS
  <2>3. QED
    BY <2>1, <2>2
<1>5. Slots - 1 = n /\ n + 1 \in Nat /\ Len(buf) = n + 1
  BY <1>4
<1>6. buf \in [1..n + 1 -> Events] /\ buf \in Seq(Events)
  BY <1>1, <1>5, BufferIs DEF TypeOK
<1>7. buf' = [buf EXCEPT ![n + 1] = e]
  BY <1>3, <1>4 DEF MarkTruncated
<1>8. buf' \in [1..n + 1 -> Events]
  BY <1>6, <1>7
<1>9. /\ buf' \in Seq(Events) /\ Len(buf') = n + 1 /\ buf'[n + 1] = e
      /\ \A i \in 1..n : buf'[i] = buf[i]
  <2>1. buf' \in Seq(Events)
    BY <1>5, <1>8
  <2>2. Len(buf') = n + 1
    BY <1>5, <1>8, <2>1, LenProperties
  <2>3. n + 1 \in 1..n + 1 /\ \A i \in 1..n : i \in 1..n + 1 /\ i # n + 1
    OBVIOUS
  <2>4. QED
    BY <1>6, <1>7, <2>1, <2>2, <2>3
<1>10. /\ nextSeq \in Nat \ {0} /\ folded \in Nat /\ dropped \in Nat
       /\ recorded \in Seq(Lines) /\ outsideWindow \in Nat /\ running \in YesNo
  BY <1>1 DEF TypeOK
<1>11. PICK q \in Nat : q = nextSeq /\ nextSeq' = q + 1
  BY <1>10 DEF Recorded
<1>12. recorded' \in Seq(Lines) /\ Len(recorded') = Len(recorded) + 1
  BY <1>2, <1>10, AppendProperties DEF Recorded
<1>13. TypeOK'
  <2>1. nextSeq' \in Nat \ {0} /\ folded' \in Nat /\ dropped' \in Nat
    BY <1>10, <1>11
  <2>2. Len(buf') <= Slots
    BY <1>4, <1>5, <1>9
  <2>3. outsideWindow' \in Nat /\ running' \in YesNo
    BY <1>10 DEF Recorded
  <2>4. foldExhausted' \in YesNo /\ truncated' \in YesNo
    BY DEF YesNo
  <2>5. QED
    BY <1>9, <1>12, <2>1, <2>2, <2>3, <2>4 DEF TypeOK
<1>14. Whole'
  BY DEF Whole
<1>15. dropped' > 0
  BY <1>10
<1>16. Cut'
  <2>1. Cycles("text")' = {} /\ Cycles("shape")' = {}
    BY <1>1, <1>13, NoticeRepeatsNothing
  <2>2. Len(buf') = Slots /\ buf'[Slots].line = Notice
    BY <1>3, <1>4, <1>9
  <2>3. \A i \in 1..Slots - 1 : buf'[i].line \in Lines
    BY <1>5, <1>9
  <2>4. QED
    BY <1>15, <2>1, <2>2, <2>3 DEF Cut
<1>17. Numbered' /\ LastIsOne'
  <2>1. ASSUME NEW i \in 1..n
        PROVE  buf'[i].seq = buf[i].seq /\ buf[i].seq < q
    <3>1. i \in 1..Len(buf)
      BY <1>5
    <3>2. QED
      BY <1>1, <1>9, <1>11, <3>1 DEF Numbered, Ordered
  <2>2. buf'[n + 1].seq = q
    BY <1>3, <1>9, <1>11
  <2>3. ASSUME NEW i \in 1..n + 1 PROVE buf'[i].seq < q + 1
    <3>1. CASE i = n + 1
      <4>1. buf'[i].seq = q
        BY <2>2, <3>1, Zenon
      <4>2. q < q + 1
        OBVIOUS
      <4>3. QED
        BY <4>1, <4>2
    <3>2. CASE i # n + 1
      <4>1. i \in 1..n
        BY <3>2
      <4>2. PICK y \in Nat : y = buf[i].seq
        BY <1>1, <1>5, BufferIs
      <4>3. buf'[i].seq = y /\ y < q
        BY <2>1, <4>1, <4>2
      <4>4. y < q + 1
        BY <4>3
      <4>5. QED
        BY <4>3, <4>4
    <3>3. QED
      BY <3>1, <3>2
  <2>4. ASSUME NEW i \in 1..n + 1, NEW j \in 1..n + 1, i < j
        PROVE  buf'[i].seq < buf'[j].seq
    <3>1. i \in 1..n
      BY <2>4
    <3>2. CASE j = n + 1
      <4>1. buf'[i].seq = buf[i].seq /\ buf[i].seq < q
        BY <2>1, <3>1
      <4>2. buf'[j].seq = q
        BY <2>2, <3>2, Zenon
      <4>3. QED
        BY <4>1, <4>2
    <3>3. CASE j # n + 1
      <4>1. j \in 1..n
        BY <3>3
      <4>2. i \in 1..Len(buf) /\ j \in 1..Len(buf)
        BY <1>5
      <4>3. buf[i].seq < buf[j].seq
        BY <1>1, <2>4, <4>2 DEF Numbered, Ordered
      <4>4. buf'[i].seq = buf[i].seq
        BY <2>1, <3>1
      <4>5. buf'[j].seq = buf[j].seq
        BY <2>1, <4>1
      <4>6. QED
        BY <4>3, <4>4, <4>5
    <3>4. QED
      BY <3>2, <3>3
  <2>5. Ordered(buf, nextSeq)'
    BY <1>9, <1>11, <2>3, <2>4 DEF Ordered
  <2>6. buf' # <<>> /\ buf # <<>> /\ buf'[Len(buf')].repeats = 1
    <3>1. Len(<<>>) = 0 /\ n + 1 # 0
      OBVIOUS
    <3>2. QED
      BY <1>3, <1>5, <1>9, <3>1
  <2>7. buf'[1].seq = 1 \/ Slots = 1
    <3>1. CASE n = 0
      BY <1>4, <3>1
    <3>2. CASE n # 0
      <4>1. 1 \in 1..n
        BY <3>2
      <4>2. buf'[1].seq = buf[1].seq
        BY <2>1, <4>1
      <4>3. QED
        BY <1>1, <2>6, <4>2 DEF Numbered
    <3>3. QED
      BY <3>1, <3>2
  <2>8. QED
    BY <2>5, <2>6, <2>7 DEF Numbered, LastIsOne
<1>18. Accounted'
  <2>1. Counted(Lines)' = CountedIn(buf', Lines)
    BY DEF Counted, CountedIn, Weights, Holding
  <2>2. CountedIn(buf', Lines) = SumTo(Weights(buf', Lines), n) + 0
    BY <1>3, <1>9, NoticeIsNoLine, LastCounts
  <2>3. CountedIn(buf, Lines) = SumTo(Weights(buf, Lines), n) + x
    <3>1. x = IF buf[n + 1].line \in Lines THEN buf[n + 1].repeats ELSE 0
      BY <1>4, Zenon
    <3>2. QED
      BY <1>5, <1>6, <3>1, LastCounts
  <2>4. SumTo(Weights(buf', Lines), n) = SumTo(Weights(buf, Lines), n)
    <3>1. n <= Len(buf) /\ n <= Len(buf')
      BY <1>5, <1>9
    <3>2. \A i \in 1..n : buf[i] = buf'[i]
      BY <1>9
    <3>3. QED
      BY <1>6, <1>9, <3>1, <3>2, FirstCount
  <2>5. PICK t \in Nat : t = SumTo(Weights(buf, Lines), n)
    <3>1. Numbers(Weights(buf, Lines), n + 1)
      BY <1>5, <1>6, WeightsAre
    <3>2. Numbers(Weights(buf, Lines), n)
      BY <3>1 DEF Numbers
    <3>3. QED
      BY <3>2, SumIsNumber
  <2>6. Counted(Lines)' = t /\ Counted(Lines) = t + x
    BY <1>1, <2>1, <2>2, <2>3, <2>4, <2>5, CountedIs
  <2>7. t = folded + n
    <3>1. PICK a \in Nat : a = folded
      BY <1>10
    <3>2. t + x = a + n + x
      BY <1>5, <2>6, <3>1
    <3>3. t = a + n
      BY <3>2
    <3>4. QED
      BY <3>1, <3>3
  <2>8. Counted(Lines) + dropped = Len(recorded)
    BY <1>1 DEF Accounted
  <2>9. t + dropped' = Len(recorded')
    <3>1. PICK a \in Nat : a = dropped
      BY <1>10
    <3>2. dropped' = a + x + 1
      BY <3>1
    <3>3. Len(recorded) = t + x + a
      BY <2>6, <2>8, <3>1
    <3>4. t + (a + x + 1) = t + x + a + 1
      OBVIOUS
    <3>5. QED
      BY <1>12, <3>2, <3>3, <3>4
  <2>10. QED
    BY <1>5, <2>6, <2>7, <2>9 DEF Accounted
<1>19. LosslessCounts'
  BY <1>15 DEF LosslessCounts
<1>20. QED
  BY <1>13, <1>14, <1>16, <1>17, <1>18, <1>19 DEF EventInv

\* Truncate: the slot it takes counted the one event it held.
LEMMA TruncateKeeps ==
  ASSUME EventInv, NEW line \in Ordinary, Truncate(line)
  PROVE  EventInv'
<1>1. /\ TypeOK /\ AllLines(buf) /\ LastIsOne /\ Accounted
      /\ dropped = 0 /\ foldExhausted = "no"
  BY DEF EventInv, Whole, Truncate
<1>2. PICK n \in Nat : n = Slots /\ n = Len(buf) /\ n >= 1
  BY <1>1, BufferIs DEF Truncate
<1>3. n \in 1..n /\ buf # <<>>
  BY <1>2
<1>4. \A i \in 1..Slots - 1 : buf[i].line \in Lines
  BY <1>1, <1>2 DEF AllLines
<1>5. buf[Slots].line \in Lines /\ buf[Slots].repeats = 1
  BY <1>1, <1>2, <1>3 DEF AllLines, LastIsOne
<1>6. Counted(Lines) = folded + (Slots - 1) + 1
  <2>1. folded \in Nat /\ Counted(Lines) = folded + n
    BY <1>1, <1>2 DEF Accounted, TypeOK
  <2>2. QED
    BY <1>2, <2>1
<1>7. dropped' = dropped + 1 + 1
  BY <1>1 DEF Truncate
<1>8. QED
  BY <1>2, <1>4, <1>5, <1>6, <1>7, CuttingKeeps DEF Truncate

\* Drop: the slot it takes held the notice already.
LEMMA DropKeeps ==
  ASSUME EventInv, NEW line \in Ordinary, Drop(line)
  PROVE  EventInv'
<1>1. /\ TypeOK /\ Cut /\ Accounted /\ foldExhausted = "yes"
      /\ truncated = foldExhausted
  BY DEF EventInv, Drop
<1>2. /\ Len(buf) = Slots /\ \A i \in 1..Slots - 1 : buf[i].line \in Lines
      /\ Cycles("text") = {} /\ Cycles("shape") = {}
      /\ buf[Slots].line \notin Lines
  BY <1>1, NoticeIsNoLine DEF Cut
<1>3. Slots \in Nat \ {0} /\ folded \in Nat /\ dropped \in Nat
  BY <1>1, BufferAssumption DEF TypeOK
<1>4. Counted(Lines) = folded + (Slots - 1) + 0
  BY <1>1, <1>3 DEF Accounted
<1>5. /\ dropped' = dropped + 0 + 1 /\ folded' = folded
      /\ foldExhausted' = "yes" /\ truncated' = "yes"
      /\ Recorded(line) /\ MarkTruncated
  BY <1>1, <1>3 DEF Drop, flags
<1>6. QED
  BY <1>2, <1>4, <1>5, CuttingKeeps

LEMMA StoreKeeps ==
  ASSUME EventInv, NEW line \in Ordinary, Store(line)
  PROVE  EventInv'
<1>1. TypeOK /\ Numbered /\ Cut /\ Whole
  BY DEF EventInv
<1>2. foldExhausted = "no"
  <2>1. PICK n \in Nat : n = Len(buf)
    BY <1>1, BufferIs
  <2>2. foldExhausted # "yes"
    BY <1>1, <2>1, BufferAssumption DEF Cut, Store
  <2>3. QED
    BY <1>1, <2>2 DEF TypeOK, YesNo
<1>3. PICK b \in Seq(Events) : b = buf
  BY <1>1 DEF TypeOK
<1>4. /\ AllLines(b) /\ Ordered(b, nextSeq) /\ Len(b) < Slots
      /\ (b # <<>> <=> buf # <<>>) /\ (buf # <<>> => b[1].seq = buf[1].seq)
  BY <1>1, <1>2, <1>3 DEF Whole, Numbered, Store
<1>5. 0 \in Nat /\ Len(buf) = Len(b) + 0 /\ folded' = folded + 0
  <2>1. Len(b) \in Nat /\ folded \in Nat /\ folded' = folded
    BY <1>1, LenProperties DEF TypeOK, Store
  <2>2. QED
    BY <1>3, <2>1
<1>6. CountedIn(b, Lines) = Counted(Lines)
  BY <1>1, <1>3, CountedIs
<1>7. Lossless(b) =>
        /\ Lossless(buf)
        /\ \A l \in Ordinary : CountedIn(b, {l}) = Counted({l})
  BY <1>1, <1>3, CountedIs
<1>8. /\ Recorded(line) /\ UNCHANGED <<dropped, flags>>
      /\ buf' = Append(b, Event(line))
  BY <1>3 DEF Store
<1>9. QED
  BY <1>2, <1>4, <1>5, <1>6, <1>7, <1>8, RecordingKeeps

\* A window begins with nothing recorded and nothing lost.
Empty ==
  /\ buf = <<>> /\ recorded = <<>> /\ nextSeq = 1 /\ dropped = 0 /\ folded = 0
  /\ foldExhausted = "no" /\ truncated = "no"
  /\ running \in YesNo /\ outsideWindow \in Nat

\* With nothing recorded, the invariant holds.
LEMMA EmptyRecord == Empty => EventInv
<1> SUFFICES ASSUME Empty PROVE EventInv
  OBVIOUS
<1> USE DEF Empty
<1>1. TypeOK
  <2>1. <<>> \in Seq(Events) /\ <<>> \in Seq(Lines) /\ Len(<<>>) = 0
    OBVIOUS
  <2>2. 1 \in Nat \ {0} /\ 0 \in Nat /\ 0 <= Slots
    BY BufferAssumption
  <2>3. QED
    BY <2>1, <2>2 DEF TypeOK, YesNo
<1>2. Len(buf) = 0 /\ Len(recorded) = 0
  OBVIOUS
<1>3. ASSUME NEW lines PROVE Counted(lines) = 0
  <2>1. CountedIn(buf, lines) = 0
    BY <1>2, SumNothing DEF CountedIn
  <2>2. QED
    BY <1>1, <2>1, CountedIs
<1>4. Whole /\ Cut /\ Numbered /\ LastIsOne
  BY <1>2 DEF Whole, Cut, Numbered, LastIsOne, AllLines, Ordered
<1>5. Accounted
  BY <1>2, <1>3 DEF Accounted
<1>6. LosslessCounts
  <2>1. ASSUME NEW line \in Ordinary
        PROVE  Cardinality({n \in 1..Len(recorded) : recorded[n] = line}) = 0
    <3>1. {n \in 1..Len(recorded) : recorded[n] = line} = {}
      BY <1>2
    <3>2. QED
      BY <3>1, FS_EmptySet
  <2>2. QED
    BY <1>3, <2>1 DEF LosslessCounts
<1>7. QED
  BY <1>1, <1>4, <1>5, <1>6 DEF EventInv

\* Numbers are used up without a record only outside a window.
OutsideOnly ==
  /\ nextSeq' = nextSeq \/ (running' = "no" /\ nextSeq' = nextSeq + 1)
  /\ running' = "yes" => running = "yes"

\* What leaves the record alone keeps the invariant.
LEMMA RecordStands ==
  ASSUME EventInv,
         UNCHANGED <<buf, dropped, folded, flags, recorded>>,
         outsideWindow' \in Nat, running' \in YesNo, OutsideOnly
  PROVE  EventInv'
<1>1. /\ TypeOK /\ truncated = foldExhausted
      /\ Whole /\ Cut /\ Numbered /\ LastIsOne /\ Accounted /\ LosslessCounts
  BY DEF EventInv
<1>2. PICK q \in Nat : q = nextSeq /\ q # 0
  BY <1>1 DEF TypeOK
<1>3. PICK p \in Nat : p = nextSeq' /\ p >= q
  BY <1>2 DEF OutsideOnly
<1>4. TypeOK'
  BY <1>1, <1>2, <1>3 DEF TypeOK, flags
<1>5. /\ buf' = buf /\ recorded' = recorded /\ dropped' = dropped
      /\ folded' = folded /\ foldExhausted' = foldExhausted
      /\ truncated' = truncated
  BY DEF flags
<1>6. ASSUME NEW by PROVE Cycles(by)' = Cycles(by)
  BY <1>5 DEF Cycles, Repeats, Same, SameText, SameShape
<1>7. Whole' /\ Cut' /\ LastIsOne'
  BY <1>1, <1>5, <1>6 DEF Whole, Cut, LastIsOne, AllLines
<1>8. Numbered'
  <2>1. ASSUME NEW i \in 1..Len(buf) PROVE buf[i].seq < p
    <3>1. PICK y \in Nat : y = buf[i].seq
      BY <1>1, BufferIs
    <3>2. y < q
      BY <1>1, <1>2, <3>1 DEF Numbered, Ordered
    <3>3. y < p
      BY <1>3, <3>2
    <3>4. QED
      BY <3>1, <3>3
  <2>2. Ordered(buf, nextSeq)'
    BY <1>1, <1>3, <1>5, <2>1 DEF Numbered, Ordered
  <2>3. running' = "yes" /\ buf' = <<>> => nextSeq' = 1
    BY <1>1, <1>5 DEF Numbered, OutsideOnly
  <2>4. QED
    BY <1>1, <1>5, <2>2, <2>3 DEF Numbered
<1>9. ASSUME NEW lines PROVE Counted(lines)' = Counted(lines)
  BY <1>5 DEF Counted, Holding
<1>10. Accounted' /\ LosslessCounts'
  BY <1>1, <1>5, <1>9 DEF Accounted, LosslessCounts
<1>11. QED
  BY <1>1, <1>4, <1>5, <1>7, <1>8, <1>10 DEF EventInv

\* Init is such a state.
LEMMA EventInitially == Init => EventInv
BY EmptyRecord DEF Init, YesNo, Empty

\* Every step keeps the invariant.
LEMMA EventKept == EventInv /\ [Next]_vars => EventInv'
<1> SUFFICES ASSUME EventInv, [Next]_vars PROVE EventInv'
  OBVIOUS
<1>1. TypeOK
  BY DEF EventInv
<1>2. ASSUME NEW line \in Ordinary, Store(line) PROVE EventInv'
  BY <1>2, StoreKeeps
<1>3. ASSUME NEW line \in Ordinary, FoldAndStore(line) PROVE EventInv'
  BY <1>3, FoldKeeps
<1>4. ASSUME NEW line \in Ordinary, SummariseAndStore(line) PROVE EventInv'
  BY <1>4, SummaryKeeps
<1>5. ASSUME NEW line \in Ordinary, Truncate(line) PROVE EventInv'
  BY <1>5, TruncateKeeps
<1>6. ASSUME NEW line \in Ordinary, Drop(line) PROVE EventInv'
  BY <1>6, DropKeeps
<1>7. CASE RecordOutside
  <2>1. /\ UNCHANGED <<buf, dropped, folded, flags, recorded>>
        /\ outsideWindow' \in Nat /\ running' \in YesNo
    BY <1>1, <1>7 DEF RecordOutside, TypeOK, YesNo
  <2>2. OutsideOnly
    BY <1>7 DEF RecordOutside, OutsideOnly
  <2>3. QED
    BY <2>1, <2>2, RecordStands
<1>8. CASE RunBegin
  <2>1. Empty'
    BY <1>1, <1>8 DEF RunBegin, TypeOK, YesNo, Empty
  <2>2. Empty' => EventInv'
    BY EmptyRecord, PTL
  <2>3. QED
    BY <2>1, <2>2
<1>9. CASE RunEnd
  <2>1. /\ UNCHANGED <<buf, dropped, folded, flags, recorded>>
        /\ outsideWindow' \in Nat /\ running' \in YesNo
    BY <1>1, <1>9 DEF RunEnd, TypeOK, YesNo
  <2>2. OutsideOnly
    BY <1>9 DEF RunEnd, OutsideOnly
  <2>3. QED
    BY <2>1, <2>2, RecordStands
<1>10. CASE UNCHANGED vars
  <2>1. /\ UNCHANGED <<buf, dropped, folded, flags, recorded>>
        /\ outsideWindow' \in Nat /\ running' \in YesNo
    BY <1>1, <1>10 DEF vars, flags, TypeOK
  <2>2. OutsideOnly
    BY <1>10 DEF vars, OutsideOnly
  <2>3. QED
    BY <2>1, <2>2, RecordStands
<1>11. QED
  BY <1>2, <1>3, <1>4, <1>5, <1>6, <1>7, <1>8, <1>9, <1>10 DEF Next

\* So it always holds.
LEMMA EventAlways == Spec => []EventInv
<1>1. Init => EventInv
  BY EventInitially
<1>2. EventInv /\ [Next]_vars => EventInv'
  BY EventKept
<1>3. QED
  BY <1>1, <1>2, PTL DEF Spec

-----------------------------------------------------------------------------
(* The theorems.                                                           *)

\* Every variable of the record keeps its type; the buffer never outgrows
\* its slots, whatever folds and cuts came before (vrecord).
THEOREM EventTypeCorrect == Spec => []TypeOK
<1>1. EventInv => TypeOK
  BY DEF EventInv
<1>2. QED
  BY <1>1, EventAlways, PTL

\* Whatever was folded, summarised or cut, the counts kept and the count
\* lost add up to what was recorded, and the slots saved to what the folds
\* report (foldCycle, foldShapeCycle, markTruncated).
THEOREM NoEventGoesMissing == Spec => []EveryEventAccounted
<1>1. EventInv => EveryEventAccounted
  <2> SUFFICES ASSUME EventInv PROVE EveryEventAccounted
    OBVIOUS
  <2>1. /\ TypeOK /\ truncated = foldExhausted /\ Whole /\ Cut /\ Accounted
    BY DEF EventInv
  <2>2. PICK h \in Nat : h = Cardinality(Holding(Lines))
    <3>1. Len(buf) \in Nat /\ Slots - 1 \in Nat
      <4>1. PICK s \in Nat \ {0} : s = Slots
        BY BufferAssumption
      <4>2. s - 1 \in Nat
        OBVIOUS
      <4>3. QED
        BY <2>1, <4>1, <4>2, BufferIs
    <3>2. QED
      BY <2>1, <3>1, HoldingIs
  <2>3. Counted(Lines) = folded + h
    BY <2>1, <2>2, HoldingIs DEF Accounted
  <2>4. folded + h = h + folded
    BY <2>1 DEF TypeOK
  <2>5. QED
    BY <2>1, <2>2, <2>3, <2>4 DEF EveryEventAccounted, Accounted
<1>2. QED
  BY <1>1, EventAlways, PTL

\* The record is cut only with the notice in the last slot, and never while
\* something in it still repeats, then or later (vrecord).
THEOREM ACutIsForGood == Spec => []CutOnlyWhenNothingRepeats
<1>1. EventInv => CutOnlyWhenNothingRepeats
  BY DEF EventInv, TypeOK, YesNo, Whole, Cut, CutOnlyWhenNothingRepeats
<1>2. QED
  BY <1>1, EventAlways, PTL

\* Folding keeps the first event of the window first and the lines in the
\* order of their first copies (foldCycle, foldShapeCycle).
THEOREM TheBeginningStays == Spec => []BeginningAndOrderKept
<1>1. EventInv => BeginningAndOrderKept
  BY DEF EventInv, Numbered, Ordered, BeginningAndOrderKept
<1>2. QED
  BY <1>1, EventAlways, PTL

\* Until a summary is made or the record is cut, each text is counted as
\* often as it was recorded (foldCycle).
THEOREM TextFoldsLoseNothing == Spec => []LosslessCounts
<1>1. EventInv => LosslessCounts
  BY DEF EventInv
<1>2. QED
  BY <1>1, EventAlways, PTL
=============================================================================
