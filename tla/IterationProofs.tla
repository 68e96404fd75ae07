-------------------------- MODULE IterationProofs ---------------------------
(***************************************************************************)
(* Induction, recursive functions and sums.  The parameters are sets and   *)
(* functions, never operators, so that the provers can instantiate them;   *)
(* induction rests on the smallest counterexample.                         *)
(***************************************************************************)
EXTENDS Summation, WellFoundedInduction, TLAPS

(* Induction up to a bound. *)
LEMMA Induction ==
    ASSUME NEW n \in Nat, NEW S, 0 \in S, \A i \in 1..n : i - 1 \in S => i \in S
    PROVE  \A i \in 0..n : i \in S
<1> SUFFICES ASSUME \E i \in 0..n : i \notin S PROVE FALSE
  OBVIOUS
<1> DEFINE T == {i \in 0..n : i \notin S}
<1>1. T \subseteq Nat /\ T # {}
  OBVIOUS
<1>2. PICK x \in T : \A y \in T : ~ (<<y, x>> \in OpToRel(<, Nat))
  <2> HIDE DEF T
  <2> QED
    BY <1>1, NatLessThanWellFounded, WFMin
<1>3. \A y \in T : ~ (y < x)
  BY <1>1, <1>2 DEF OpToRel
<1>4. x \in 0..n /\ x \notin S
  OBVIOUS
<1>5. x \in 1..n
  BY <1>4
<1>6. x - 1 \in S
  <2>1. x - 1 \in 0..n /\ x - 1 < x
    BY <1>5
  <2> QED
    BY <1>3, <2>1
<1> QED
  BY <1>4, <1>5, <1>6

(* A function on 0..n is determined by its first value and by how each     *)
(* value follows from the one before.                                      *)
Steps(n, A) == [1..n -> [A -> A]]

Iterates(f, n, A, base, step) ==
    /\ f \in [0..n -> A]
    /\ f[0] = base
    /\ \A i \in 1..n : f[i] = step[i][f[i - 1]]

LEMMA Iteration ==
    ASSUME NEW n \in Nat, NEW A, NEW base \in A, NEW step \in Steps(n, A)
    PROVE  \E f : Iterates(f, n, A, base, step)
<1> USE DEF Steps
<1> DEFINE Reaches(m) ==
              \E f \in [0..m -> A] :
                 f[0] = base /\ \A i \in 1..m : f[i] = step[i][f[i - 1]]
           S == {m \in 0..n : Reaches(m)}
<1>1. 0 \in S
  <2> DEFINE f == [i \in 0..0 |-> base]
  <2>1. f \in [0..0 -> A] /\ f[0] = base /\ \A i \in 1..0 : f[i] = step[i][f[i - 1]]
    OBVIOUS
  <2> HIDE DEF f
  <2>2. Reaches(0)
    BY <2>1
  <2> HIDE DEF Reaches
  <2> QED
    BY <2>2
<1>2. ASSUME NEW m \in 1..n, m - 1 \in S PROVE m \in S
  <2>1. PICK f \in [0..(m - 1) -> A] :
           f[0] = base /\ \A i \in 1..(m - 1) : f[i] = step[i][f[i - 1]]
    BY <1>2
  <2> DEFINE g == [i \in 0..m |-> IF i = m THEN step[m][f[m - 1]] ELSE f[i]]
  <2>2. step[m][f[m - 1]] \in A
    BY <2>1
  <2>3. g \in [0..m -> A] /\ g[m] = step[m][f[m - 1]] /\ \A i \in 0..(m - 1) : g[i] = f[i]
    BY <2>2
  <2> HIDE DEF g
  <2>4. g[0] = base
    BY <2>1, <2>3
  <2>5. ASSUME NEW i \in 1..m PROVE g[i] = step[i][g[i - 1]]
    <3>1. CASE i = m
      BY <3>1, <2>3
    <3>2. CASE i # m
      <4>1. i \in 1..(m - 1) /\ i \in 0..(m - 1) /\ i - 1 \in 0..(m - 1)
        BY <3>2
      <4> QED
        BY <4>1, <2>1, <2>3
    <3> QED
      BY <3>1, <3>2
  <2>6. Reaches(m)
    BY <2>3, <2>4, <2>5
  <2> HIDE DEF Reaches
  <2> QED
    BY <2>6
<1>3. n \in S
  <2>1. \A m \in 0..n : m \in S
    <3> HIDE DEF S
    <3> QED
      BY <1>1, <1>2, Induction
  <2> QED
    BY <2>1
<1>4. Reaches(n)
  BY <1>3
<1> QED
  BY <1>4 DEF Iterates

(* What Sum computes. *)
Partial(f, n) ==
    CHOOSE sum : sum = [i \in 0..n |-> IF i = 0 THEN 0 ELSE sum[i - 1] + f[i]]

LEMMA PartialSums ==
    ASSUME NEW n \in Nat, NEW f, \A i \in 1..n : f[i] \in Int
    PROVE  /\ Partial(f, n) \in [0..n -> Int]
           /\ Partial(f, n)[0] = 0
           /\ \A i \in 1..n : Partial(f, n)[i] = Partial(f, n)[i - 1] + f[i]
           /\ Sum(f, n) = Partial(f, n)[n]
<1> DEFINE Eq(g) == g = [i \in 0..n |-> IF i = 0 THEN 0 ELSE g[i - 1] + f[i]]
           p == Partial(f, n)
<1>1. PICK step \in Steps(n, Int) : \A i \in 1..n, a \in Int : step[i][a] = a + f[i]
  <2> DEFINE s == [i \in 1..n |-> [a \in Int |-> a + f[i]]]
  <2>1. s \in Steps(n, Int) /\ \A i \in 1..n, a \in Int : s[i][a] = a + f[i]
    BY DEF Steps
  <2> HIDE DEF s
  <2> QED
    BY <2>1
<1>2. PICK g : Iterates(g, n, Int, 0, step)
  <2>1. 0 \in Int
    OBVIOUS
  <2> QED
    BY <2>1, Iteration, Zenon
<1>3. \A i \in 1..n : g[i] = g[i - 1] + f[i]
  <2>1. \A i \in 1..n : g[i - 1] \in Int
    BY <1>2 DEF Iterates
  <2> QED
    BY <1>1, <1>2, <2>1 DEF Iterates
<1>4. Eq(g)
  BY <1>2, <1>3 DEF Iterates
<1>5. Eq(p)
  <2>1. p = CHOOSE h : Eq(h)
    BY DEF Partial
  <2> HIDE DEF Eq
  <2> QED
    BY <1>4, <2>1
<1>6. p[0] = 0 /\ \A i \in 1..n : p[i] = p[i - 1] + f[i]
  <2> HIDE DEF p
  <2>1. 0 \in 0..n
    OBVIOUS
  <2>2. p[0] = 0
    BY <1>5, <2>1
  <2>3. ASSUME NEW i \in 1..n PROVE p[i] = p[i - 1] + f[i]
    <3>1. i \in 0..n /\ i # 0
      OBVIOUS
    <3> QED
      BY <1>5, <3>1
  <2> QED
    BY <2>2, <2>3
<1>7. \A i \in 0..n : p[i] \in Int
  <2> HIDE DEF p
  <2> DEFINE S == {i \in 0..n : p[i] \in Int}
  <2>1. 0 \in S
    BY <1>6
  <2>2. ASSUME NEW i \in 1..n, i - 1 \in S PROVE i \in S
    <3>1. p[i - 1] \in Int /\ f[i] \in Int /\ i \in 0..n
      BY <2>2
    <3>2. p[i] = p[i - 1] + f[i]
      BY <1>6
    <3>3. \A x, y \in Int : x + y \in Int
      OBVIOUS
    <3>4. p[i] \in Int
      BY <3>1, <3>2, <3>3, Zenon
    <3> QED
      BY <3>1, <3>4
  <2>3. \A i \in 0..n : i \in S
    <3> HIDE DEF S
    <3> QED
      BY <2>1, <2>2, Induction
  <2> QED
    BY <2>3
<1>8. p \in [0..n -> Int]
  BY <1>5, <1>7
<1>9. Sum(f, n) = p[n]
  BY DEF Sum, Partial
<1> QED
  BY <1>6, <1>8, <1>9

(* The sum of a prefix depends on the prefix only. *)
LEMMA PrefixSums ==
    ASSUME NEW n \in Nat, NEW m \in 0..n, NEW f, NEW g,
           \A i \in 1..n : f[i] \in Int, \A i \in 1..m : g[i] = f[i]
    PROVE  \A i \in 0..m : Partial(g, m)[i] = Partial(f, n)[i]
<1> DEFINE p == Partial(f, n)
           q == Partial(g, m)
           S == {i \in 0..m : q[i] = p[i]}
<1>1. m \in Nat /\ \A i \in 1..m : i \in 1..n
  OBVIOUS
<1>2. \A i \in 1..m : g[i] \in Int
  BY <1>1
<1>3. p[0] = 0 /\ \A i \in 1..n : p[i] = p[i - 1] + f[i]
  BY PartialSums
<1>4. q[0] = 0 /\ \A i \in 1..m : q[i] = q[i - 1] + g[i]
  BY <1>1, <1>2, PartialSums
<1> HIDE DEF p, q
<1>5. 0 \in S
  BY <1>1, <1>3, <1>4
<1>6. ASSUME NEW i \in 1..m, i - 1 \in S PROVE i \in S
  <2>1. q[i - 1] = p[i - 1] /\ g[i] = f[i] /\ i \in 0..m
    BY <1>6
  <2>2. q[i] = q[i - 1] + g[i] /\ p[i] = p[i - 1] + f[i]
    BY <1>1, <1>3, <1>4, Zenon
  <2> QED
    BY <2>1, <2>2, Zenon
<1>7. \A i \in 0..m : i \in S
  <2> HIDE DEF S
  <2> QED
    BY <1>1, <1>5, <1>6, Induction
<1> QED
  BY <1>7 DEF p, q

LEMMA SumZero ==
    ASSUME NEW f
    PROVE  Sum(f, 0) = 0
<1>1. \A i \in 1..0 : f[i] \in Int
  OBVIOUS
<1>2. 0 \in Nat
  OBVIOUS
<1> QED
  BY <1>1, <1>2, PartialSums

LEMMA SumInt ==
    ASSUME NEW n \in Nat, NEW f, \A i \in 1..n : f[i] \in Int
    PROVE  Sum(f, n) \in Int
<1>1. Partial(f, n) \in [0..n -> Int] /\ Sum(f, n) = Partial(f, n)[n]
  BY PartialSums
<1> QED
  BY <1>1

LEMMA SumSame ==
    ASSUME NEW n \in Nat, NEW f, NEW g,
           \A i \in 1..n : f[i] \in Int, \A i \in 1..n : g[i] = f[i]
    PROVE  Sum(g, n) = Sum(f, n)
<1>1. \A i \in 1..n : g[i] \in Int
  OBVIOUS
<1>2. n \in 0..n
  OBVIOUS
<1>3. Partial(g, n)[n] = Partial(f, n)[n]
  BY <1>2, PrefixSums
<1>4. Sum(g, n) = Partial(g, n)[n] /\ Sum(f, n) = Partial(f, n)[n]
  BY <1>1, PartialSums
<1> QED
  BY <1>3, <1>4

LEMMA SumNext ==
    ASSUME NEW n \in Nat \ {0}, NEW f, \A i \in 1..n : f[i] \in Int
    PROVE  Sum(f, n) = Sum(f, n - 1) + f[n]
<1>1. n - 1 \in 0..n /\ n - 1 \in Nat /\ n \in 1..n /\ n \in Nat /\ n - 1 \in 0..(n - 1)
  OBVIOUS
<1>2. \A i \in 1..(n - 1) : f[i] \in Int
  OBVIOUS
<1>3. Partial(f, n - 1)[n - 1] = Partial(f, n)[n - 1]
  BY <1>1, PrefixSums
<1>4. Sum(f, n - 1) = Partial(f, n - 1)[n - 1]
  BY <1>1, <1>2, PartialSums
<1>5. Sum(f, n) = Partial(f, n)[n] /\ Partial(f, n)[n] = Partial(f, n)[n - 1] + f[n]
  BY <1>1, PartialSums
<1> QED
  BY <1>3, <1>4, <1>5, Zenon

(* A change at one position changes the sum by as much. *)
LEMMA SumChange ==
    ASSUME NEW n \in Nat, NEW f, NEW g, NEW p \in 1..n, NEW d \in Int,
           \A i \in 1..n : f[i] \in Int,
           g[p] = f[p] + d,
           \A i \in 1..n : i # p => g[i] = f[i]
    PROVE  Sum(g, n) = Sum(f, n) + d
<1> DEFINE s == Partial(f, n)
           t == Partial(g, n)
           S == {i \in 0..n : t[i] = IF i < p THEN s[i] ELSE s[i] + d}
<1>1. \A i \in 1..n : g[i] \in Int
  <2> TAKE i \in 1..n
  <2>1. CASE i = p
    <3>1. \A x, y \in Int : x + y \in Int
      OBVIOUS
    <3> QED
      BY <2>1, <3>1, Zenon
  <2>2. CASE i # p
    BY <2>2, Zenon
  <2> QED
    BY <2>1, <2>2
<1>2. /\ s \in [0..n -> Int] /\ s[0] = 0 /\ \A i \in 1..n : s[i] = s[i - 1] + f[i]
      /\ Sum(f, n) = s[n]
  BY PartialSums
<1>3. /\ t[0] = 0 /\ \A i \in 1..n : t[i] = t[i - 1] + g[i]
      /\ Sum(g, n) = t[n]
  BY <1>1, PartialSums
<1> HIDE DEF s, t
<1>4. 0 \in S
  BY <1>2, <1>3
<1>5. ASSUME NEW i \in 1..n, i - 1 \in S PROVE i \in S
  <2>1. i \in 0..n /\ i - 1 \in 0..n /\ i \in Int /\ p \in Int
    OBVIOUS
  <2>2. t[i] = t[i - 1] + g[i] /\ s[i] = s[i - 1] + f[i] /\ s[i - 1] \in Int /\ f[i] \in Int
    BY <1>2, <1>3, <2>1
  <2> DEFINE a == s[i - 1]
             b == f[i]
             c == s[i]
             e == t[i]
  <2>3. a \in Int /\ b \in Int /\ c = a + b /\ e = t[i - 1] + g[i]
    BY <2>2
  <2>4. CASE i < p
    <3>1. t[i - 1] = a /\ g[i] = b
      BY <1>5, <2>1, <2>4
    <3>2. t[i] = s[i]
      BY <2>2, <3>1, Zenon
    <3> QED
      BY <2>1, <2>4, <3>2
  <2>5. CASE i = p
    <3>1. t[i - 1] = a /\ g[i] = b + d
      BY <1>5, <2>1, <2>5
    <3> HIDE DEF a, b, c, e
    <3>2. e = c + d
      BY <2>3, <3>1
    <3> QED
      BY <2>1, <2>5, <3>2 DEF c, e
  <2>6. CASE p < i
    <3>1. t[i - 1] = a + d /\ g[i] = b
      BY <1>5, <2>1, <2>6
    <3> HIDE DEF a, b, c, e
    <3>2. e = c + d
      BY <2>3, <3>1
    <3> QED
      BY <2>1, <2>6, <3>2 DEF c, e
  <2> QED
    BY <2>1, <2>4, <2>5, <2>6
<1>6. \A i \in 0..n : i \in S
  <2> HIDE DEF S
  <2> QED
    BY <1>4, <1>5, Induction
<1>7. n \in S
  BY <1>6
<1>8. t[n] = s[n] + d
  BY <1>7
<1> QED
  BY <1>2, <1>3, <1>8

LEMMA SumZeros ==
    ASSUME NEW n \in Nat, NEW f, \A i \in 1..n : f[i] = 0
    PROVE  Sum(f, n) = 0
<1> DEFINE p == Partial(f, n)
           S == {i \in 0..n : p[i] = 0}
<1>1. \A i \in 1..n : f[i] \in Int
  OBVIOUS
<1>2. /\ p[0] = 0 /\ \A i \in 1..n : p[i] = p[i - 1] + f[i]
      /\ Sum(f, n) = p[n]
  BY <1>1, PartialSums
<1> HIDE DEF p
<1>3. 0 \in S
  BY <1>2
<1>4. ASSUME NEW i \in 1..n, i - 1 \in S PROVE i \in S
  <2>1. p[i - 1] = 0 /\ f[i] = 0 /\ p[i] = p[i - 1] + f[i] /\ i \in 0..n /\ 0 + 0 = 0
    BY <1>2, <1>4
  <2>2. p[i] = 0
    BY <2>1, Zenon
  <2> QED
    BY <2>1, <2>2
<1>5. \A i \in 0..n : i \in S
  <2> HIDE DEF S
  <2> QED
    BY <1>3, <1>4, Induction
<1>6. n \in S
  BY <1>5
<1> QED
  BY <1>2, <1>6
=============================================================================
