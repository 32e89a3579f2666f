-------------------------- MODULE InductionTheorems --------------------------
(***************************************************************************)
(* What the proofs need induction for, without operators as parameters:    *)
(* what holds is a set of numbers, a recursion's step a function.  What a  *)
(* function defined by recursion is, running sums, and sequences that are  *)
(* put together.  And division with a remainder.                           *)
(***************************************************************************)
EXTENDS RunningSums, SequencesExt, WellFoundedInduction, TLAPS

LessThan == {ss \in Nat \X Nat : ss[1] < ss[2]}

LEMMA LessThanWellFounded == IsWellFoundedOn(LessThan, Nat)
BY NatLessThanWellFounded, Zenon DEF OpToRel, LessThan

LEMMA Predecessor == ASSUME NEW n \in Nat, n # 0 PROVE <<n - 1, n>> \in LessThan
<1>1. n - 1 \in Nat /\ n - 1 < n
  OBVIOUS
<1>2. <<n - 1, n>> \in Nat \X Nat /\ <<n - 1, n>>[1] = n - 1 /\ <<n - 1, n>>[2] = n
  BY <1>1
<1> QED BY <1>1, <1>2 DEF LessThan

\* A set of numbers that has 0, and with each number the next one, has all of them.
THEOREM SetInduction ==
  ASSUME NEW S, 0 \in S, \A n \in Nat : n \in S => n + 1 \in S
  PROVE  \A n \in Nat : n \in S
<1> DEFINE Missing == Nat \ S
<1>1. ASSUME Missing # {} PROVE FALSE
  <2>1. PICK n \in Missing : \A m \in Missing : <<m, n>> \notin LessThan
    <3>1. Missing \subseteq Nat
      OBVIOUS
    <3> HIDE DEF Missing
    <3> QED BY <1>1, <3>1, LessThanWellFounded, WFMin
  <2>2. n \in Nat /\ n # 0 /\ n - 1 \in Nat /\ n \notin S
    OBVIOUS
  <2>3. n - 1 \notin Missing
    BY <2>1, <2>2, Predecessor
  <2> QED BY <2>2, <2>3
<1> QED BY <1>1

\* The same up to a number.
THEOREM UpToInduction ==
  ASSUME NEW S, NEW k \in Nat, 0 \in S, \A n \in 0..k - 1 : n \in S => n + 1 \in S
  PROVE  \A n \in 0..k : n \in S
<1> DEFINE T == S \cup {n \in Nat : n > k}
<1>1. \A n \in Nat : n \in T
  <2>1. 0 \in T
    OBVIOUS
  <2>2. ASSUME NEW n \in Nat, n \in T PROVE n + 1 \in T
    BY <2>2
  <2> HIDE DEF T
  <2> QED BY <2>1, <2>2, SetInduction
<1> QED BY <1>1

-----------------------------------------------------------------------------
\* The beginnings, of n steps, of a recursion in V that starts with c.
Runs(V, c, step, n) ==
  {f \in [0..n -> V] : f[0] = c /\ \A i \in 1..n : f[i] = step[<<f[i - 1], i>>]}

\* A recursion whose steps stay in V has a function that obeys it.
THEOREM RecursionExists ==
  ASSUME NEW V, NEW c \in V, NEW step \in [V \X Nat -> V], NEW k \in Nat
  PROVE  Runs(V, c, step, k) # {}
<1> DEFINE Has == {n \in Nat : Runs(V, c, step, n) # {}}
<1>1. 0 \in Has
  <2>1. [i \in 0..0 |-> c] \in Runs(V, c, step, 0)
    BY DEF Runs
  <2> QED BY <2>1
<1>2. ASSUME NEW n \in Nat, n \in Has PROVE n + 1 \in Has
  <2>1. PICK f : f \in Runs(V, c, step, n)
    BY <1>2
  <2> DEFINE g == [i \in 0..n + 1 |-> IF i <= n THEN f[i] ELSE step[<<f[n], n + 1>>]]
  <2>2. f \in [0..n -> V] /\ f[0] = c /\ \A i \in 1..n : f[i] = step[<<f[i - 1], i>>]
    BY <2>1 DEF Runs
  <2>3. g \in [0..n + 1 -> V]
    <3>1. f[n] \in V /\ step[<<f[n], n + 1>>] \in V
      BY <2>2
    <3> QED BY <2>2, <3>1
  <2>4. g[0] = c
    BY <2>2
  <2>5. ASSUME NEW i \in 1..n + 1 PROVE g[i] = step[<<g[i - 1], i>>]
    <3>1. i - 1 \in 0..n /\ i \in 0..n + 1 /\ g[i - 1] = f[i - 1]
      OBVIOUS
    <3>2. CASE i <= n
      <4>1. i \in 1..n /\ g[i] = f[i]
        BY <3>2
      <4> QED BY <2>2, <3>1, <4>1
    <3>3. CASE i = n + 1
      <4>1. i - 1 = n /\ g[i] = step[<<f[n], n + 1>>]
        BY <3>3
      <4> QED BY <3>1, <3>3, <4>1
    <3> QED BY <3>2, <3>3
  <2>6. g \in Runs(V, c, step, n + 1)
    <3> HIDE DEF g
    <3> QED BY <2>3, <2>4, <2>5 DEF Runs
  <2> QED BY <2>6
<1>3. k \in Has
  <2> HIDE DEF Has
  <2> QED BY <1>1, <1>2, SetInduction
<1> QED BY <1>3

-----------------------------------------------------------------------------
\* A running sum starts with nothing and grows by one member at a time.
THEOREM RunningSumGrows ==
  ASSUME NEW a, Len(a) \in Nat, \A i \in 1..Len(a) : a[i] \in Nat
  PROVE  /\ RunningSum(a) \in [0..Len(a) -> Nat]
         /\ RunningSum(a)[0] = 0
         /\ \A i \in 1..Len(a) : RunningSum(a)[i] = RunningSum(a)[i - 1] + a[i]
<1> DEFINE n == Len(a)
           step == [p \in Nat \X Nat |-> IF p[2] \in 1..n THEN p[1] + a[p[2]] ELSE p[1]]
           Sum(f) == [i \in 0..n |-> IF i = 0 THEN 0 ELSE f[i - 1] + a[i]]
<1>1. step \in [Nat \X Nat -> Nat]
  OBVIOUS
<1>2. PICK f \in [0..n -> Nat] : f[0] = 0 /\ \A i \in 1..n : f[i] = step[<<f[i - 1], i>>]
  <2>1. n \in Nat /\ 0 \in Nat
    OBVIOUS
  <2> HIDE DEF n, step
  <2>2. Runs(Nat, 0, step, n) # {}
    BY <1>1, <2>1, RecursionExists
  <2> QED BY <2>2 DEF Runs
<1>3. \A i \in 1..n : f[i] = f[i - 1] + a[i]
  <2> SUFFICES ASSUME NEW i \in 1..n PROVE f[i] = f[i - 1] + a[i]
    OBVIOUS
  <2>1. i - 1 \in 0..n /\ i \in Nat
    OBVIOUS
  <2>2. <<f[i - 1], i>> \in Nat \X Nat
    BY <2>1
  <2> QED BY <1>2, <2>2
<1>4. f = Sum(f)
  <2>1. \A i \in 0..n : f[i] = Sum(f)[i]
    BY <1>2, <1>3
  <2> QED BY <2>1
<1>5. RunningSum(a) = Sum(RunningSum(a))
  <2>1. RunningSum(a) = CHOOSE g : g = Sum(g)
    BY DEF RunningSum
  <2> HIDE DEF Sum
  <2> QED BY <1>4, <2>1
<1>6. PICK r : r = RunningSum(a)
  OBVIOUS
<1>7. r = [i \in 0..n |-> IF i = 0 THEN 0 ELSE r[i - 1] + a[i]]
  BY <1>5, <1>6, Zenon
<1>8. r[0] = 0 /\ \A i \in 1..n : r[i] = r[i - 1] + a[i]
  <2> HIDE DEF n, Sum
  <2>1. n \in Nat
    BY DEF n
  <2> QED BY <1>7, <2>1
<1>9. r \in [0..n -> Nat]
  <2> DEFINE Numbers == {i \in 0..n : r[i] \in Nat}
  <2>2. \A i \in 0..n : i \in Numbers
    <3>1. 0 \in Numbers
      BY <1>8
    <3>2. ASSUME NEW i \in 0..n - 1, i \in Numbers PROVE i + 1 \in Numbers
      <4>1. i + 1 \in 1..n /\ (i + 1) - 1 = i /\ a[i + 1] \in Nat
        OBVIOUS
      <4> QED BY <1>8, <3>2, <4>1
    <3> HIDE DEF Numbers
    <3> QED BY <3>1, <3>2, UpToInduction
  <2>3. \A i \in 0..n : r[i] \in Nat
    BY <2>2
  <2> HIDE DEF n, Numbers, Sum
  <2> QED BY <1>7, <2>3
<1> QED BY <1>6, <1>8, <1>9

\* It depends on the members it has summed up only.
THEOREM RunningSumsAgree ==
  ASSUME NEW a, Len(a) \in Nat, \A i \in 1..Len(a) : a[i] \in Nat,
         NEW b, Len(b) \in Nat, \A i \in 1..Len(b) : b[i] \in Nat,
         NEW k \in Nat, k <= Len(a), k <= Len(b), \A i \in 1..k : a[i] = b[i]
  PROVE  RunningSum(a)[k] = RunningSum(b)[k]
<1> DEFINE f == RunningSum(a)
           g == RunningSum(b)
           Same == {i \in 0..k : f[i] = g[i]}
<1>1. /\ f[0] = 0 /\ g[0] = 0
      /\ \A i \in 1..k : f[i] = f[i - 1] + a[i] /\ g[i] = g[i - 1] + b[i]
  <2>1. f[0] = 0 /\ \A i \in 1..Len(a) : f[i] = f[i - 1] + a[i]
    BY RunningSumGrows
  <2>2. g[0] = 0 /\ \A i \in 1..Len(b) : g[i] = g[i - 1] + b[i]
    BY RunningSumGrows
  <2> HIDE DEF f, g
  <2> QED BY <2>1, <2>2
<1> HIDE DEF f, g
<1>2. \A i \in 0..k : i \in Same
  <2>1. 0 \in Same
    BY <1>1
  <2>2. ASSUME NEW i \in 0..k - 1, i \in Same PROVE i + 1 \in Same
    <3>1. i + 1 \in 1..k /\ (i + 1) - 1 = i
      OBVIOUS
    <3> QED BY <1>1, <2>2, <3>1
  <2> HIDE DEF Same
  <2> QED BY <2>1, <2>2, UpToInduction
<1> QED BY <1>2 DEF f, g

-----------------------------------------------------------------------------
(* Sequences put together.                                                 *)

\* The functions that put the first sequences together, one after the other.
Joinings(S, seqs) ==
  {f \in [0..Len(seqs) -> Seq(S)] :
     f[0] = << >> /\ \A i \in 1..Len(seqs) : f[i] = f[i - 1] \o seqs[i]}

LEMMA JoiningExists ==
  ASSUME NEW S, NEW seqs \in Seq(Seq(S)) PROVE Joinings(S, seqs) # {}
<1> DEFINE n == Len(seqs)
           step == [p \in Seq(S) \X Nat |-> IF p[2] \in 1..n THEN p[1] \o seqs[p[2]] ELSE p[1]]
<1>1. n \in Nat /\ << >> \in Seq(S)
  OBVIOUS
<1>2. step \in [Seq(S) \X Nat -> Seq(S)]
  <2>1. ASSUME NEW p \in Seq(S) \X Nat, p[2] \in 1..n PROVE p[1] \o seqs[p[2]] \in Seq(S)
    BY <2>1
  <2> QED BY <2>1
<1>3. PICK f : f \in Runs(Seq(S), << >>, step, n)
  <2> HIDE DEF n, step
  <2> QED BY <1>1, <1>2, RecursionExists
<1>4. /\ f \in [0..n -> Seq(S)] /\ f[0] = << >>
      /\ \A i \in 1..n : f[i] = step[<<f[i - 1], i>>]
  <2> HIDE DEF n, step
  <2> QED BY <1>3 DEF Runs
<1>5. ASSUME NEW i \in 1..n PROVE f[i] = f[i - 1] \o seqs[i]
  <2>1. i - 1 \in 0..n /\ i \in Nat
    OBVIOUS
  <2>2. <<f[i - 1], i>> \in Seq(S) \X Nat
    BY <1>4, <2>1
  <2> QED BY <1>4, <2>2
<1> QED BY <1>4, <1>5 DEF Joinings

LEMMA FlattenIsJoining ==
  ASSUME NEW S, NEW seqs \in Seq(Seq(S)), NEW f \in Joinings(S, seqs)
  PROVE  FlattenSeq(seqs) = f[Len(seqs)]
<1> DEFINE n == Len(seqs)
           F(h) == [i \in 1..n |-> IF i = 1 THEN seqs[i] ELSE h[i - 1] \o seqs[i]]
           g == [i \in 1..n |-> f[i]]
<1>0. n \in Nat /\ \A i \in 1..n : seqs[i] \in Seq(S)
  OBVIOUS
<1>1. /\ f \in [0..n -> Seq(S)] /\ f[0] = << >>
      /\ \A i \in 1..n : f[i] = f[i - 1] \o seqs[i]
  BY DEF Joinings
<1> HIDE DEF n
<1>2. CASE n = 0
  <2>1. seqs = << >>
    BY <1>2 DEF n
  <2> QED BY <1>1, <1>2, <2>1 DEF FlattenSeq, n
<1>3. CASE n # 0
  <2>0. 1 \in 1..n /\ 1 - 1 = 0 /\ f[1] = seqs[1]
    <3>1. 1 \in 1..n /\ 1 - 1 = 0
      BY <1>0, <1>3
    <3>2. f[1] = << >> \o seqs[1] /\ seqs[1] \in Seq(S)
      BY <1>0, <1>1, <3>1
    <3> QED BY <3>1, <3>2
  <2>1. g = F(g)
    <3>1. ASSUME NEW i \in 1..n PROVE g[i] = F(g)[i]
      <4>1. CASE i = 1
        BY <2>0, <4>1
      <4>2. CASE i # 1
        <5>1. i - 1 \in 1..n
          BY <1>0, <4>2
        <5> QED BY <1>1, <4>2, <5>1
      <4> QED BY <4>1, <4>2
    <3> QED BY <3>1
  <2>2. PICK h : h = CHOOSE k : k = F(k)
    OBVIOUS
  <2>3. h = F(h)
    <3> HIDE DEF F
    <3> QED BY <2>1, <2>2
  <2>4. FlattenSeq(seqs) = h[n]
    BY <1>3, <2>2, Zenon DEF FlattenSeq, n
  <2>5. \A i \in 1..n : h[i] = IF i = 1 THEN seqs[i] ELSE h[i - 1] \o seqs[i]
    BY <2>3, Zenon
  <2> DEFINE Same == {i \in Nat : i < n => h[i + 1] = f[i + 1]}
  <2>6. \A i \in 0..n : i \in Same
    <3>1. 0 \in Same
      <4>1. h[1] = seqs[1] /\ 0 + 1 = 1
        BY <2>0, <2>5
      <4> QED BY <2>0, <4>1
    <3>2. ASSUME NEW i \in 0..n - 1, i \in Same PROVE i + 1 \in Same
      <4>1. CASE i + 1 < n
        <5>1. i + 2 \in 1..n /\ (i + 2) - 1 = i + 1 /\ i + 2 # 1 /\ h[i + 1] = f[i + 1]
             /\ (i + 1) + 1 = i + 2 /\ i + 1 \in Nat
          BY <1>0, <3>2, <4>1
        <5>2. h[i + 2] = h[i + 1] \o seqs[i + 2] /\ f[i + 2] = f[i + 1] \o seqs[i + 2]
          BY <1>1, <2>5, <5>1
        <5> QED BY <5>1, <5>2
      <4>2. CASE ~(i + 1 < n)
        BY <4>2
      <4> QED BY <4>1, <4>2
    <3> HIDE DEF Same
    <3> QED BY <1>0, <3>1, <3>2, UpToInduction
  <2>7. n - 1 \in 0..n /\ n - 1 < n /\ (n - 1) + 1 = n
    BY <1>0, <1>3
  <2>8. h[(n - 1) + 1] = f[(n - 1) + 1]
    BY <2>6, <2>7
  <2> QED BY <2>4, <2>7, <2>8 DEF n
<1> QED BY <1>2, <1>3

LEMMA FlattenEmpty == FlattenSeq(<< >>) = << >>
BY DEF FlattenSeq

LEMMA FlattenType ==
  ASSUME NEW S, NEW seqs \in Seq(Seq(S)) PROVE FlattenSeq(seqs) \in Seq(S)
<1>1. PICK f : f \in Joinings(S, seqs)
  BY JoiningExists
<1>2. f[Len(seqs)] \in Seq(S)
  BY <1>1 DEF Joinings
<1> QED BY <1>1, <1>2, FlattenIsJoining

\* One sequence more is put behind the others.
LEMMA FlattenAppend ==
  ASSUME NEW S, NEW seqs \in Seq(Seq(S)), NEW s \in Seq(S)
  PROVE  FlattenSeq(Append(seqs, s)) = FlattenSeq(seqs) \o s
<1> DEFINE more == Append(seqs, s)
           n == Len(seqs)
<1>1. more \in Seq(Seq(S)) /\ Len(more) = n + 1 /\ n \in Nat
      /\ \A i \in 1..n : more[i] = seqs[i]
  OBVIOUS
<1>2. more[n + 1] = s
  OBVIOUS
<1> HIDE DEF more
<1>3. PICK f : f \in Joinings(S, more)
  BY <1>1, JoiningExists
<1>4. /\ f \in [0..n + 1 -> Seq(S)] /\ f[0] = << >>
      /\ \A i \in 1..n + 1 : f[i] = f[i - 1] \o more[i]
  BY <1>1, <1>3 DEF Joinings
<1> DEFINE g == [i \in 0..n |-> f[i]]
<1>5. g \in Joinings(S, seqs)
  <2>1. g \in [0..n -> Seq(S)] /\ g[0] = << >>
    BY <1>1, <1>4
  <2>2. ASSUME NEW i \in 1..n PROVE g[i] = g[i - 1] \o seqs[i]
    <3>1. i \in 1..n + 1 /\ i \in 0..n /\ i - 1 \in 0..n
      BY <1>1
    <3> QED BY <1>1, <1>4, <3>1
  <2> HIDE DEF g
  <2> QED BY <2>1, <2>2 DEF Joinings
<1>6. FlattenSeq(seqs) = f[n]
  <2>1. g[n] = f[n]
    BY <1>1
  <2> HIDE DEF g
  <2> QED BY <1>5, <2>1, FlattenIsJoining
<1>7. FlattenSeq(more) = f[n + 1]
  BY <1>1, <1>3, FlattenIsJoining
<1>8. f[n + 1] = f[n] \o more[n + 1]
  <2>1. n + 1 \in 1..n + 1 /\ (n + 1) - 1 = n
    BY <1>1
  <2> QED BY <1>4, <2>1
<1> QED BY <1>2, <1>6, <1>7, <1>8 DEF more

-----------------------------------------------------------------------------
\* A number is made up of its quotient and its remainder.
LEMMA Split ==
  ASSUME NEW d \in Nat \ {0}, NEW a \in Nat
  PROVE  a = d * (a \div d) + (a % d) /\ a \div d \in Nat /\ a % d \in 0..d - 1
  OBVIOUS

\* What is smaller so many times is smaller.
LEMMA Below ==
  ASSUME NEW d \in Nat \ {0}, NEW a \in Nat, NEW m \in Nat, d * a < d * m PROVE a < m
  OBVIOUS

\* A number below the divisor is its own remainder.
LEMMA Small == ASSUME NEW m \in Nat \ {0}, NEW a \in 0..m - 1 PROVE a % m = a
  OBVIOUS
=============================================================================
