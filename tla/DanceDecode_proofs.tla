--------------------------- MODULE DanceDecode_proofs ---------------------------
(***************************************************************************)
(* A coordinate is read back as it was danced, whatever its digits are, as *)
(* long as there are no more of them than the onlooker's array takes; and  *)
(* the reader keeps within the dance and its buffers in any case.          *)
(***************************************************************************)
EXTENDS DanceDecode, SequenceTheorems, NaturalsInduction, WellFoundedInduction, TLAPS

(* Induction, and what lets a recursive function be unfolded: the library  *)
(* states both for operators, here they are about sets and functions.      *)

Less == {p \in Nat \X Nat : p[1] < p[2]}

LEMMA LessWF == IsWellFoundedOn(Less, Nat)
  BY NatLessThanWellFounded DEF OpToRel, IsWellFoundedOn, Less

LEMMA Least ==
  ASSUME NEW S, S \subseteq Nat, S # {}
  PROVE  \E n \in S : \A m \in S : n <= m
<1>1. PICK n \in S : \A m \in S : ~(<<m, n>> \in Less)
  BY LessWF, WFMin
<1>2. \A m \in S : ~(m < n)
  BY <1>1 DEF Less
<1>. QED  BY <1>2

(* Induction on a rank: a set that has every x whose predecessors it has   *)
(* has all of S.                                                           *)
LEMMA Descent ==
  ASSUME NEW S, NEW rank \in [S -> Nat], NEW P,
         \A x \in S : (\A y \in S : rank[y] < rank[x] => y \in P) => x \in P
  PROVE  S \subseteq P
<1>. SUFFICES ASSUME NEW z \in S, z \notin P PROVE FALSE
  OBVIOUS
<1>. DEFINE R == {rank[x] : x \in S \ P}
<1>1. R \subseteq Nat /\ R # {}
  OBVIOUS
<1>2. PICK n \in R : \A m \in R : n <= m
  BY <1>1, Least
<1>3. PICK x \in S \ P : rank[x] = n
  BY <1>2
<1>4. ASSUME NEW y \in S, rank[y] < rank[x], y \notin P PROVE FALSE
  <2>1. rank[y] \in R /\ rank[y] \in Nat /\ n \in Nat
    BY <1>1, <1>4
  <2>. HIDE DEF R
  <2>. QED  BY <1>2, <1>3, <1>4, <2>1
<1>. QED  BY <1>3, <1>4

(* A function that is defined by recursion on a rank exists.               *)
Recursive(S, T, rank, prev, base, step) ==
  /\ rank \in [S -> Nat]
  /\ prev \in [S -> S]
  /\ base \in [S -> T]
  /\ step \in [S -> [T -> T]]
  /\ \A x \in S : rank[x] # 0 => rank[prev[x]] < rank[x]

Solves(f, S, T, rank, prev, base, step) ==
  /\ f \in [S -> T]
  /\ \A x \in S : f[x] = IF rank[x] = 0 THEN base[x] ELSE step[x][f[prev[x]]]

LEMMA Recursion ==
  ASSUME NEW S, NEW T, NEW rank, NEW prev, NEW base, NEW step,
         Recursive(S, T, rank, prev, base, step)
  PROVE  \E f : Solves(f, S, T, rank, prev, base, step)
<1>. USE DEF Recursive
<1>. DEFINE Eq(f, x) == f[x] = IF rank[x] = 0 THEN base[x] ELSE step[x][f[prev[x]]]
            UpTo(n) == {f \in [S -> T] : \A x \in S : rank[x] <= n => Eq(f, x)}
            Reached == {n \in Nat : UpTo(n) # {}}
<1>1. 0 \in Reached
  <2>1. base \in UpTo(0)
    OBVIOUS
  <2>. QED  BY <2>1
<1>2. ASSUME NEW n \in Nat, n \in Reached PROVE n + 1 \in Reached
  <2>1. PICK f \in [S -> T] : \A x \in S : rank[x] <= n => Eq(f, x)
    BY <1>2
  <2>. DEFINE g == [x \in S |-> IF rank[x] <= n THEN f[x] ELSE step[x][f[prev[x]]]]
  <2>2. g \in [S -> T]
    OBVIOUS
  <2>3. ASSUME NEW x \in S, rank[x] <= n + 1 PROVE Eq(g, x)
    <3>1. CASE rank[x] = 0
      BY <2>1, <3>1
    <3>2. CASE rank[x] # 0
      <4>1. prev[x] \in S /\ rank[prev[x]] <= n
        BY <2>3, <3>2
      <4>2. g[prev[x]] = f[prev[x]]
        BY <4>1
      <4>3. g[x] = step[x][f[prev[x]]]
        BY <2>1, <3>2
      <4>. HIDE DEF g
      <4>. QED  BY <3>2, <4>2, <4>3
    <3>. QED  BY <3>1, <3>2
  <2>. HIDE DEF g
  <2>4. g \in UpTo(n + 1)
    BY <2>2, <2>3
  <2>. QED  BY <2>4
<1>3. Nat \subseteq Reached
  <2>1. [n \in Nat |-> n] \in [Nat -> Nat]
    OBVIOUS
  <2>2. ASSUME NEW n \in Nat,
               \A m \in Nat : [k \in Nat |-> k][m] < [k \in Nat |-> k][n] => m \in Reached
        PROVE  n \in Reached
    <3>. HIDE DEF Reached
    <3>1. CASE n = 0
      BY <1>1, <3>1
    <3>2. CASE n # 0
      <4>1. n - 1 \in Nat /\ n - 1 < n /\ (n - 1) + 1 = n
        BY <3>2
      <4>2. n - 1 \in Reached
        BY <2>2, <4>1
      <4>. QED  BY <1>2, <4>1, <4>2
    <3>. QED  BY <3>1, <3>2
  <2>. HIDE DEF Reached
  <2>. QED  BY <2>1, <2>2, Descent
<1>4. ASSUME NEW n \in Nat, NEW m \in Nat, NEW f \in UpTo(n), NEW g \in UpTo(m)
      PROVE  \A x \in S : rank[x] <= n /\ rank[x] <= m => f[x] = g[x]
  <2>. DEFINE P == {x \in S : rank[x] <= n /\ rank[x] <= m => f[x] = g[x]}
  <2>1. ASSUME NEW x \in S, \A y \in S : rank[y] < rank[x] => y \in P
        PROVE  x \in P
    <3>. SUFFICES ASSUME rank[x] <= n, rank[x] <= m PROVE f[x] = g[x]
      OBVIOUS
    <3>1. Eq(f, x) /\ Eq(g, x)
      OBVIOUS
    <3>2. CASE rank[x] # 0
      <4>1. prev[x] \in S /\ rank[prev[x]] < rank[x] /\ rank[prev[x]] <= n /\ rank[prev[x]] <= m
        BY <3>2
      <4>2. f[prev[x]] = g[prev[x]]
        BY <2>1, <4>1
      <4>. QED  BY <3>1, <3>2, <4>2
    <3>. QED  BY <3>1, <3>2
  <2>2. S \subseteq P
    <3>. HIDE DEF P
    <3>. QED BY <2>1, Descent
  <2>. QED  BY <2>2
<1>. DEFINE Some(n) == CHOOSE f : f \in UpTo(n)
            h == [x \in S |-> Some(rank[x])[x]]
<1>5. ASSUME NEW n \in Nat PROVE Some(n) \in UpTo(n)
  <2>1. \E f : f \in UpTo(n)
    BY <1>3
  <2>. HIDE DEF UpTo
  <2>. QED  BY <2>1
<1>6. h \in [S -> T]
  <2>1. ASSUME NEW x \in S PROVE Some(rank[x])[x] \in T
    <3>1. Some(rank[x]) \in [S -> T]
      BY <1>5
    <3>. HIDE DEF Some
    <3>. QED  BY <3>1
  <2>. HIDE DEF Some
  <2>. QED  BY <2>1
<1>7. ASSUME NEW x \in S PROVE Eq(h, x)
  <2>. DEFINE f == Some(rank[x])
  <2>1. f \in UpTo(rank[x])
    BY <1>5
  <2>. HIDE DEF Some
  <2>2. Eq(f, x) /\ h[x] = f[x]
    BY <2>1
  <2>3. CASE rank[x] # 0
    <3>1. prev[x] \in S /\ rank[prev[x]] < rank[x] /\ rank[prev[x]] \in Nat /\ rank[x] \in Nat
      BY <2>3
    <3>2. Some(rank[prev[x]]) \in UpTo(rank[prev[x]])
      BY <1>5, <3>1
    <3>3. Some(rank[prev[x]])[prev[x]] = f[prev[x]]
      <4>. HIDE DEF f, UpTo
      <4>. QED  BY <1>4, <2>1, <3>1, <3>2
    <3>4. h[prev[x]] = f[prev[x]]
      BY <3>1, <3>3
    <3>. QED  BY <2>2, <2>3, <3>4
  <2>. QED  BY <2>2, <2>3
<1>. QED  BY <1>6, <1>7 DEF Solves
-----------------------------------------------------------------------------
(* Sequences. *)

LEMMA Initial ==
  ASSUME NEW D, NEW s \in Seq(D), NEW n \in 0..Len(s)
  PROVE  /\ SubSeq(s, 1, n) \in Seq(D)
         /\ Len(SubSeq(s, 1, n)) = n
         /\ \A i \in 1..n : SubSeq(s, 1, n)[i] = s[i]
OBVIOUS

LEMMA AllButTheLast ==
  ASSUME NEW D, NEW s \in Seq(D), s # <<>>
  PROVE  /\ Front(s) \in Seq(D)
         /\ Last(s) \in D
         /\ Len(s) \in Nat \ {0}
         /\ Len(Front(s)) = Len(s) - 1
         /\ \A i \in 1..Len(s) - 1 : Front(s)[i] = s[i]
<1>1. Len(s) \in Nat \ {0}
  OBVIOUS
<1>2. Len(s) - 1 \in 0..Len(s) /\ Len(s) \in 1..Len(s)
  BY <1>1
<1>. DEFINE n == Len(s) - 1
<1>3. /\ SubSeq(s, 1, n) \in Seq(D)
      /\ Len(SubSeq(s, 1, n)) = n
      /\ \A i \in 1..n : SubSeq(s, 1, n)[i] = s[i]
  BY <1>2, Initial
<1>4. s[Len(s)] \in D
  BY <1>2
<1>. QED  BY <1>1, <1>3, <1>4 DEF Front, Last

LEMMA OneMore ==
  ASSUME NEW D, NEW s \in Seq(D), NEW n \in 0..Len(s) - 1
  PROVE  SubSeq(s, 1, n + 1) = Append(SubSeq(s, 1, n), s[n + 1])
OBVIOUS

LEMMA FrontOfInitial ==
  ASSUME NEW D, NEW s \in Seq(D), NEW n \in 1..Len(s)
  PROVE  /\ SubSeq(s, 1, n) # <<>>
         /\ Front(SubSeq(s, 1, n)) = SubSeq(s, 1, n - 1)
         /\ Last(SubSeq(s, 1, n)) = s[n]
<1>1. /\ SubSeq(s, 1, n) \in Seq(D) /\ Len(SubSeq(s, 1, n)) = n
      /\ \A i \in 1..n : SubSeq(s, 1, n)[i] = s[i]
  BY Initial
<1>2. SubSeq(s, 1, n) # <<>>
  BY <1>1
<1>3. /\ SubSeq(s, 1, n - 1) \in Seq(D) /\ Len(SubSeq(s, 1, n - 1)) = n - 1
      /\ \A i \in 1..n - 1 : SubSeq(s, 1, n - 1)[i] = s[i]
  BY Initial
<1>. DEFINE t == SubSeq(s, 1, n)
            u == SubSeq(s, 1, n - 1)
<1>. HIDE DEF t, u
<1>4. t \in Seq(D) /\ t # <<>> /\ Len(t) = n /\ \A i \in 1..n : t[i] = s[i]
  BY <1>1, <1>2 DEF t
<1>5. u \in Seq(D) /\ Len(u) = n - 1 /\ \A i \in 1..n - 1 : u[i] = s[i]
  BY <1>3 DEF u
<1>6. /\ Front(t) \in Seq(D) /\ Len(Front(t)) = n - 1
      /\ \A i \in 1..n - 1 : Front(t)[i] = t[i]
  BY <1>4, AllButTheLast
<1>7. Front(t) = u
  BY <1>4, <1>5, <1>6
<1>8. Last(t) = s[n]
  BY <1>4 DEF Last
<1>. QED  BY <1>2, <1>7, <1>8 DEF t, u

LEMMA Concatenation ==
  ASSUME NEW D, NEW s \in Seq(D), NEW t \in Seq(D)
  PROVE  /\ s \o t \in Seq(D)
         /\ Len(s \o t) = Len(s) + Len(t)
         /\ \A i \in 1..Len(s) : (s \o t)[i] = s[i]
         /\ \A j \in 1..Len(t) : (s \o t)[Len(s) + j] = t[j]
OBVIOUS

LEMMA FrontAndLast ==
  ASSUME NEW D, NEW s \in Seq(D), NEW x \in D
  PROVE  Append(s, x) # <<>> /\ Front(Append(s, x)) = s /\ Last(Append(s, x)) = x
BY DEF Front, Last

(* Induction on the front of a sequence, and recursion on it. *)
LEMMA FrontInduction ==
  ASSUME NEW D, NEW P, <<>> \in P,
         \A s \in Seq(D) : s # <<>> /\ Front(s) \in P => s \in P
  PROVE  Seq(D) \subseteq P
<1>. DEFINE S == Seq(D)
            rank == [s \in S |-> Len(s)]
<1>1. rank \in [S -> Nat]
  OBVIOUS
<1>2. ASSUME NEW s \in S, \A t \in S : rank[t] < rank[s] => t \in P
      PROVE  s \in P
  <2>1. CASE s = <<>>
    BY <2>1
  <2>2. CASE s # <<>>
    <3>1. Front(s) \in Seq(D) /\ Len(Front(s)) < Len(s)
      BY <2>2, AllButTheLast
    <3>2. rank[Front(s)] < rank[s]
      BY <3>1
    <3>. QED  BY <1>2, <2>2, <3>1, <3>2
  <2>. QED  BY <2>1, <2>2
<1>3. S \subseteq P
  <2>. HIDE DEF rank, S
  <2>. QED  BY <1>1, <1>2, Descent
<1>. QED  BY <1>3

AlongFront(f, D, T, b, step) ==
  /\ f \in [Seq(D) -> T]
  /\ f[<<>>] = b
  /\ \A s \in Seq(D) : s # <<>> => f[s] = step[s][f[Front(s)]]

LEMMA FrontRecursion ==
  ASSUME NEW D, NEW T, NEW b, NEW step, b \in T, step \in [Seq(D) -> [T -> T]]
  PROVE  \E f : AlongFront(f, D, T, b, step)
<1>. DEFINE S == Seq(D)
            rank == [s \in S |-> Len(s)]
            prev == [s \in S |-> IF s = <<>> THEN s ELSE Front(s)]
            base == [s \in S |-> b]
<1>1. rank \in [S -> Nat] /\ base \in [S -> T] /\ step \in [S -> [T -> T]]
  OBVIOUS
<1>2. ASSUME NEW s \in S, s # <<>> PROVE Front(s) \in S /\ Len(Front(s)) < Len(s)
  <2>1. /\ Front(s) \in S /\ Len(s) \in Nat \ {0} /\ Len(Front(s)) = Len(s) - 1
    BY <1>2, AllButTheLast
  <2>. QED  BY <2>1
<1>3. prev \in [S -> S]
  <2>. HIDE DEF S
  <2>. QED  BY <1>2
<1>4. \A s \in S : rank[s] = 0 <=> s = <<>>
  OBVIOUS
<1>5. \A s \in S : rank[s] # 0 => rank[prev[s]] < rank[s]
  <2>. SUFFICES ASSUME NEW s \in S, rank[s] # 0 PROVE rank[prev[s]] < rank[s]
    OBVIOUS
  <2>1. s # <<>>
    BY <1>4
  <2>2. prev[s] = Front(s)
    BY <2>1
  <2>. QED  BY <1>2, <2>1, <2>2
<1>6. PICK f : Solves(f, S, T, rank, prev, base, step)
  <2>. HIDE DEF S, rank, prev, base
  <2>1. Recursive(S, T, rank, prev, base, step)
    BY <1>1, <1>3, <1>5 DEF Recursive
  <2>. QED  BY <2>1, Recursion
<1>7. f \in [S -> T] /\ \A s \in S : f[s] = IF rank[s] = 0 THEN base[s] ELSE step[s][f[prev[s]]]
  <2>. HIDE DEF S, rank, prev, base
  <2>. QED  BY <1>6 DEF Solves
<1>8. f[<<>>] = b
  <2>1. <<>> \in S
    OBVIOUS
  <2>. QED  BY <1>4, <1>7, <2>1
<1>9. ASSUME NEW s \in S, s # <<>> PROVE f[s] = step[s][f[Front(s)]]
  <2>1. rank[s] # 0 /\ prev[s] = Front(s)
    BY <1>4, <1>9
  <2>. HIDE DEF S, rank, prev, base
  <2>. QED  BY <1>7, <2>1
<1>. QED  BY <1>7, <1>8, <1>9 DEF AlongFront
-----------------------------------------------------------------------------
(* The recursive functions of the code, unfolded.                          *)

LEMMA Tenth ==
  ASSUME NEW n \in Nat
  PROVE  /\ n \div 10 \in Nat /\ n % 10 \in Digit
         /\ n = 10 * (n \div 10) + (n % 10)
         /\ n >= 10 => n \div 10 < n
<1>1. n \div 10 \in Nat
  OBVIOUS
<1>2. n % 10 \in Digit
  BY DEF Digit
<1>3. n = 10 * (n \div 10) + (n % 10)
  OBVIOUS
<1>4. n >= 10 => n \div 10 < n
  OBVIOUS
<1>. QED  BY <1>1, <1>2, <1>3, <1>4

LEMMA UnitsUnfold ==
  /\ Units \in [Nat -> Seq(Digit)]
  /\ \A n \in Nat : Units[n] = IF n < 10 THEN <<n>> ELSE Append(Units[n \div 10], n % 10)
<1>. DEFINE T == Seq(Digit)
            rank == [n \in Nat |-> IF n < 10 THEN 0 ELSE n]
            prev == [n \in Nat |-> IF n < 10 THEN n ELSE n \div 10]
            base == [n \in Nat |-> IF n < 10 THEN <<n>> ELSE <<>>]
            step == [n \in Nat |-> [s \in T |-> Append(s, n % 10)]]
<1>1. rank \in [Nat -> Nat] /\ prev \in [Nat -> Nat]
  BY Tenth
<1>2. base \in [Nat -> T]
  <2>1. \A n \in Nat : n < 10 => <<n>> \in T
    BY DEF Digit
  <2>2. <<>> \in T
    OBVIOUS
  <2>. HIDE DEF T
  <2>. QED  BY <2>1, <2>2
<1>3. step \in [Nat -> [T -> T]]
  <2>1. \A n \in Nat, s \in T : Append(s, n % 10) \in T
    BY Tenth
  <2>. HIDE DEF T
  <2>. QED  BY <2>1
<1>4. \A n \in Nat : rank[n] # 0 => rank[prev[n]] < rank[n]
  BY Tenth
<1>5. PICK f : Solves(f, Nat, T, rank, prev, base, step)
  <2>. HIDE DEF rank, prev, base, step, T
  <2>1. Recursive(Nat, T, rank, prev, base, step)
    BY <1>1, <1>2, <1>3, <1>4 DEF Recursive
  <2>. QED  BY <2>1, Recursion
<1>6. f \in [Nat -> T]
  BY <1>5 DEF Solves
<1>7. ASSUME NEW n \in Nat
      PROVE  f[n] = IF n < 10 THEN <<n>> ELSE Append(f[n \div 10], n % 10)
  <2>1. f[n] = IF rank[n] = 0 THEN base[n] ELSE step[n][f[prev[n]]]
    BY <1>5 DEF Solves
  <2>2. f[n \div 10] \in T
    BY <1>6, Tenth
  <2>. HIDE DEF T
  <2>. QED  BY <2>1, <2>2, Tenth
<1>8. f = [n \in Nat |-> IF n < 10 THEN <<n>> ELSE Append(f[n \div 10], n % 10)]
  <2>. HIDE DEF T
  <2>. QED  BY <1>6, <1>7
<1>9. Units = [n \in Nat |-> IF n < 10 THEN <<n>> ELSE Append(Units[n \div 10], n % 10)]
  BY <1>8 DEF Units
<1>. DEFINE P == {n \in Nat : Units[n] \in T}
<1>10. ASSUME NEW n \in Nat, \A m \in Nat : rank[m] < rank[n] => m \in P
       PROVE  n \in P
  <2>1. CASE n < 10
    <3>1. Units[n] = <<n>>
      BY <1>9, <2>1
    <3>2. n \in Digit
      BY <2>1 DEF Digit
    <3>3. <<n>> \in Seq(Digit)
      BY <3>2
    <3>. QED  BY <3>1, <3>3
  <2>2. CASE ~(n < 10)
    <3>1. n \div 10 \in Nat /\ n % 10 \in Digit /\ rank[n \div 10] < rank[n]
      BY <2>2, Tenth
    <3>2. Units[n \div 10] \in Seq(Digit)
      BY <1>10, <3>1
    <3>3. Units[n] = Append(Units[n \div 10], n % 10)
      BY <1>9, <2>2
    <3>4. Append(Units[n \div 10], n % 10) \in Seq(Digit)
      BY <3>1, <3>2
    <3>. QED  BY <3>3, <3>4
  <2>. QED  BY <2>1, <2>2
<1>11. Nat \subseteq P
  <2>. HIDE DEF rank, P
  <2>. QED  BY <1>1, <1>10, Descent
<1>. QED  BY <1>9, <1>11

LEMMA SpellUnfold ==
  ASSUME NEW T, <<>> \in T, \A s \in Seq(Digit), t \in T : s # <<>> =>
                  t \o Append(Path[Last(s)], endOfSequence) \in T
  PROVE  /\ Spell \in [Seq(Digit) -> T]
         /\ Spell[<<>>] = <<>>
         /\ \A s \in Seq(Digit) : s # <<>> =>
              Spell[s] = Spell[Front(s)] \o Append(Path[Last(s)], endOfSequence)
<1>. DEFINE D == Digit
            S == Seq(D)
            Next1(s, t) == t \o Append(Path[Last(s)], endOfSequence)
            step == [s \in S |-> [t \in T |-> IF s = <<>> THEN t ELSE Next1(s, t)]]
<1>. HIDE DEF Next1, D
<1>1. \A s \in S, t \in T : s # <<>> => Next1(s, t) \in T
  BY DEF Next1, D
<1>2. step \in [S -> [T -> T]]
  <2>. HIDE DEF S
  <2>. QED  BY <1>1
<1>3. PICK f : AlongFront(f, D, T, <<>>, step)
  <2>. HIDE DEF step
  <2>. QED  BY <1>2, FrontRecursion
<1>4. f \in [S -> T] /\ f[<<>>] = <<>> /\ \A s \in S : s # <<>> => f[s] = step[s][f[Front(s)]]
  <2>. HIDE DEF step
  <2>. QED  BY <1>3 DEF AlongFront
<1>5. \A s \in S : s # <<>> => Front(s) \in S
  BY AllButTheLast
<1>6. \A s \in S : s # <<>> => f[s] = Next1(s, f[Front(s)])
  <2>. HIDE DEF S
  <2>. QED  BY <1>4, <1>5
<1>7. f = [s \in S |-> IF s = <<>> THEN <<>> ELSE Next1(s, f[Front(s)])]
  <2>. HIDE DEF S
  <2>. QED  BY <1>4, <1>6
<1>8. Spell = [s \in S |-> IF s = <<>> THEN <<>> ELSE Next1(s, Spell[Front(s)])]
  BY <1>7 DEF Spell, Next1, D
<1>9. <<>> \in S
  OBVIOUS
<1>10. \A s \in S : Spell[s] = IF s = <<>> THEN <<>> ELSE Next1(s, Spell[Front(s)])
  <2>. HIDE DEF S
  <2>. QED  BY <1>8
<1>. DEFINE P == {s \in S : Spell[s] \in T}
<1>11. <<>> \in P
  BY <1>9, <1>10
<1>12. ASSUME NEW s \in Seq(D), s # <<>>, Front(s) \in P PROVE s \in P
  <2>1. Spell[s] = Next1(s, Spell[Front(s)]) /\ Spell[Front(s)] \in T
    BY <1>10, <1>12
  <2>2. Spell[s] \in T
    BY <1>1, <1>12, <2>1
  <2>. QED  BY <2>2
<1>13. Seq(D) \subseteq P
  <2>. HIDE DEF P
  <2>. QED  BY <1>11, <1>12, FrontInduction
<1>14. Spell \in [S -> T]
  <2>. HIDE DEF S
  <2>1. \A s \in S : Spell[s] \in T
    BY <1>13 DEF S
  <2>. QED  BY <1>8, <2>1
<1>. QED  BY <1>9, <1>10, <1>14 DEF Next1, D

Side == {left, right}

Turn(n) == IF n % 2 = 0 THEN left ELSE right

LEMMA Parents ==
  ASSUME NEW n \in Digit
  PROVE  /\ Turn(n) \in Side
         /\ Parent(n) \in -1..3
         /\ n < 2 <=> ~(Parent(n) >= 0)
         /\ n \in 2..5 <=> Parent(n) \in 0..1
         /\ n \in 6..9 <=> Parent(n) \in 2..3
         /\ Parent(n) >= 0 => Parent(n) \in Digit /\ Parent(n) < n
         /\ n = 2 * (Parent(n) + 1) + (IF Turn(n) = left THEN 0 ELSE 1)
<1>1. n \in Nat /\ n \in 0..9
  BY DEF Digit
<1>2. n \div 2 \in 0..4 /\ n % 2 \in 0..1
  BY <1>1
<1>3. n = 2 * (n \div 2) + (n % 2)
  BY <1>1
<1>4. (IF Turn(n) = left THEN 0 ELSE 1) = n % 2 /\ Turn(n) \in Side
  BY <1>2 DEF Turn, Side, left, right
<1>. DEFINE h == n \div 2
            r == n % 2
<1>5. Parent(n) = h - 1 /\ n = 2 * h + r /\ h \in 0..4 /\ r \in 0..1
  BY <1>2, <1>3 DEF Parent
<1>. HIDE DEF h, r
<1>6. n = 2 * (Parent(n) + 1) + r
  BY <1>5
<1>. QED  BY <1>1, <1>4, <1>5, <1>6 DEF Digit, r

LEMMA PathUnfold ==
  /\ Path \in [Digit -> Seq(Side)]
  /\ \A n \in Digit : Path[n] = IF Parent(n) >= 0 THEN Append(Path[Parent(n)], Turn(n))
                                ELSE <<Turn(n)>>
<1>. DEFINE T == Seq(Side)
            Top(n) == <<Turn(n)>>
            Next1(n, t) == t \o <<Turn(n)>>
            rank == [n \in Digit |-> IF Parent(n) >= 0 THEN n ELSE 0]
            prev == [n \in Digit |-> IF Parent(n) >= 0 THEN Parent(n) ELSE n]
            base == [n \in Digit |-> Top(n)]
            step == [n \in Digit |-> [t \in T |-> Next1(n, t)]]
<1>1. rank \in [Digit -> Nat] /\ prev \in [Digit -> Digit]
  BY Parents DEF Digit
<1>2. \A n \in Digit : Top(n) \in T
  <2>1. \A x \in Side : <<x>> \in Seq(Side)
    OBVIOUS
  <2>. QED  BY <2>1, Parents
<1>3. \A n \in Digit, t \in T : Next1(n, t) \in T
  <2>1. \A x \in Side, t \in Seq(Side) : t \o <<x>> \in Seq(Side)
    OBVIOUS
  <2>. QED  BY <2>1, Parents
<1>. HIDE DEF T, Top, Next1
<1>4. base \in [Digit -> T] /\ step \in [Digit -> [T -> T]]
  BY <1>2, <1>3
<1>5. \A n \in Digit : rank[n] # 0 => rank[prev[n]] < rank[n]
  BY Parents DEF Digit
<1>6. PICK f : Solves(f, Digit, T, rank, prev, base, step)
  <2>. HIDE DEF rank, prev, base, step
  <2>1. Recursive(Digit, T, rank, prev, base, step)
    BY <1>1, <1>4, <1>5 DEF Recursive
  <2>. QED  BY <2>1, Recursion
<1>7. f \in [Digit -> T] /\ \A n \in Digit : f[n] = IF rank[n] = 0 THEN base[n] ELSE step[n][f[prev[n]]]
  <2>. HIDE DEF rank, prev, base, step
  <2>. QED  BY <1>6 DEF Solves
<1>8. \A n \in Digit : f[n] = IF Parent(n) >= 0 THEN Next1(n, f[Parent(n)]) ELSE Top(n)
  <2>. SUFFICES ASSUME NEW n \in Digit
                PROVE  f[n] = IF Parent(n) >= 0 THEN Next1(n, f[Parent(n)]) ELSE Top(n)
    OBVIOUS
  <2>1. rank[n] = 0 <=> ~(Parent(n) >= 0)
    BY Parents DEF Digit
  <2>2. CASE Parent(n) >= 0
    <3>1. prev[n] = Parent(n) /\ f[Parent(n)] \in T
      BY <1>7, <2>2, Parents
    <3>. QED  BY <1>7, <2>1, <2>2, <3>1
  <2>3. CASE ~(Parent(n) >= 0)
    BY <1>7, <2>1, <2>3
  <2>. QED  BY <2>2, <2>3
<1>9. ASSUME NEW n \in Digit, NEW g
      PROVE  (IF Parent(n) >= 0 THEN g[Parent(n)] ELSE <<>>) \o <<IF n % 2 = 0 THEN left ELSE right>>
               = IF Parent(n) >= 0 THEN Next1(n, g[Parent(n)]) ELSE Top(n)
  <2>1. <<>> \o <<Turn(n)>> = <<Turn(n)>>
    OBVIOUS
  <2>. QED  BY <2>1 DEF Turn, Next1, Top
<1>10. f = [n \in Digit |-> (IF Parent(n) >= 0 THEN f[Parent(n)] ELSE <<>>)
                               \o <<IF n % 2 = 0 THEN left ELSE right>>]
  BY <1>7, <1>8, <1>9
<1>11. Path = [n \in Digit |-> (IF Parent(n) >= 0 THEN Path[Parent(n)] ELSE <<>>)
                               \o <<IF n % 2 = 0 THEN left ELSE right>>]
  BY <1>10 DEF Path
<1>12. \A n \in Digit : Path[n] = IF Parent(n) >= 0 THEN Next1(n, Path[Parent(n)]) ELSE Top(n)
  BY <1>9, <1>11
<1>. DEFINE P == {n \in Digit : Path[n] \in T}
<1>13. ASSUME NEW n \in Digit, \A m \in Digit : rank[m] < rank[n] => m \in P
       PROVE  n \in P
  <2>1. CASE Parent(n) >= 0
    <3>1. Parent(n) \in Digit /\ rank[Parent(n)] < rank[n]
      BY <1>5, <2>1, Parents DEF Digit
    <3>2. Path[Parent(n)] \in T
      BY <1>13, <3>1
    <3>. QED  BY <1>3, <1>12, <2>1, <3>2
  <2>2. CASE ~(Parent(n) >= 0)
    BY <1>2, <1>12, <2>2
  <2>. QED  BY <2>1, <2>2
<1>14. Digit \subseteq P
  <2>. HIDE DEF rank, P
  <2>. QED  BY <1>1, <1>13, Descent
<1>15. \A n \in Digit : Path[n] \in T
  BY <1>14
<1>16. Path \in [Digit -> T]
  BY <1>11, <1>15
<1>17. ASSUME NEW n \in Digit, Parent(n) >= 0
       PROVE  Next1(n, Path[Parent(n)]) = Append(Path[Parent(n)], Turn(n))
  <2>1. \A t \in Seq(Side), x \in Side : t \o <<x>> = Append(t, x)
    OBVIOUS
  <2>. QED  BY <1>15, <1>17, <2>1, Parents DEF Next1, T
<1>. QED  BY <1>12, <1>16, <1>17 DEF T, Top

LEMMA PathLength ==
  ASSUME NEW n \in Digit
  PROVE  /\ Path[n] \in Seq(Side) /\ Len(Path[n]) \in 1..3
         /\ Len(Path[n]) \in Nat /\ 0 < Len(Path[n]) /\ Len(Path[n]) <= 3
         /\ Path[n][1] \in Side
<1>1. \A m \in Digit : Path[m] \in Seq(Side)
  BY PathUnfold
<1>2. \A m \in Digit : m \in 0..1 => Len(Path[m]) = 1
  <2>. SUFFICES ASSUME NEW m \in Digit, m \in 0..1 PROVE Len(Path[m]) = 1
    OBVIOUS
  <2>1. Path[m] = <<Turn(m)>>
    BY PathUnfold, Parents
  <2>. QED  BY <2>1
<1>3. ASSUME NEW m \in Digit, Parent(m) \in Digit, Parent(m) >= 0
      PROVE  Len(Path[m]) = Len(Path[Parent(m)]) + 1
  <2>1. Path[m] = Append(Path[Parent(m)], Turn(m))
    BY <1>3, PathUnfold
  <2>2. Path[Parent(m)] \in Seq(Side)
    BY <1>1, <1>3
  <2>. QED  BY <2>1, <2>2
<1>4. ASSUME NEW m \in Digit, m \in 2..5 PROVE Len(Path[m]) = 2
  <2>1. Parent(m) \in 0..1 /\ Parent(m) \in Digit /\ Parent(m) >= 0
    BY <1>4, Parents DEF Digit
  <2>2. Len(Path[m]) = Len(Path[Parent(m)]) + 1
    BY <1>3, <2>1
  <2>3. Len(Path[Parent(m)]) = 1
    BY <1>2, <2>1
  <2>. QED  BY <2>2, <2>3
<1>5. ASSUME NEW m \in Digit, m \in 6..9 PROVE Len(Path[m]) = 3
  <2>1. Parent(m) \in 2..3 /\ Parent(m) \in 2..5 /\ Parent(m) \in Digit /\ Parent(m) >= 0
    BY <1>5, Parents DEF Digit
  <2>2. Len(Path[m]) = Len(Path[Parent(m)]) + 1
    BY <1>3, <2>1
  <2>3. Len(Path[Parent(m)]) = 2
    BY <1>4, <2>1
  <2>. QED  BY <2>2, <2>3
<1>6. n \in 0..1 \/ n \in 2..5 \/ n \in 6..9
  BY DEF Digit
<1>7. Len(Path[n]) \in 1..3
  BY <1>2, <1>4, <1>5, <1>6
<1>8. Path[n] \in Seq(Side)
  BY <1>1
<1>. HIDE DEF Path
<1>9. Len(Path[n]) \in Nat /\ 0 < Len(Path[n]) /\ Len(Path[n]) <= 3
  <2>1. \A k : k \in 1..3 => k \in Nat /\ 0 < k /\ k <= 3
    OBVIOUS
  <2>. DEFINE k == Len(Path[n])
  <2>2. k \in 1..3
    BY <1>7
  <2>. HIDE DEF k
  <2>3. k \in Nat /\ 0 < k /\ k <= 3
    BY <2>1, <2>2
  <2>. QED  BY <2>3 DEF k
<1>10. Path[n][1] \in Side
  BY <1>8, <1>9
<1>. QED  BY <1>7, <1>8, <1>9, <1>10

LEMMA CodeUnfold ==
  /\ ConvertToNumber \in [Seq(Noted) -> Int]
  /\ ConvertToNumber[<<>>] = -1
  /\ \A s \in Seq(Noted), m \in Noted :
       ConvertToNumber[Append(s, m)] = (ConvertToNumber[s] + 1) * 2 + (IF m = left THEN 0 ELSE 1)
<1>. DEFINE S == Seq(Noted)
            Next1(s, t) == (t + 1) * 2 + (IF Last(s) = left THEN 0 ELSE 1)
            step == [s \in S |-> [t \in Int |-> Next1(s, t)]]
<1>1. \A s \in S, t \in Int : Next1(s, t) \in Int
  OBVIOUS
<1>2. step \in [S -> [Int -> Int]] /\ -1 \in Int
  <2>. HIDE DEF S, Next1
  <2>. QED  BY <1>1
<1>3. PICK f : AlongFront(f, Noted, Int, -1, step)
  <2>. HIDE DEF step
  <2>. QED  BY <1>2, FrontRecursion
<1>4. f \in [S -> Int] /\ f[<<>>] = -1 /\ \A s \in S : s # <<>> => f[s] = step[s][f[Front(s)]]
  <2>. HIDE DEF step
  <2>. QED  BY <1>3 DEF AlongFront
<1>5. \A s \in S : s # <<>> => Front(s) \in S
  BY AllButTheLast
<1>6. \A s \in S : s # <<>> => f[s] = Next1(s, f[Front(s)])
  <2>. HIDE DEF S, Next1
  <2>. QED  BY <1>4, <1>5
<1>7. f = [s \in S |-> IF s = <<>> THEN -1 ELSE Next1(s, f[Front(s)])]
  <2>. HIDE DEF S, Next1
  <2>. QED  BY <1>4, <1>6
<1>8. ConvertToNumber = [s \in S |-> IF s = <<>> THEN -1 ELSE Next1(s, ConvertToNumber[Front(s)])]
  BY <1>7 DEF ConvertToNumber
<1>9. <<>> \in S
  OBVIOUS
<1>. HIDE DEF S, Next1
<1>10. \A s \in S : ConvertToNumber[s] = IF s = <<>> THEN -1 ELSE Next1(s, ConvertToNumber[Front(s)])
  BY <1>8
<1>. DEFINE P == {s \in S : ConvertToNumber[s] \in Int}
<1>11. <<>> \in P
  BY <1>9, <1>10
<1>12. ASSUME NEW s \in Seq(Noted), s # <<>>, Front(s) \in P PROVE s \in P
  BY <1>1, <1>10, <1>12 DEF S
<1>13. Seq(Noted) \subseteq P
  <2>. HIDE DEF P
  <2>. QED  BY <1>11, <1>12, FrontInduction
<1>14. ConvertToNumber \in [S -> Int]
  BY <1>8, <1>13 DEF S
<1>15. ASSUME NEW s \in Seq(Noted), NEW m \in Noted
       PROVE  ConvertToNumber[Append(s, m)] = (ConvertToNumber[s] + 1) * 2 + (IF m = left THEN 0 ELSE 1)
  <2>1. /\ Append(s, m) \in S /\ Append(s, m) # <<>>
        /\ Front(Append(s, m)) = s /\ Last(Append(s, m)) = m
    BY FrontAndLast DEF S
  <2>. QED  BY <1>10, <2>1 DEF Next1
<1>. QED  BY <1>9, <1>10, <1>14, <1>15 DEF S

(* The onlooker's way down the tree leads where the dancer's path leads.   *)
LEMMA PathIsRead ==
  ASSUME NEW n \in Digit
  PROVE  ConvertToNumber[Path[n]] = n
<1>. DEFINE Read(m) == ConvertToNumber[Path[m]] = m
<1>1. ASSUME NEW m \in Digit, ~(Parent(m) >= 0) PROVE Read(m)
  <2>1. Path[m] = Append(<<>>, Turn(m)) /\ Turn(m) \in Noted /\ <<>> \in Seq(Noted)
    BY <1>1, PathUnfold, Parents DEF Side, Noted
  <2>2. ConvertToNumber[Path[m]] = (-1 + 1) * 2 + (IF Turn(m) = left THEN 0 ELSE 1)
    BY <2>1, CodeUnfold
  <2>3. m < 2 /\ m = 2 * (Parent(m) + 1) + (IF Turn(m) = left THEN 0 ELSE 1) /\ Parent(m) = -1
    BY <1>1, Parents
  <2>. QED  BY <2>2, <2>3
<1>2. ASSUME NEW m \in Digit, Parent(m) >= 0, Read(Parent(m)) PROVE Read(m)
  <2>1. Path[m] = Append(Path[Parent(m)], Turn(m)) /\ Turn(m) \in Noted /\ Parent(m) \in Digit
    BY <1>2, PathUnfold, Parents DEF Side, Noted
  <2>2. Path[Parent(m)] \in Seq(Noted)
    <3>1. Path[Parent(m)] \in Seq(Side) /\ Side \subseteq Noted
      BY <2>1, PathUnfold DEF Side, Noted
    <3>. QED  BY <3>1
  <2>3. ConvertToNumber[Path[m]] = (Parent(m) + 1) * 2 + (IF Turn(m) = left THEN 0 ELSE 1)
    BY <1>2, <2>1, <2>2, CodeUnfold
  <2>4. m = 2 * (Parent(m) + 1) + (IF Turn(m) = left THEN 0 ELSE 1)
    BY Parents
  <2>. QED  BY <2>3, <2>4, <2>1 DEF Digit
<1>. HIDE DEF Read
<1>3. \A m \in Digit : m \in 0..1 => Read(m)
  BY <1>1, Parents
<1>4. \A m \in Digit : m \in 2..5 => Read(m)
  BY <1>2, <1>3, Parents
<1>5. \A m \in Digit : m \in 6..9 => Read(m)
  BY <1>2, <1>4, Parents
<1>. QED  BY <1>3, <1>4, <1>5 DEF Digit, Read

LEMMA ValueUnfold ==
  /\ Value \in [Seq(Nat) -> Nat]
  /\ Value[<<>>] = 0
  /\ \A s \in Seq(Nat), d \in Nat : Value[Append(s, d)] = 10 * Value[s] + d
<1>. DEFINE S == Seq(Nat)
            Next1(s, t) == 10 * t + Last(s)
            step == [s \in S |-> [t \in Nat |-> IF s = <<>> THEN t ELSE Next1(s, t)]]
<1>1. \A s \in S, t \in Nat : s # <<>> => Next1(s, t) \in Nat
  <2>1. \A s \in S : s # <<>> => Last(s) \in Nat
    BY AllButTheLast
  <2>. QED  BY <2>1
<1>2. step \in [S -> [Nat -> Nat]] /\ 0 \in Nat
  <2>. HIDE DEF S, Next1
  <2>. QED  BY <1>1
<1>3. PICK f : AlongFront(f, Nat, Nat, 0, step)
  <2>. HIDE DEF step
  <2>. QED  BY <1>2, FrontRecursion
<1>4. f \in [S -> Nat] /\ f[<<>>] = 0 /\ \A s \in S : s # <<>> => f[s] = step[s][f[Front(s)]]
  <2>. HIDE DEF step
  <2>. QED  BY <1>3 DEF AlongFront
<1>5. \A s \in S : s # <<>> => Front(s) \in S
  BY AllButTheLast
<1>6. \A s \in S : s # <<>> => f[s] = Next1(s, f[Front(s)])
  <2>. HIDE DEF S, Next1
  <2>. QED  BY <1>4, <1>5
<1>7. f = [s \in S |-> IF s = <<>> THEN 0 ELSE Next1(s, f[Front(s)])]
  <2>. HIDE DEF S, Next1
  <2>. QED  BY <1>4, <1>6
<1>8. Value = [s \in S |-> IF s = <<>> THEN 0 ELSE Next1(s, Value[Front(s)])]
  BY <1>7 DEF Value
<1>9. <<>> \in S
  OBVIOUS
<1>. HIDE DEF S, Next1
<1>10. \A s \in S : Value[s] = IF s = <<>> THEN 0 ELSE Next1(s, Value[Front(s)])
  BY <1>8
<1>. DEFINE P == {s \in S : Value[s] \in Nat}
<1>11. <<>> \in P
  BY <1>9, <1>10
<1>12. ASSUME NEW s \in Seq(Nat), s # <<>>, Front(s) \in P PROVE s \in P
  BY <1>1, <1>10, <1>12 DEF S
<1>13. Seq(Nat) \subseteq P
  <2>. HIDE DEF P
  <2>. QED  BY <1>11, <1>12, FrontInduction
<1>14. Value \in [S -> Nat]
  BY <1>8, <1>13 DEF S
<1>15. ASSUME NEW s \in Seq(Nat), NEW d \in Nat
       PROVE  Value[Append(s, d)] = 10 * Value[s] + d
  <2>1. /\ Append(s, d) \in S /\ Append(s, d) # <<>>
        /\ Front(Append(s, d)) = s /\ Last(Append(s, d)) = d
    BY FrontAndLast DEF S
  <2>. QED  BY <1>10, <2>1 DEF Next1
<1>. QED  BY <1>9, <1>10, <1>14, <1>15 DEF S
-----------------------------------------------------------------------------
(* What is danced. *)

(* The digits of a number stand for it. *)
LEMMA UnitsAreValue ==
  ASSUME NEW c \in Nat
  PROVE  Units[c] \in Seq(Digit) /\ Units[c] # <<>> /\ Value[Units[c]] = c
<1>. DEFINE rank == [n \in Nat |-> n]
            P == {n \in Nat : Units[n] # <<>> /\ Value[Units[n]] = n}
<1>0. \A n \in Nat : Units[n] \in Seq(Digit) /\ Units[n] \in Seq(Nat)
  <2>1. Seq(Digit) \subseteq Seq(Nat)
    BY DEF Digit
  <2>. QED  BY <2>1, UnitsUnfold
<1>1. ASSUME NEW n \in Nat, \A m \in Nat : rank[m] < rank[n] => m \in P
      PROVE  n \in P
  <2>1. CASE n < 10
    <3>1. Units[n] = Append(<<>>, n) /\ Units[n] # <<>> /\ <<>> \in Seq(Nat)
      BY <2>1, UnitsUnfold
    <3>2. Value[Units[n]] = 10 * 0 + n
      BY <3>1, ValueUnfold
    <3>. QED  BY <3>1, <3>2
  <2>2. CASE ~(n < 10)
    <3>1. n \div 10 \in Nat /\ n % 10 \in Nat /\ rank[n \div 10] < rank[n]
      BY <2>2, Tenth DEF Digit
    <3>2. Value[Units[n \div 10]] = n \div 10
      BY <1>1, <3>1
    <3>3. Units[n] = Append(Units[n \div 10], n % 10)
      BY <2>2, UnitsUnfold
    <3>4. Value[Units[n]] = 10 * (n \div 10) + (n % 10)
      BY <1>0, <3>1, <3>2, <3>3, ValueUnfold
    <3>5. Units[n] # <<>>
      BY <1>0, <3>1, <3>3
    <3>6. n = 10 * (n \div 10) + (n % 10)
      BY Tenth
    <3>. QED  BY <3>4, <3>5, <3>6
  <2>. QED  BY <2>1, <2>2
<1>2. Nat \subseteq P
  <2>1. rank \in [Nat -> Nat]
    OBVIOUS
  <2>. HIDE DEF rank, P
  <2>. QED  BY <1>1, <2>1, Descent
<1>. QED  BY <1>0, <1>2

Symbol == {left, right, endOfSequence}

LEMMA SpellOfDigits ==
  /\ Spell \in [Seq(Digit) -> Seq(Symbol)]
  /\ Spell[<<>>] = <<>>
  /\ \A s \in Seq(Digit) : s # <<>> =>
       Spell[s] = Spell[Front(s)] \o Append(Path[Last(s)], endOfSequence)
<1>1. ASSUME NEW s \in Seq(Digit), NEW t \in Seq(Symbol), s # <<>>
      PROVE  t \o Append(Path[Last(s)], endOfSequence) \in Seq(Symbol)
  <2>1. Path[Last(s)] \in Seq(Side)
    BY <1>1, AllButTheLast, PathUnfold
  <2>2. Path[Last(s)] \in Seq(Symbol) /\ endOfSequence \in Symbol
    <3>1. Side \subseteq Symbol
      BY DEF Side, Symbol
    <3>. QED  BY <2>1, <3>1 DEF Symbol
  <2>. QED  BY <2>2
<1>2. <<>> \in Seq(Symbol)
  OBVIOUS
<1>. HIDE DEF Symbol
<1>. QED  BY <1>1, <1>2, SpellUnfold

Begins(t, s) == Len(s) <= Len(t) /\ \A i \in 1..Len(s) : t[i] = s[i]

LEMMA SpellGrows ==
  ASSUME NEW s \in Seq(Digit), s # <<>>
  PROVE  /\ Spell[Front(s)] \in Seq(Symbol) /\ Spell[s] \in Seq(Symbol)
         /\ Begins(Spell[s], Spell[Front(s)])
         /\ Len(Spell[s]) = Len(Spell[Front(s)]) + Len(Path[Last(s)]) + 1
         /\ \A j \in 1..Len(Path[Last(s)]) :
              Spell[s][Len(Spell[Front(s)]) + j] = Path[Last(s)][j]
         /\ Spell[s][Len(Spell[s])] = endOfSequence
<1>. DEFINE w == Spell[Front(s)]
            p == Path[Last(s)]
            q == Append(p, endOfSequence)
<1>1. w \in Seq(Symbol) /\ p \in Seq(Symbol) /\ endOfSequence \in Symbol
  <2>1. p \in Seq(Side) /\ Side \subseteq Symbol /\ Front(s) \in Seq(Digit)
    BY AllButTheLast, PathLength DEF Side, Symbol
  <2>2. p \in Seq(Symbol)
    BY <2>1
  <2>. QED  BY <2>1, <2>2, SpellOfDigits DEF Symbol
<1>2. Spell[s] = w \o q /\ Spell[s] \in Seq(Symbol)
  BY SpellOfDigits
<1>. HIDE DEF w, p, Symbol
<1>3. /\ q \in Seq(Symbol) /\ Len(q) = Len(p) + 1 /\ q[Len(p) + 1] = endOfSequence
      /\ \A j \in 1..Len(p) : q[j] = p[j]
  BY <1>1
<1>. HIDE DEF q
<1>4. /\ Len(Spell[s]) = Len(w) + Len(q)
      /\ \A i \in 1..Len(w) : Spell[s][i] = w[i]
      /\ \A j \in 1..Len(q) : Spell[s][Len(w) + j] = q[j]
  <2>1. /\ Len(w \o q) = Len(w) + Len(q)
        /\ \A i \in 1..Len(w) : (w \o q)[i] = w[i]
        /\ \A j \in 1..Len(q) : (w \o q)[Len(w) + j] = q[j]
    <3>1. w \in Seq(Symbol) /\ q \in Seq(Symbol)
      BY <1>1, <1>3
    <3>. QED  BY <3>1, Concatenation
  <2>. QED  BY <1>2, <2>1
<1>5. Len(w) \in Nat /\ Len(p) \in Nat
  BY <1>1
<1>6. \A j \in 1..Len(p) : Spell[s][Len(w) + j] = p[j]
  BY <1>3, <1>4, <1>5
<1>7. Spell[s][Len(Spell[s])] = endOfSequence
  BY <1>3, <1>4, <1>5
<1>8. Begins(Spell[s], w)
  BY <1>3, <1>4, <1>5 DEF Begins
<1>9. Len(Spell[s]) = Len(w) + Len(p) + 1
  BY <1>3, <1>4, <1>5
<1>. QED  BY <1>1, <1>2, <1>6, <1>7, <1>8, <1>9 DEF w, p

LEMMA BeginsIsTransitive ==
  ASSUME NEW r \in Seq(Symbol), NEW s \in Seq(Symbol), NEW t \in Seq(Symbol),
         Begins(t, s), Begins(s, r)
  PROVE  Begins(t, r)
BY DEF Begins

(* The first digits are danced first. *)
LEMMA SpellBegins ==
  ASSUME NEW s \in Seq(Digit), NEW n \in 0..Len(s)
  PROVE  Begins(Spell[s], Spell[SubSeq(s, 1, n)])
<1>. DEFINE P == {t \in Seq(Digit) : \A i \in 0..Len(t) : Begins(Spell[t], Spell[SubSeq(t, 1, i)])}
<1>0. ASSUME NEW t \in Seq(Digit) PROVE Begins(Spell[t], Spell[SubSeq(t, 1, Len(t))])
  <2>1. SubSeq(t, 1, Len(t)) = t
    <3>1. Len(t) \in 0..Len(t)
      OBVIOUS
    <3>. DEFINE u == SubSeq(t, 1, Len(t))
    <3>2. u \in Seq(Digit) /\ Len(u) = Len(t) /\ \A i \in 1..Len(t) : u[i] = t[i]
      BY <3>1, Initial
    <3>. HIDE DEF u
    <3>3. u = t
      BY <3>2
    <3>. QED  BY <3>3 DEF u
  <2>2. Spell[t] \in Seq(Symbol)
    BY SpellOfDigits
  <2>3. Begins(Spell[t], Spell[t])
    BY <2>2 DEF Begins
  <2>. QED  BY <2>1, <2>3
<1>1. <<>> \in P
  <2>1. <<>> \in Seq(Digit) /\ Len(<<>>) = 0
    OBVIOUS
  <2>2. \A i \in 0..0 : i = 0
    OBVIOUS
  <2>. QED  BY <1>0, <2>1, <2>2
<1>2. ASSUME NEW t \in Seq(Digit), t # <<>>, Front(t) \in P PROVE t \in P
  <2>. SUFFICES ASSUME NEW i \in 0..Len(t) PROVE Begins(Spell[t], Spell[SubSeq(t, 1, i)])
    OBVIOUS
  <2>1. CASE i = Len(t)
    BY <1>0, <2>1
  <2>2. CASE i # Len(t)
    <3>1. i \in 0..Len(Front(t)) /\ Front(t) \in Seq(Digit)
      BY <1>2, <2>2, AllButTheLast
    <3>2. SubSeq(Front(t), 1, i) = SubSeq(t, 1, i)
      <4>1. i \in 0..Len(t) - 1 /\ Len(t) \in Nat
        BY <2>2
      <4>. QED  BY <4>1 DEF Front
    <3>3. Begins(Spell[Front(t)], Spell[SubSeq(t, 1, i)])
      BY <1>2, <3>1, <3>2
    <3>4. Begins(Spell[t], Spell[Front(t)])
      BY <1>2, SpellGrows
    <3>5. /\ Spell[t] \in Seq(Symbol) /\ Spell[Front(t)] \in Seq(Symbol)
          /\ Spell[SubSeq(t, 1, i)] \in Seq(Symbol)
      BY <3>1, Initial, SpellOfDigits
    <3>. QED  BY <3>3, <3>4, <3>5, BeginsIsTransitive
  <2>. QED  BY <2>1, <2>2
<1>3. Seq(Digit) \subseteq P
  <2>. HIDE DEF P
  <2>. QED  BY <1>1, <1>2, FrontInduction
<1>. QED  BY <1>3

(* Where in the dance of a coordinate its digits are. *)
LEMMA DanceOfCoordinate ==
  ASSUME NEW c \in Nat
  PROVE  /\ Units[c] \in Seq(Digit) /\ Len(Units[c]) \in Nat \ {0}
         /\ Spell[Units[c]] \in Seq(Symbol)
         /\ BuildDance(c) \in Seq(Symbol)
         /\ Len(BuildDance(c)) = Len(Spell[Units[c]]) + 1
         /\ BuildDance(c)[Len(BuildDance(c))] = endOfSequence
         /\ Begins(BuildDance(c), Spell[Units[c]])
<1>1. Units[c] \in Seq(Digit) /\ Len(Units[c]) \in Nat \ {0}
  BY UnitsAreValue
<1>2. Spell[Units[c]] \in Seq(Symbol) /\ endOfSequence \in Symbol
  BY <1>1, SpellOfDigits DEF Symbol
<1>. HIDE DEF Symbol
<1>. DEFINE w == Spell[Units[c]]
<1>. HIDE DEF w
<1>3. w \in Seq(Symbol)
  BY <1>2 DEF w
<1>4. BuildDance(c) = Append(w, endOfSequence)
  BY DEF BuildDance, w
<1>5. Append(w, endOfSequence) \in Seq(Symbol) /\ Len(Append(w, endOfSequence)) = Len(w) + 1
      /\ Append(w, endOfSequence)[Len(w) + 1] = endOfSequence
      /\ \A i \in 1..Len(w) : Append(w, endOfSequence)[i] = w[i]
  BY <1>2, <1>3
<1>6. Begins(BuildDance(c), w)
  BY <1>3, <1>4, <1>5 DEF Begins
<1>. QED  BY <1>1, <1>3, <1>4, <1>5, <1>6 DEF w

Far(s, k) == Len(Spell[SubSeq(s, 1, k)])

LEMMA DigitOfDance ==
  ASSUME NEW c \in Nat, NEW k \in 0..Len(Units[c]) - 1
  PROVE  /\ Units[c][k + 1] \in Digit
         /\ Far(Units[c], k) \in Nat
         /\ Far(Units[c], k + 1) = Far(Units[c], k) + Len(Path[Units[c][k + 1]]) + 1
         /\ Far(Units[c], k + 1) < Len(BuildDance(c))
         /\ \A j \in 1..Len(Path[Units[c][k + 1]]) :
              BuildDance(c)[Far(Units[c], k) + j] = Path[Units[c][k + 1]][j]
         /\ BuildDance(c)[Far(Units[c], k + 1)] = endOfSequence
<1>. DEFINE U == Units[c]
            t == SubSeq(U, 1, k + 1)
            x == BuildDance(c)
            p == Path[U[k + 1]]
<1>1. U \in Seq(Digit) /\ Len(U) \in Nat \ {0} /\ k + 1 \in 1..Len(U) /\ k + 1 \in 0..Len(U)
  BY DanceOfCoordinate
<1>2. /\ t \in Seq(Digit) /\ t # <<>> /\ Front(t) = SubSeq(U, 1, k) /\ Last(t) = U[k + 1]
      /\ U[k + 1] \in Digit
  <2>. HIDE DEF U
  <2>1. (k + 1) - 1 = k /\ SubSeq(U, 1, k + 1) \in Seq(Digit)
    BY <1>1, Initial
  <2>2. /\ SubSeq(U, 1, k + 1) # <<>>
        /\ Front(SubSeq(U, 1, k + 1)) = SubSeq(U, 1, (k + 1) - 1)
        /\ Last(SubSeq(U, 1, k + 1)) = U[k + 1]
    BY <1>1, FrontOfInitial
  <2>. QED  BY <1>1, <2>1, <2>2
<1>3. Begins(Spell[U], Spell[t]) /\ Begins(x, Spell[U]) /\ x \in Seq(Symbol)
      /\ Spell[U] \in Seq(Symbol) /\ Len(x) = Len(Spell[U]) + 1
  BY <1>1, SpellBegins, DanceOfCoordinate
<1>4. /\ Spell[Front(t)] \in Seq(Symbol) /\ Spell[t] \in Seq(Symbol)
      /\ Len(Spell[t]) = Len(Spell[Front(t)]) + Len(p) + 1
      /\ \A j \in 1..Len(p) : Spell[t][Len(Spell[Front(t)]) + j] = p[j]
      /\ Spell[t][Len(Spell[t])] = endOfSequence
  BY <1>2, SpellGrows
<1>5. Far(U, k) = Len(Spell[Front(t)]) /\ Far(U, k + 1) = Len(Spell[t])
  BY <1>2 DEF Far
<1>6. Begins(x, Spell[t])
  BY <1>3, <1>4, BeginsIsTransitive
<1>7. Len(p) \in Nat /\ Len(Spell[Front(t)]) \in Nat /\ Len(Spell[t]) \in Nat
  <2>1. U[k + 1] \in Digit
    BY <1>2
  <2>2. p \in Seq(Side)
    BY <2>1, PathLength
  <2>. HIDE DEF p
  <2>. QED  BY <1>4, <2>2
<1>. HIDE DEF U, t, x, p
<1>8. ASSUME NEW j \in 1..Len(p) PROVE x[Far(U, k) + j] = p[j]
  <2>1. Far(U, k) + j \in 1..Len(Spell[t])
    BY <1>4, <1>5, <1>7
  <2>. QED  BY <1>4, <1>5, <1>6, <2>1 DEF Begins
<1>9. x[Far(U, k + 1)] = endOfSequence
  <2>1. Len(Spell[t]) \in 1..Len(Spell[t])
    BY <1>4, <1>7
  <2>. QED  BY <1>4, <1>5, <1>6, <2>1 DEF Begins
<1>10. Far(U, k + 1) < Len(x)
  <2>1. Len(Spell[t]) <= Len(Spell[U]) /\ Len(Spell[U]) \in Nat
    BY <1>3 DEF Begins
  <2>. QED  BY <1>3, <1>5, <1>7, <2>1
<1>11. Far(U, k + 1) = Far(U, k) + Len(p) + 1
  BY <1>4, <1>5
<1>. QED  BY <1>2, <1>5, <1>7, <1>8, <1>9, <1>10, <1>11 DEF U, x, p

(* A second pause follows the last digit and no other. *)
LEMMA AfterDigit ==
  ASSUME NEW c \in Nat, NEW k \in 0..Len(Units[c]) - 1
  PROVE  BuildDance(c)[Far(Units[c], k + 1) + 1] = endOfSequence <=> k + 1 = Len(Units[c])
<1>. DEFINE U == Units[c]
            x == BuildDance(c)
<1>1. U \in Seq(Digit) /\ Len(U) \in Nat \ {0}
  BY DanceOfCoordinate
<1>2. CASE k + 1 = Len(U)
  <2>1. SubSeq(U, 1, k + 1) = U
    <3>. DEFINE u == SubSeq(U, 1, k + 1)
    <3>1. u \in Seq(Digit) /\ Len(u) = Len(U) /\ \A i \in 1..Len(U) : u[i] = U[i]
      BY <1>1, <1>2, Initial
    <3>. HIDE DEF u, U
    <3>2. u = U
      BY <1>1, <3>1
    <3>. QED  BY <3>2 DEF u
  <2>2. Far(U, k + 1) + 1 = Len(x) /\ x[Len(x)] = endOfSequence
    BY <2>1, DanceOfCoordinate DEF Far
  <2>. QED  BY <1>2, <2>2
<1>3. CASE k + 1 # Len(U)
  <2>1. k + 1 \in 0..Len(U) - 1
    BY <1>1, <1>3
  <2>2. /\ U[k + 2] \in Digit
        /\ \A j \in 1..Len(Path[U[k + 2]]) : x[Far(U, k + 1) + j] = Path[U[k + 2]][j]
    <3>1. (k + 1) + 1 = k + 2
      BY <1>1
    <3>. QED  BY <2>1, <3>1, DigitOfDance
  <2>3. U[k + 2] \in Digit
    BY <2>2
  <2>4. Path[U[k + 2]][1] \in Side /\ Len(Path[U[k + 2]]) \in 1..3
    BY <2>3, PathLength
  <2>5. x[Far(U, k + 1) + 1] \in Side
    <3>1. 1 \in 1..Len(Path[U[k + 2]])
      BY <2>4
    <3>. QED  BY <2>2, <2>4, <3>1
  <2>. QED  BY <1>3, <2>5 DEF Side, left, right, endOfSequence
<1>. QED  BY <1>2, <1>3
-----------------------------------------------------------------------------
(* What is recorded, and how far the reader is. *)

DanceLength(n) == Len(BuildDance(danced[n]))

(* The index of the first move of a coordinate, and of what is behind them. *)
Begin(n) == IF n = 1 THEN 1
            ELSE IF n = 2 THEN 1 + DanceLength(1)
            ELSE 1 + DanceLength(1) + DanceLength(2)

Recorded ==
  /\ danced \in Coords \X Coords
  /\ dance = Tape(danced[1], danced[2])

LEMMA TapeIs ==
  ASSUME Recorded
  PROVE  /\ dance \in Seq(Noted)
         /\ Len(dance) = Begin(3)
         /\ \A n \in 1..2 : /\ danced[n] \in Nat
                            /\ DanceLength(n) \in Nat
                            /\ Begin(n) \in Nat
                            /\ Begin(n + 1) = Begin(n) + DanceLength(n)
                            /\ Begin(n) + DanceLength(n) <= Len(dance)
                            /\ \A j \in 1..DanceLength(n) :
                                 dance[Begin(n) + j] = AsHeard(BuildDance(danced[n])[j])
<1>. DEFINE x == BuildDance(danced[1])
            y == BuildDance(danced[2])
            z == WholeDance(danced[1], danced[2])
<1>1. danced[1] \in Nat /\ danced[2] \in Nat
  BY DecodeAssumption DEF Recorded
<1>2. x \in Seq(Symbol) /\ y \in Seq(Symbol) /\ <<left>> \in Seq(Symbol)
  <2>1. left \in Symbol
    BY DEF Symbol
  <2>2. <<left>> \in Seq(Symbol)
    BY <2>1
  <2>. QED  BY <1>1, <2>2, DanceOfCoordinate
<1>. HIDE DEF x, y
<1>. DEFINE lx == <<left>> \o x
<1>3. /\ lx \in Seq(Symbol) /\ Len(lx) = 1 + Len(x)
      /\ \A j \in 1..Len(x) : lx[1 + j] = x[j]
  BY <1>2
<1>4. z = lx \o y
  BY DEF WholeDance, x, y
<1>. HIDE DEF lx, z
<1>5. /\ z \in Seq(Symbol) /\ Len(z) = Len(lx) + Len(y)
      /\ \A i \in 1..Len(lx) : z[i] = lx[i]
      /\ \A j \in 1..Len(y) : z[Len(lx) + j] = y[j]
  <2>1. lx \in Seq(Symbol) /\ y \in Seq(Symbol)
    BY <1>2, <1>3
  <2>2. /\ lx \o y \in Seq(Symbol) /\ Len(lx \o y) = Len(lx) + Len(y)
        /\ \A i \in 1..Len(lx) : (lx \o y)[i] = lx[i]
        /\ \A j \in 1..Len(y) : (lx \o y)[Len(lx) + j] = y[j]
    BY <2>1, Concatenation
  <2>. QED  BY <1>4, <2>2
<1>6. Len(x) \in Nat /\ Len(y) \in Nat
  BY <1>2
<1>7. /\ Len(z) = 1 + Len(x) + Len(y)
      /\ \A j \in 1..Len(x) : z[1 + j] = x[j]
      /\ \A j \in 1..Len(y) : z[1 + Len(x) + j] = y[j]
  BY <1>3, <1>5, <1>6
<1>8. dance = [i \in 1..Len(z) |-> AsHeard(z[i])]
  <2>1. DOMAIN z = 1..Len(z)
    BY <1>5
  <2>. QED  BY <2>1 DEF Recorded, Tape, Heard, z
<1>9. \A i \in 1..Len(z) : AsHeard(z[i]) \in Noted
  BY <1>5 DEF Symbol, AsHeard, Noted
<1>10. Len(z) \in Nat
  BY <1>5
<1>11. dance \in Seq(Noted) /\ Len(dance) = Len(z)
  <2>1. dance \in [1..Len(z) -> Noted]
    BY <1>8, <1>9
  <2>. QED  BY <1>10, <2>1
<1>12. DanceLength(1) = Len(x) /\ DanceLength(2) = Len(y)
  BY DEF DanceLength, x, y
<1>13. Begin(1) = 1 /\ Begin(2) = 1 + Len(x) /\ Begin(3) = 1 + Len(x) + Len(y)
  BY <1>12 DEF Begin
<1>14. \A j \in 1..Len(x) : dance[1 + j] = AsHeard(x[j])
  BY <1>6, <1>7, <1>8
<1>15. \A j \in 1..Len(y) : dance[1 + Len(x) + j] = AsHeard(y[j])
  BY <1>6, <1>7, <1>8
<1>16. ASSUME NEW n \in 1..2
       PROVE  /\ danced[n] \in Nat
              /\ DanceLength(n) \in Nat
              /\ Begin(n) \in Nat
              /\ Begin(n + 1) = Begin(n) + DanceLength(n)
              /\ Begin(n) + DanceLength(n) <= Len(dance)
              /\ \A j \in 1..DanceLength(n) :
                   dance[Begin(n) + j] = AsHeard(BuildDance(danced[n])[j])
  <2>1. CASE n = 1
    BY <1>1, <1>6, <1>7, <1>11, <1>12, <1>13, <1>14, <2>1 DEF x
  <2>2. CASE n = 2
    <3>1. Begin(n) = 1 + Len(x) /\ Begin(n + 1) = 1 + Len(x) + Len(y) /\ DanceLength(n) = Len(y)
      BY <1>12, <1>13, <2>2
    <3>2. \A j \in 1..Len(y) : dance[(1 + Len(x)) + j] = AsHeard(y[j])
      BY <1>15
    <3>3. \A j \in 1..DanceLength(n) : dance[Begin(n) + j] = AsHeard(BuildDance(danced[n])[j])
      BY <2>2, <3>1, <3>2 DEF y
    <3>4. /\ Begin(n) \in Nat /\ DanceLength(n) \in Nat
          /\ Begin(n + 1) = Begin(n) + DanceLength(n)
          /\ Begin(n) + DanceLength(n) <= Len(dance)
      BY <1>6, <1>7, <1>11, <3>1
    <3>. QED  BY <1>1, <2>2, <3>3, <3>4
  <2>. QED  BY <2>1, <2>2
<1>. QED  BY <1>7, <1>11, <1>13, <1>16

(* The digits that fit in the array of those read. *)
Kept(s, k) == SubSeq(s, 1, IF k < NumberSize THEN k ELSE NumberSize)

Digits == Units[danced[coord]]

(* The reader is in the path of the digit behind the first k. *)
ReadingAfter(k) ==
  /\ number = Kept(Digits, k)
  /\ Len(moves) < Len(Path[Digits[k + 1]])
  /\ moves = SubSeq(Path[Digits[k + 1]], 1, Len(moves))
  /\ dance_index = Begin(coord) + Far(Digits, k) + Len(moves)

ReadingInv ==
  /\ Recorded
  /\ coord \in 1..3
  /\ honey \in Seq(Nat)
  /\ Len(honey) = coord - 1
  /\ \A n \in 1..coord - 1 : honey[n] = Value[Kept(Units[danced[n]], Len(Units[danced[n]]))]
  /\ number \in Seq(Digit)
  /\ moves \in Seq(Side)
  /\ coord < 3 => \E k \in 0..Len(Digits) - 1 : ReadingAfter(k)
  /\ coord = 3 => moves = <<>> /\ dance_index = Len(dance)

LEMMA KeptDigits ==
  ASSUME NEW s \in Seq(Digit), NEW k \in 0..Len(s)
  PROVE  /\ Kept(s, k) \in Seq(Digit)
         /\ k = 0 => Kept(s, k) = <<>>
         /\ number = Kept(s, k) /\ k < Len(s) => StoreDigit(s[k + 1]) = Kept(s, k + 1)
<1>1. NumberSize \in Nat \ {0} /\ k \in Nat /\ Len(s) \in Nat
  BY DecodeAssumption
<1>2. Kept(s, k) \in Seq(Digit) /\ Len(Kept(s, k)) = IF k < NumberSize THEN k ELSE NumberSize
  <2>1. (IF k < NumberSize THEN k ELSE NumberSize) \in 0..Len(s)
    BY <1>1
  <2>. QED  BY <2>1, Initial DEF Kept
<1>3. k = 0 => Kept(s, k) = <<>>
  BY <1>1, <1>2
<1>4. ASSUME number = Kept(s, k), k < Len(s) PROVE StoreDigit(s[k + 1]) = Kept(s, k + 1)
  <2>1. CASE k < NumberSize
    <3>1. k \in 0..Len(s) - 1
      BY <1>1, <1>4
    <3>2. SubSeq(s, 1, k + 1) = Append(SubSeq(s, 1, k), s[k + 1])
      BY <3>1, OneMore
    <3>3. Kept(s, k) = SubSeq(s, 1, k)
      BY <2>1 DEF Kept
    <3>4. Kept(s, k + 1) = SubSeq(s, 1, k + 1)
      <4>1. k + 1 < NumberSize \/ k + 1 = NumberSize
        BY <1>1, <2>1
      <4>. QED  BY <4>1 DEF Kept
    <3>. QED  BY <1>2, <1>4, <2>1, <3>2, <3>3, <3>4 DEF StoreDigit
  <2>2. CASE ~(k < NumberSize)
    <3>1. ~(k + 1 < NumberSize)
      BY <1>1, <2>2
    <3>2. Kept(s, k + 1) = Kept(s, k)
      BY <2>2, <3>1 DEF Kept
    <3>3. ~(Len(number) < NumberSize)
      BY <1>1, <1>2, <1>4, <2>2
    <3>. QED  BY <1>4, <3>2, <3>3 DEF StoreDigit
  <2>. QED  BY <2>1, <2>2
<1>. QED  BY <1>2, <1>3, <1>4

(* What the reader does next. *)
LEMMA Ahead ==
  ASSUME ReadingInv, coord < 3, NEW k \in 0..Len(Digits) - 1, ReadingAfter(k)
  PROVE  LET p == Path[Digits[k + 1]]
             m == Len(moves)
         IN  /\ p \in Seq(Side) /\ Len(p) \in 1..3 /\ m \in 0..Len(p) - 1 /\ m < 3
             /\ Append(moves, At(dance_index)) = SubSeq(p, 1, m + 1)
             /\ InDigit <=> m + 1 < Len(p)
             /\ ~InDigit => /\ dance_index + 2 = Begin(coord) + Far(Digits, k + 1)
                            /\ At(dance_index + 2) = endOfWord <=> k + 1 = Len(Digits)
<1>. DEFINE c == danced[coord]
            p == Path[Digits[k + 1]]
            m == Len(moves)
            x == BuildDance(c)
            b == Begin(coord)
            f == Far(Digits, k)
<1>0. Recorded /\ coord \in 1..2
  BY DEF ReadingInv
<1>1. coord \in 1..2 /\ c \in Nat /\ Digits = Units[c]
  BY <1>0, TapeIs DEF Digits
<1>2. /\ b \in Nat /\ Len(x) \in Nat /\ b + Len(x) <= Len(dance) /\ Len(dance) \in Nat
      /\ \A j \in 1..Len(x) : dance[b + j] = AsHeard(x[j])
  <2>1. dance \in Seq(Noted)
    BY <1>0, TapeIs
  <2>2. Len(dance) \in Nat
    BY <2>1
  <2>. QED  BY <1>0, <2>2, TapeIs DEF DanceLength
<1>3. /\ Digits[k + 1] \in Digit
      /\ f \in Nat
      /\ Far(Digits, k + 1) = f + Len(p) + 1
      /\ Far(Digits, k + 1) < Len(x)
      /\ \A j \in 1..Len(p) : x[f + j] = p[j]
      /\ x[Far(Digits, k + 1)] = endOfSequence
      /\ x[Far(Digits, k + 1) + 1] = endOfSequence <=> k + 1 = Len(Digits)
  BY <1>1, DigitOfDance, AfterDigit
<1>4. p \in Seq(Side) /\ Len(p) \in 1..3
  <2>1. Digits[k + 1] \in Digit
    BY <1>3
  <2>. QED  BY <2>1, PathLength
<1>5. m < Len(p) /\ moves = SubSeq(p, 1, m) /\ dance_index = b + f + m /\ m \in Nat
  BY DEF ReadingAfter, ReadingInv
<1>. HIDE DEF c, p, m, x, b, f
<1>6. m \in 0..Len(p) - 1 /\ m < 3
  BY <1>4, <1>5
<1>7. ASSUME NEW j \in 1..Len(x) PROVE At(b + j - 1) = AsHeard(x[j])
  <2>1. b + j - 1 < Len(dance) /\ (b + j - 1) + 1 = b + j
    BY <1>2
  <2>. QED  BY <1>2, <2>1 DEF At
<1>8. ASSUME NEW j \in 1..Len(p) PROVE At(b + f + j - 1) = p[j] /\ p[j] \in Side
  <2>1. f + j \in 1..Len(x) /\ b + (f + j) - 1 = b + f + j - 1
    BY <1>2, <1>3, <1>4
  <2>2. At(b + f + j - 1) = AsHeard(x[f + j])
    BY <1>7, <2>1
  <2>3. x[f + j] = p[j] /\ p[j] \in Side
    BY <1>3, <1>4
  <2>. QED  BY <2>2, <2>3 DEF AsHeard, Side, left, right, endOfSequence
<1>9. At(dance_index) = p[m + 1]
  <2>1. m + 1 \in 1..Len(p) /\ b + f + (m + 1) - 1 = dance_index
    BY <1>2, <1>3, <1>4, <1>5, <1>6
  <2>. QED  BY <1>8, <2>1
<1>10. Append(moves, At(dance_index)) = SubSeq(p, 1, m + 1)
  <2>1. SubSeq(p, 1, m + 1) = Append(SubSeq(p, 1, m), p[m + 1])
    BY <1>4, <1>6, OneMore
  <2>. QED  BY <1>5, <1>9, <2>1
<1>11. CASE m + 1 < Len(p)
  <2>1. m + 2 \in 1..Len(p) /\ b + f + (m + 2) - 1 = dance_index + 1
    <3>1. /\ Len(p) \in Nat /\ m + 1 < Len(p) /\ dance_index = b + f + m
          /\ b \in Nat /\ f \in Nat /\ m \in Nat
      BY <1>2, <1>3, <1>4, <1>5, <1>11
    <3>. QED  BY <3>1
  <2>2. At(dance_index + 1) \in Side
    BY <1>8, <2>1
  <2>3. InDigit
    BY <2>2 DEF InDigit, Side, left, right, endOfWord
  <2>. QED  BY <1>4, <1>6, <1>10, <1>11, <2>3 DEF p, m
<1>12. CASE ~(m + 1 < Len(p))
  <2>1. m + 1 = Len(p)
    BY <1>4, <1>6, <1>12
  <2>2. Far(Digits, k + 1) \in 1..Len(x) /\ Far(Digits, k + 1) + 1 \in 1..Len(x)
    BY <1>2, <1>3, <1>4
  <2>3. b + Far(Digits, k + 1) - 1 = dance_index + 1
        /\ b + (Far(Digits, k + 1) + 1) - 1 = dance_index + 2
        /\ b + Far(Digits, k + 1) = dance_index + 2
    <3>1. /\ Far(Digits, k + 1) = f + Len(p) + 1 /\ dance_index = b + f + m
          /\ b \in Nat /\ f \in Nat /\ m \in Nat
      BY <1>2, <1>3, <1>5
    <3>. QED  BY <2>1, <3>1
  <2>4. At(dance_index + 1) = AsHeard(x[Far(Digits, k + 1)])
        /\ At(dance_index + 2) = AsHeard(x[Far(Digits, k + 1) + 1])
    BY <1>7, <2>2, <2>3
  <2>5. ~InDigit
    BY <1>3, <2>4 DEF InDigit, AsHeard
  <2>6. x[Far(Digits, k + 1) + 1] \in Symbol
    <3>1. x \in Seq(Symbol)
      BY <1>1, DanceOfCoordinate DEF x
    <3>. QED  BY <2>2, <3>1
  <2>7. At(dance_index + 2) = endOfWord <=> k + 1 = Len(Digits)
    BY <1>3, <2>4, <2>6 DEF AsHeard, Symbol, left, right, endOfSequence, endOfWord
  <2>. QED  BY <1>4, <1>6, <1>10, <1>12, <2>3, <2>5, <2>7 DEF p, m, b
<1>. QED  BY <1>11, <1>12

LEMMA FarFromTheStart ==
  ASSUME NEW s
  PROVE  Far(s, 0) = 0
<1>1. SubSeq(s, 1, 0) = <<>>
  OBVIOUS
<1>2. Len(Spell[<<>>]) = 0
  BY SpellOfDigits
<1>. QED  BY <1>1, <1>2 DEF Far

(* The reader stands before the first move of coordinate coord, if any.    *)
AtStart ==
  /\ Recorded
  /\ coord \in 1..2
  /\ number = <<>>
  /\ moves = <<>>
  /\ dance_index = Begin(coord)

Reading == \E k \in 0..Len(Digits) - 1 : ReadingAfter(k)

LEMMA ReaderAtStart == AtStart => Reading
<1>. SUFFICES ASSUME Recorded, coord \in 1..2, number = <<>>, moves = <<>>,
                     dance_index = Begin(coord)
              PROVE  0 \in 0..Len(Digits) - 1 /\ ReadingAfter(0)
  BY DEF AtStart, Reading
<1>1. danced[coord] \in Nat /\ Begin(coord) \in Nat
  BY TapeIs
<1>2. Digits \in Seq(Digit) /\ Len(Digits) \in Nat \ {0}
  BY <1>1, DanceOfCoordinate DEF Digits
<1>3. Digits[0 + 1] \in Digit
  <2>1. 0 \in 0..Len(Units[danced[coord]]) - 1
    BY <1>2 DEF Digits
  <2>. QED  BY <1>1, <2>1, DigitOfDance DEF Digits
<1>. DEFINE p == Path[Digits[0 + 1]]
<1>4. p \in Seq(Side) /\ 0 < Len(p)
  BY <1>3, PathLength
<1>. HIDE DEF p
<1>5. Len(moves) = 0 /\ SubSeq(p, 1, 0) = <<>>
  BY <1>4
<1>6. Kept(Digits, 0) = <<>>
  <2>1. 0 \in 0..Len(Digits)
    BY <1>2
  <2>. QED  BY <1>2, <2>1, KeptDigits
<1>7. Far(Digits, 0) = 0
  BY FarFromTheStart
<1>8. Len(moves) < Len(p) /\ moves = SubSeq(p, 1, Len(moves))
  BY <1>4, <1>5
<1>9. dance_index = Begin(coord) + Far(Digits, 0) + Len(moves)
  BY <1>1, <1>5, <1>7
<1>. QED  BY <1>2, <1>6, <1>8, <1>9 DEF ReadingAfter, p

LEMMA ReadingInit == Init => ReadingInv
<1>. SUFFICES ASSUME Init PROVE ReadingInv
  OBVIOUS
<1>1. Recorded /\ coord = 1 /\ dance_index = 1 /\ moves = <<>> /\ number = <<>> /\ honey = <<>>
  BY DEF Init, Recorded
<1>2. AtStart
  BY <1>1 DEF AtStart, Begin
<1>3. \E k \in 0..Len(Digits) - 1 : ReadingAfter(k)
  BY <1>2, ReaderAtStart DEF Reading
<1>. QED  BY <1>1, <1>3 DEF ReadingInv

LEMMA ReadingStep == ReadingInv /\ [Next]_vars => ReadingInv'
<1>. SUFFICES ASSUME ReadingInv, [Next]_vars PROVE ReadingInv'
  OBVIOUS
<1>1. CASE UNCHANGED vars \/ Done
  BY <1>1 DEF vars, Done, ReadingInv, Recorded, Digits, ReadingAfter, Begin, DanceLength
<1>2. CASE coord < 3 /\ Len(moves) < MovesSize /\ (ReadMove \/ ReadDigit \/ ReadCoord)
  <2>0. /\ Recorded /\ coord \in 1..2 /\ UNCHANGED <<danced, dance>> /\ Recorded'
        /\ moves \in Seq(Side) /\ number \in Seq(Digit) /\ honey \in Seq(Nat)
    BY <1>2 DEF ReadingInv, Recorded, ReadMove, ReadDigit, ReadCoord
  <2>1. PICK k \in 0..Len(Digits) - 1 : ReadingAfter(k)
    BY <1>2 DEF ReadingInv
  <2>. DEFINE p == Path[Digits[k + 1]]
              m == Len(moves)
              read == Append(moves, At(dance_index))
  <2>2. /\ p \in Seq(Side) /\ Len(p) \in 1..3 /\ m \in 0..Len(p) - 1
        /\ read = SubSeq(p, 1, m + 1)
        /\ InDigit <=> m + 1 < Len(p)
        /\ ~InDigit => /\ dance_index + 2 = Begin(coord) + Far(Digits, k + 1)
                       /\ At(dance_index + 2) = endOfWord <=> k + 1 = Len(Digits)
    BY <1>2, <2>1, Ahead
  <2>3. number = Kept(Digits, k) /\ dance_index = Begin(coord) + Far(Digits, k) + m
    BY <2>1 DEF ReadingAfter
  <2>4. danced[coord] \in Nat /\ Digits \in Seq(Digit) /\ Len(Digits) \in Nat \ {0}
    <3>1. danced[coord] \in Nat
      BY <2>0, TapeIs
    <3>. QED  BY <3>1, DanceOfCoordinate DEF Digits
  <2>5. /\ Begin(coord) \in Nat /\ Begin(coord + 1) = Begin(coord) + DanceLength(coord)
        /\ Far(Digits, k) \in Nat /\ Digits[k + 1] \in Digit
    <3>1. k \in 0..Len(Units[danced[coord]]) - 1
      BY DEF Digits
    <3>. QED  BY <2>0, <2>4, <3>1, TapeIs, DigitOfDance DEF Digits
  <2>. HIDE DEF p, m, read
  <2>6. read \in Seq(Side) /\ Len(read) = m + 1
    <3>1. m + 1 \in 0..Len(p)
      BY <2>2
    <3>. QED  BY <2>2, <3>1, Initial
  <2>7. ASSUME ~InDigit PROVE ConvertToNumber[read] = Digits[k + 1]
    <3>1. m + 1 = Len(p)
      BY <2>2, <2>7
    <3>2. read = p
      <4>1. Len(p) \in 0..Len(p)
        BY <2>2
      <4>2. Len(read) = Len(p) /\ \A i \in 1..Len(p) : read[i] = p[i]
        BY <2>2, <3>1, <4>1, Initial
      <4>. QED  BY <2>2, <2>6, <4>2
    <3>. QED  BY <2>5, <3>2, PathIsRead DEF p
  <2>8. StoreDigit(Digits[k + 1]) = Kept(Digits, k + 1) /\ Kept(Digits, k + 1) \in Seq(Digit)
    <3>1. k \in 0..Len(Digits) /\ k < Len(Digits) /\ k + 1 \in 0..Len(Digits)
      BY <2>4
    <3>. QED  BY <2>3, <2>4, <3>1, KeptDigits
  <2>9. CASE ReadMove
    <3>1. /\ InDigit /\ moves' = read /\ dance_index' = dance_index + 1
          /\ UNCHANGED <<danced, dance, coord, number, honey>>
      BY <2>9 DEF ReadMove, read
    <3>2. Digits' = Digits /\ Begin(coord)' = Begin(coord)
      BY <3>1 DEF Digits, Begin, DanceLength
    <3>3. Len(moves') < Len(p) /\ moves' = SubSeq(p, 1, Len(moves'))
      BY <2>2, <2>6, <3>1
    <3>4. dance_index' = Begin(coord) + Far(Digits, k) + Len(moves')
      <4>1. m \in Nat
        BY <2>2
      <4>. QED  BY <2>3, <2>5, <2>6, <3>1, <4>1
    <3>5. ReadingAfter(k)'
      BY <2>3, <3>1, <3>2, <3>3, <3>4 DEF ReadingAfter, p
    <3>6. (\E i \in 0..Len(Digits) - 1 : ReadingAfter(i))'
      BY <3>2, <3>5
    <3>7. \A n \in 1..coord' - 1 : honey'[n] = Value[Kept(Units[danced'[n]], Len(Units[danced'[n]]))]
      BY <3>1 DEF ReadingInv
    <3>. QED  BY <1>2, <2>0, <2>6, <3>1, <3>6, <3>7 DEF ReadingInv
  <2>10. CASE ReadDigit
    <3>1. /\ ~InDigit /\ At(dance_index + 2) # endOfWord
          /\ number' = StoreDigit(ConvertToNumber[read])
          /\ moves' = <<>> /\ dance_index' = dance_index + 2
          /\ UNCHANGED <<danced, dance, coord, honey>>
      BY <2>10 DEF ReadDigit, read
    <3>2. Digits' = Digits /\ Begin(coord)' = Begin(coord)
      BY <3>1 DEF Digits, Begin, DanceLength
    <3>3. k + 1 \in 0..Len(Digits) - 1
      BY <2>2, <2>4, <3>1
    <3>4. number' = Kept(Digits, k + 1) /\ number' \in Seq(Digit)
      BY <2>7, <2>8, <3>1
    <3>5. Digits[(k + 1) + 1] \in Digit
      <4>1. k + 1 \in 0..Len(Units[danced[coord]]) - 1
        BY <3>3 DEF Digits
      <4>. QED  BY <2>4, <4>1, DigitOfDance DEF Digits
    <3>. DEFINE q == Path[Digits[(k + 1) + 1]]
    <3>6. q \in Seq(Side) /\ 0 < Len(q)
      BY <3>5, PathLength
    <3>. HIDE DEF q
    <3>7. Len(moves') < Len(q) /\ moves' = SubSeq(q, 1, Len(moves')) /\ Len(moves') = 0
      BY <3>1, <3>6
    <3>8. dance_index' = Begin(coord) + Far(Digits, k + 1) + Len(moves')
      <4>1. dance_index + 2 = Begin(coord) + Far(Digits, k + 1)
        BY <2>2, <3>1
      <4>2. dance_index \in Nat
        BY <2>2, <2>3, <2>5
      <4>. QED  BY <3>1, <3>7, <4>1, <4>2
    <3>9. ReadingAfter(k + 1)'
      BY <3>2, <3>4, <3>7, <3>8 DEF ReadingAfter, q
    <3>10. (\E i \in 0..Len(Digits) - 1 : ReadingAfter(i))'
      BY <3>2, <3>3, <3>9
    <3>11. \A n \in 1..coord' - 1 : honey'[n] = Value[Kept(Units[danced'[n]], Len(Units[danced'[n]]))]
      BY <3>1 DEF ReadingInv
    <3>12. moves' \in Seq(Side)
      BY <3>1
    <3>. QED  BY <1>2, <2>0, <3>1, <3>4, <3>10, <3>11, <3>12 DEF ReadingInv
  <2>11. CASE ReadCoord
    <3>1. /\ ~InDigit /\ At(dance_index + 2) = endOfWord
          /\ honey' = Append(honey, Value[StoreDigit(ConvertToNumber[read])])
          /\ moves' = <<>> /\ number' = <<>> /\ dance_index' = dance_index + 3
          /\ coord' = coord + 1
          /\ UNCHANGED <<danced, dance>>
      BY <2>11 DEF ReadCoord, read
    <3>2. k + 1 = Len(Digits)
      BY <2>2, <3>1
    <3>3. StoreDigit(ConvertToNumber[read]) = Kept(Digits, Len(Digits))
      BY <2>7, <2>8, <3>1, <3>2
    <3>. DEFINE v == Value[Kept(Digits, Len(Digits))]
    <3>4. honey' = Append(honey, v) /\ v \in Nat
      <4>1. Kept(Digits, Len(Digits)) \in Seq(Nat)
        <5>1. Seq(Digit) \subseteq Seq(Nat)
          BY DEF Digit
        <5>. QED  BY <2>8, <3>2, <5>1
      <4>. QED  BY <3>1, <3>3, <4>1, ValueUnfold
    <3>. HIDE DEF v
    <3>5. Len(honey) = coord - 1 /\ coord \in 1..2
      BY <2>0 DEF ReadingInv
    <3>6. /\ honey' \in Seq(Nat) /\ Len(honey') = coord' - 1
          /\ honey'[coord] = v /\ \A n \in 1..coord - 1 : honey'[n] = honey[n]
      BY <2>0, <3>1, <3>4, <3>5
    <3>7. ASSUME NEW n \in 1..coord' - 1
          PROVE  honey'[n] = Value[Kept(Units[danced'[n]], Len(Units[danced'[n]]))]
      <4>1. CASE n = coord
        BY <3>1, <3>6, <4>1 DEF v, Digits
      <4>2. CASE n # coord
        <5>1. n \in 1..coord - 1
          BY <3>1, <3>5, <4>2
        <5>. QED  BY <3>1, <3>6, <5>1 DEF ReadingInv
      <4>. QED  BY <4>1, <4>2
    <3>8. dance_index' = Begin(coord + 1)
      <4>1. dance_index + 2 = Begin(coord) + Far(Digits, k + 1)
        BY <2>2, <3>1
      <4>2. DanceLength(coord) = Far(Digits, k + 1) + 1
        <5>1. SubSeq(Digits, 1, Len(Digits)) = Digits
          BY <2>4
        <5>2. Far(Digits, k + 1) = Len(Spell[Digits])
          BY <3>2, <5>1 DEF Far
        <5>. QED  BY <2>4, <5>2, DanceOfCoordinate DEF DanceLength, Digits
      <4>3. dance_index \in Nat /\ Far(Digits, k + 1) \in Nat
        <5>1. k \in 0..Len(Units[danced[coord]]) - 1
          BY DEF Digits
        <5>2. Far(Digits, k + 1) = Far(Digits, k) + Len(Path[Digits[k + 1]]) + 1
          BY <2>4, <5>1, DigitOfDance DEF Digits
        <5>3. Len(Path[Digits[k + 1]]) \in Nat
          BY <2>5, PathLength
        <5>4. m \in Nat
          BY <2>2
        <5>. QED  BY <2>3, <2>5, <5>2, <5>3, <5>4
      <4>. QED  BY <2>5, <3>1, <4>1, <4>2, <4>3
    <3>9. Begin(coord)' = Begin(coord + 1)
      <4>1. DanceLength(1)' = DanceLength(1) /\ DanceLength(2)' = DanceLength(2)
        BY <3>1 DEF DanceLength
      <4>. QED  BY <3>1, <4>1 DEF Begin
    <3>10. CASE coord = 1
      <4>1. AtStart'
        <5>1. coord' = 2
          BY <3>1, <3>10
        <5>2. (dance_index = Begin(coord))'
          BY <3>8, <3>9
        <5>. QED  BY <2>0, <3>1, <5>1, <5>2 DEF AtStart
      <4>2. Reading'
        BY <4>1, ReaderAtStart, PTL
      <4>3. (\E i \in 0..Len(Digits) - 1 : ReadingAfter(i))'
        BY <4>2 DEF Reading
      <4>4. coord' = 2 /\ number' \in Seq(Digit) /\ moves' \in Seq(Side)
        BY <3>1, <3>10
      <4>. QED  BY <2>0, <3>6, <3>7, <4>3, <4>4 DEF ReadingInv
    <3>11. CASE coord = 2
      <4>1. dance_index' = Len(dance')
        BY <2>0, <3>1, <3>8, <3>11, TapeIs
      <4>2. coord' = 3 /\ number' \in Seq(Digit) /\ moves' \in Seq(Side)
        BY <3>1, <3>11
      <4>. QED  BY <2>0, <3>1, <3>6, <3>7, <4>1, <4>2 DEF ReadingInv
    <3>. QED  BY <3>5, <3>10, <3>11
  <2>. QED  BY <1>2, <2>9, <2>10, <2>11
<1>. QED  BY <1>1, <1>2 DEF Next, ReadMove, ReadDigit, ReadCoord

LEMMA ReadingInvariant == Spec => []ReadingInv
BY ReadingInit, ReadingStep, PTL DEF Spec

(* The reader stays within the dance and its array of moves, reads nothing *)
(* but digits, and ends exactly where the dance does, whatever coordinates *)
(* were danced and however few digits the onlooker keeps.                  *)
THEOREM ReaderStaysInDance == Spec => []DecodeInv
<1>1. ReadingInv => DecodeInv
  <2>. SUFFICES ASSUME ReadingInv PROVE DecodeInv
    OBVIOUS
  <2>1. /\ Recorded /\ coord \in 1..3 /\ honey \in Seq(Nat) /\ number \in Seq(Digit)
        /\ moves \in Seq(Side)
    BY DEF ReadingInv
  <2>2. dance \in Seq(Noted) /\ Len(dance) \in Nat
    <3>1. dance \in Seq(Noted)
      BY <2>1, TapeIs
    <3>. QED  BY <3>1
  <2>3. moves \in Seq(Noted \union {"none"})
    <3>1. Side \subseteq Noted \union {"none"}
      BY DEF Side, Noted
    <3>. QED  BY <2>1, <3>1
  <2>4. CASE coord = 3
    <3>1. moves = <<>> /\ dance_index = Len(dance)
      BY <2>4 DEF ReadingInv
    <3>2. Len(moves) < MovesSize
      BY <3>1 DEF MovesSize
    <3>. QED  BY <2>1, <2>2, <2>3, <3>1, <3>2 DEF Recorded, DecodeInv, TypeOK, StaysInDance
  <2>5. CASE coord # 3
    <3>1. coord < 3 /\ coord \in 1..2
      BY <2>1, <2>5
    <3>2. PICK k \in 0..Len(Digits) - 1 : ReadingAfter(k)
      BY <3>1 DEF ReadingInv
    <3>. DEFINE p == Path[Digits[k + 1]]
    <3>3. Len(p) \in 1..3 /\ Len(moves) \in 0..Len(p) - 1 /\ Len(moves) < 3
      BY <3>1, <3>2, Ahead
    <3>4. dance_index = Begin(coord) + Far(Digits, k) + Len(moves)
      BY <3>2 DEF ReadingAfter
    <3>5. /\ danced[coord] \in Nat /\ Begin(coord) \in Nat /\ DanceLength(coord) \in Nat
          /\ Begin(coord) + DanceLength(coord) <= Len(dance)
      BY <2>1, <3>1, TapeIs
    <3>6. /\ Far(Digits, k) \in Nat
          /\ Far(Digits, k + 1) = Far(Digits, k) + Len(p) + 1
          /\ Far(Digits, k + 1) < DanceLength(coord)
      <4>1. k \in 0..Len(Units[danced[coord]]) - 1
        BY DEF Digits
      <4>. QED  BY <3>5, <4>1, DigitOfDance DEF Digits, DanceLength
    <3>. HIDE DEF p
    <3>7. dance_index \in Nat /\ dance_index <= Len(dance)
      BY <2>2, <3>3, <3>4, <3>5, <3>6
    <3>8. Len(moves) < MovesSize
      BY <3>3 DEF MovesSize
    <3>. QED  BY <2>1, <2>2, <2>3, <2>5, <3>7, <3>8 DEF Recorded, DecodeInv, TypeOK, StaysInDance
  <2>. QED  BY <2>4, <2>5
<1>. QED  BY <1>1, ReadingInvariant, PTL

(* No coordinate has more digits than the onlooker's array takes.          *)
DigitsFit == \A c \in Coords : Len(Units[c]) <= NumberSize

(* What is read is what was danced.                                        *)
THEOREM CoordinatesAreRead == DigitsFit => (Spec => []ReadsCoordinates)
<1>. SUFFICES ASSUME DigitsFit PROVE Spec => []ReadsCoordinates
  OBVIOUS
<1>1. ReadingInv => ReadsCoordinates
  <2>. SUFFICES ASSUME ReadingInv, NEW n \in DOMAIN honey PROVE honey[n] = danced[n]
    BY DEF ReadsCoordinates
  <2>1. Recorded /\ n \in 1..coord - 1 /\ n \in 1..2 /\ coord \in 1..3
    BY DEF ReadingInv
  <2>2. danced[n] \in Coords /\ danced[n] \in Nat
    BY <2>1, TapeIs DEF Recorded
  <2>. DEFINE U == Units[danced[n]]
  <2>3. U \in Seq(Digit) /\ Value[U] = danced[n]
    BY <2>2, UnitsAreValue
  <2>4. Len(U) <= NumberSize
    BY <2>2 DEF DigitsFit
  <2>5. honey[n] = Value[Kept(U, Len(U))]
    BY <2>1 DEF ReadingInv
  <2>. HIDE DEF U
  <2>6. Len(U) \in Nat /\ NumberSize \in Nat
    BY <2>3, DecodeAssumption
  <2>7. Kept(U, Len(U)) = SubSeq(U, 1, Len(U))
    <3>1. Len(U) < NumberSize \/ Len(U) = NumberSize
      BY <2>4, <2>6
    <3>. QED  BY <3>1 DEF Kept
  <2>8. SubSeq(U, 1, Len(U)) = U
    BY <2>3
  <2>. QED  BY <2>3, <2>5, <2>7, <2>8
<1>. QED  BY <1>1, ReadingInvariant, PTL
====
