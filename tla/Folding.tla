------------------------------- MODULE Folding -------------------------------
(***************************************************************************)
(* Loops over a list.  A loop of the code that takes a state from entry to *)
(* entry is Fold(base, s): Op applied to the entries of s in their order,  *)
(* from base on.  Values keeps what the state was after each entry, so     *)
(* that a proof can follow the loop.                                       *)
(*                                                                         *)
(* The operation is a parameter of the module, not of its theorems: an     *)
(* INSTANCE for each loop gives theorems about that loop.                  *)
(***************************************************************************)
EXTENDS Naturals, Sequences, FiniteSets, FunctionTheorems, FiniteSetTheorems,
        WellFoundedInduction, TLAPS

CONSTANT Op(_, _)

(* The state after each entry, and at the end.                              *)
Values(base, s) ==
  LET v[n \in 0..Len(s)] == IF n = 0 THEN base ELSE Op(v[n - 1], s[n]) IN v

Fold(base, s) == Values(base, s)[Len(s)]

\* The elements of a finite set in some order, and a loop over them.
Listed(S) == CHOOSE q \in [1..Cardinality(S) -> S] : \A x \in S : \E i \in DOMAIN q : q[i] = x
FoldAll(base, S) == Fold(base, Listed(S))

----------------------------------------------------------------------------
(* Induction over the numbers up to N, in a form without predicates.       *)
LEMMA UpTo ==
  ASSUME NEW N \in Nat, NEW S, 0 \in S, \A n \in 0..N : n # N /\ n \in S => n + 1 \in S
  PROVE  \A n \in 0..N : n \in S
<1> SUFFICES ASSUME NEW m \in 0..N, m \notin S PROVE FALSE
  OBVIOUS
<1> DEFINE Out == {n \in 0..N : n \notin S}
<1>1. PICK x \in Out : \A y \in Out : ~ (<<y, x>> \in OpToRel(<, Nat))
  <2>1. Out \subseteq Nat /\ Out # {}
    OBVIOUS
  <2> HIDE DEF Out
  <2> QED
    BY <2>1, NatLessThanWellFounded, WFMin
<1>2. ASSUME NEW y \in Out, y < x PROVE FALSE
  <2>1. x \in Nat /\ y \in Nat
    OBVIOUS
  <2> HIDE DEF Out
  <2>2. <<y, x>> \in OpToRel(<, Nat)
    BY <2>1, <1>2 DEF OpToRel
  <2> QED
    BY <1>1, <1>2, <2>2
<1>3. x # 0 /\ x - 1 \in 0..N /\ x - 1 # N
  OBVIOUS
<1>4. x - 1 \in S
  BY <1>2, <1>3
<1> QED
  BY <1>3, <1>4

(* There is one function that satisfies the recursion.                     *)
LEMMA ValuesExist ==
  ASSUME NEW base, NEW s, Len(s) \in Nat
  PROVE  \E v : v = [n \in 0..Len(s) |-> IF n = 0 THEN base ELSE Op(v[n - 1], s[n])]
<1> DEFINE Good(N, v) == v = [n \in 0..N |-> IF n = 0 THEN base ELSE Op(v[n - 1], s[n])]
           S == {N \in 0..Len(s) : \E v : Good(N, v)}
<1>1. 0 \in S
  <2> DEFINE v == [n \in 0..0 |-> base]
  <2>1. Good(0, v)
    OBVIOUS
  <2> HIDE DEF Good, v
  <2> QED
    BY <2>1
<1>2. ASSUME NEW N \in 0..Len(s), N # Len(s), N \in S
      PROVE  N + 1 \in S
  <2>1. PICK v : Good(N, v)
    BY <1>2
  <2> DEFINE w == [n \in 0..(N + 1) |-> IF n = N + 1 THEN Op(v[N], s[N + 1]) ELSE v[n]]
  <2>2. \A n \in 0..N : v[n] = IF n = 0 THEN base ELSE Op(v[n - 1], s[n])
    BY <2>1
  <2>3. \A n \in 0..(N + 1) : w[n] = IF n = 0 THEN base ELSE Op(w[n - 1], s[n])
    <3> TAKE n \in 0..(N + 1)
    <3>1. CASE n = N + 1
      BY <3>1
    <3>2. CASE n \in 0..N
      <4>1. w[n] = v[n] /\ (n # 0 => w[n - 1] = v[n - 1])
        BY <3>2
      <4> QED
        BY <2>2, <3>2, <4>1
    <3> QED
      BY <3>1, <3>2
  <2>4. Good(N + 1, w)
    <3> DEFINE r == [n \in 0..(N + 1) |-> IF n = 0 THEN base ELSE Op(w[n - 1], s[n])]
    <3>1. \A n \in 0..(N + 1) : w[n] = r[n]
      BY <2>3
    <3>2. w \in [0..(N+1) -> {w[n] : n \in 0..(N+1)}] /\ r = [n \in 0..(N+1) |-> r[n]] /\ w = [n \in 0..(N+1) |-> w[n]]
      OBVIOUS
    <3> HIDE DEF w, r
    <3>3. w = r
      BY <3>1, <3>2
    <3> QED
      BY <3>3 DEF r
  <2>5. N + 1 \in 0..Len(s)
    BY <1>2
  <2> QED
    BY <2>4, <2>5
<1> HIDE DEF S, Good
<1>3. Len(s) \in S
  <2>1. \A n \in 0..Len(s) : n # Len(s) /\ n \in S => n + 1 \in S
    BY <1>2
  <2>2. Len(s) \in 0..Len(s)
    OBVIOUS
  <2>3. \A N, T : /\ N \in Nat /\ 0 \in T
                  /\ \A n \in 0..N : n # N /\ n \in T => n + 1 \in T
                  => \A n \in 0..N : n \in T
    BY UpTo
  <2> QED
    BY <1>1, <2>1, <2>2, <2>3
<1> QED
  BY <1>3 DEF S, Good

(* The state before the loop, and after each entry.                        *)
THEOREM ValuesStep ==
  ASSUME NEW base, NEW s, Len(s) \in Nat
  PROVE  /\ Values(base, s)[0] = base
         /\ \A n \in 1..Len(s) : Values(base, s)[n] = Op(Values(base, s)[n - 1], s[n])
<1> DEFINE v == Values(base, s)
<1>1. v = [n \in 0..Len(s) |-> IF n = 0 THEN base ELSE Op(v[n - 1], s[n])]
  BY ValuesExist DEF Values
<1> HIDE DEF v
<1>2. v[0] = base
  BY <1>1
<1>3. \A n \in 1..Len(s) : v[n] = Op(v[n - 1], s[n])
  <2> TAKE n \in 1..Len(s)
  <2>1. n \in 0..Len(s) /\ n # 0
    OBVIOUS
  <2> QED
    BY <1>1, <2>1
<1> QED
  BY <1>2, <1>3 DEF v

(* The state after one more entry.                                         *)
THEOREM FoldAppend ==
  ASSUME NEW base, NEW T, NEW s \in Seq(T), NEW x \in T
  PROVE  Fold(base, Append(s, x)) = Op(Fold(base, s), x)
<1> DEFINE t == Append(s, x)
           v == Values(base, s)
           w == Values(base, t)
           N == Len(s)
           S == {n \in 0..N : v[n] = w[n]}
<1>1. /\ N \in Nat /\ Len(t) = N + 1 /\ t[N + 1] = x
      /\ \A n \in 1..N : t[n] = s[n]
  OBVIOUS
<1>2. v[0] = base /\ \A n \in 1..N : v[n] = Op(v[n - 1], s[n])
  BY <1>1, ValuesStep
<1>3. w[0] = base /\ \A n \in 1..(N + 1) : w[n] = Op(w[n - 1], t[n])
  <2>1. Len(t) \in Nat
    BY <1>1
  <2> HIDE DEF t
  <2>2. w[0] = base /\ \A n \in 1..Len(t) : w[n] = Op(w[n - 1], t[n])
    BY <2>1, ValuesStep
  <2> QED
    BY <1>1, <2>2
<1> HIDE DEF t, v, w
<1>4. \A n \in 0..N : n \in S
  <2>1. 0 \in S
    BY <1>1, <1>2, <1>3
  <2>2. ASSUME NEW n \in 0..N, n # N, n \in S
        PROVE  n + 1 \in S
    <3>1. n + 1 \in 1..N /\ n + 1 \in 1..(N + 1) /\ (n + 1) - 1 = n
      BY <1>1, <2>2
    <3>2. v[n + 1] = Op(v[n], s[n + 1]) /\ w[n + 1] = Op(w[n], t[n + 1]) /\ t[n + 1] = s[n + 1]
      BY <1>1, <1>2, <1>3, <3>1
    <3> QED
      BY <2>2, <3>1, <3>2
  <2> HIDE DEF S
  <2>3. \A n \in 0..N : n # N /\ n \in S => n + 1 \in S
    BY <2>2
  <2> QED
    BY <1>1, <2>1, <2>3, UpTo
<1>5. v[N] = w[N]
  BY <1>1, <1>4
<1>6. w[N + 1] = Op(w[N], x)
  BY <1>1, <1>3
<1>7. Fold(base, s) = v[N]
  BY DEF Fold, v
<1>8. Fold(base, t) = w[N + 1]
  BY <1>1 DEF Fold, w
<1> QED
  BY <1>5, <1>6, <1>7, <1>8 DEF t

(* A loop over no entry changes nothing.                                    *)
THEOREM FoldEmpty ==
  ASSUME NEW base
  PROVE  Fold(base, <<>>) = base
<1>1. Len(<<>>) = 0
  OBVIOUS
<1>2. Values(base, <<>>)[0] = base
  BY <1>1, ValuesStep
<1> QED
  BY <1>1, <1>2 DEF Fold

(* What holds of the state together with the number of entries done, from  *)
(* the start and from entry to entry, holds in the end of all of them.     *)
THEOREM FoldProgress ==
  ASSUME NEW base, NEW T, NEW s \in Seq(T), NEW Inv, <<0, base>> \in Inv,
         \A a : \A n \in 1..Len(s) : <<n - 1, a>> \in Inv => <<n, Op(a, s[n])>> \in Inv
  PROVE  <<Len(s), Fold(base, s)>> \in Inv
<1> DEFINE v == Values(base, s)
           N == Len(s)
           S == {n \in 0..N : <<n, v[n]>> \in Inv}
<1>1. N \in Nat
  OBVIOUS
<1>2. v[0] = base /\ \A n \in 1..N : v[n] = Op(v[n - 1], s[n])
  BY <1>1, ValuesStep
<1> HIDE DEF v
<1>3. 0 \in S
  BY <1>1, <1>2
<1>4. ASSUME NEW n \in 0..N, n # N, n \in S
      PROVE  n + 1 \in S
  <2>1. n + 1 \in 1..N /\ (n + 1) - 1 = n
    BY <1>1, <1>4
  <2> QED
    BY <1>1, <1>2, <1>4, <2>1
<1> HIDE DEF S
<1>5. N \in S
  <2>1. \A n \in 0..N : n # N /\ n \in S => n + 1 \in S
    BY <1>4
  <2>2. \A n \in 0..N : n \in S
    BY <1>1, <1>3, <2>1, UpTo
  <2> QED
    BY <1>1, <2>2
<1> QED
  BY <1>5 DEF S, Fold, v

(* What the loop starts with and every entry keeps holds in the end.       *)
THEOREM FoldInvariant ==
  ASSUME NEW base, NEW T, NEW s \in Seq(T), NEW Inv, base \in Inv,
         \A a \in Inv, x \in T : Op(a, x) \in Inv
  PROVE  Fold(base, s) \in Inv
<1> DEFINE Always == Nat \X Inv
<1>1. Len(s) \in Nat /\ \A n \in 1..Len(s) : s[n] \in T
  OBVIOUS
<1>2. <<0, base>> \in Always
  OBVIOUS
<1>3. \A a : \A n \in 1..Len(s) : <<n - 1, a>> \in Always => <<n, Op(a, s[n])>> \in Always
  BY <1>1
<1>4. <<Len(s), Fold(base, s)>> \in Always
  <2> HIDE DEF Always
  <2> QED
    BY <1>2, <1>3, FoldProgress
<1> QED
  BY <1>4

(* The elements of a finite set can be listed, each of them once.          *)
LEMMA ListedIsSeq ==
  ASSUME NEW S, IsFiniteSet(S)
  PROVE  /\ Listed(S) \in Seq(S) /\ Len(Listed(S)) = Cardinality(S)
         /\ \A x \in S : \E i \in 1..Len(Listed(S)) : Listed(S)[i] = x
         /\ \A i, j \in 1..Len(Listed(S)) : Listed(S)[i] = Listed(S)[j] => i = j
<1> DEFINE c == Cardinality(S)
<1>1. c \in Nat /\ ExistsBijection(1..c, S)
  BY FS_CardinalityType
<1>2. \E q \in [1..c -> S] : \A x \in S : \E i \in DOMAIN q : q[i] = x
  BY <1>1 DEF ExistsBijection, Bijection, Surjection, Injection, IsInjective
<1>3. /\ Listed(S) \in [1..c -> S]
      /\ \A x \in S : \E i \in DOMAIN Listed(S) : Listed(S)[i] = x
  BY <1>2 DEF Listed
<1>4. Listed(S) \in Seq(S) /\ Len(Listed(S)) = c
  BY <1>1, <1>3
<1>5. Listed(S) \in Surjection(1..c, S)
  BY <1>3 DEF Surjection
<1>6. IsFiniteSet(1..c) /\ Cardinality(1..c) = c
  BY <1>1, FS_Interval
<1>7. Listed(S) \in Injection(1..c, S)
  BY <1>5, <1>6, FS_SurjSameCardinalityImpliesInj
<1>8. \A i, j \in 1..c : Listed(S)[i] = Listed(S)[j] => i = j
  BY <1>3, <1>7 DEF Injection, IsInjective
<1> QED
  BY <1>3, <1>4, <1>8

(* A loop over a set keeps what each of its passes keeps.                   *)
THEOREM FoldAllInvariant ==
  ASSUME NEW base, NEW S, IsFiniteSet(S), NEW Inv, base \in Inv,
         \A a \in Inv, x \in S : Op(a, x) \in Inv
  PROVE  FoldAll(base, S) \in Inv
<1>1. Listed(S) \in Seq(S)
  BY ListedIsSeq
<1> QED
  BY <1>1, FoldInvariant DEF FoldAll

(* What holds of the state together with the set of elements done holds in *)
(* the end of the whole set: no element comes twice.                       *)
THEOREM FoldAllProgress ==
  ASSUME NEW base, NEW S, IsFiniteSet(S), NEW Inv, <<{}, base>> \in Inv,
         \A a : \A D \in SUBSET S : \A x \in S \ D :
           <<D, a>> \in Inv => <<D \cup {x}, Op(a, x)>> \in Inv
  PROVE  <<S, FoldAll(base, S)>> \in Inv
<1> DEFINE s == Listed(S)
           N == Len(s)
           Done(n) == {s[i] : i \in 1..n}
           v == Values(base, s)
           R == {n \in 0..N : <<Done(n), v[n]>> \in Inv}
<1>1. /\ N \in Nat /\ \A i \in 1..N : s[i] \in S
      /\ \A x \in S : \E i \in 1..N : s[i] = x
      /\ \A i, j \in 1..N : s[i] = s[j] => i = j
  BY ListedIsSeq
<1> HIDE DEF s
<1>2. v[0] = base /\ \A n \in 1..N : v[n] = Op(v[n - 1], s[n])
  BY <1>1, ValuesStep
<1> HIDE DEF v
<1>3. 0 \in R
  <2>1. Done(0) = {} /\ 0 \in 0..N
    BY <1>1
  <2> HIDE DEF Done
  <2> QED
    BY <1>2, <2>1
<1>4. ASSUME NEW n \in 0..N, n # N, n \in R
      PROVE  n + 1 \in R
  <2>1. n + 1 \in 1..N /\ (n + 1) - 1 = n
    BY <1>1, <1>4
  <2>2. Done(n) \in SUBSET S /\ s[n + 1] \in S \ Done(n)
    BY <1>1, <2>1
  <2>3. Done(n + 1) = Done(n) \cup {s[n + 1]}
    BY <1>1, <2>1
  <2>4. v[n + 1] = Op(v[n], s[n + 1])
    BY <1>2, <2>1
  <2> HIDE DEF Done
  <2> QED
    BY <1>1, <1>4, <2>1, <2>2, <2>3, <2>4
<1>5. N \in R
  <2> HIDE DEF R
  <2>1. \A n \in 0..N : n # N /\ n \in R => n + 1 \in R
    BY <1>4
  <2>2. \A n \in 0..N : n \in R
    BY <1>1, <1>3, <2>1, UpTo
  <2> QED
    BY <1>1, <2>2
<1>6. Done(N) = S
  BY <1>1
<1> QED
  BY <1>5, <1>6 DEF v, s, Fold, FoldAll
=============================================================================
