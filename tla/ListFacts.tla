------------------------------- MODULE ListFacts ------------------------------
(***************************************************************************)
(* Facts about numbers and lists that the proofs of several modules need.  *)
(* The induction theorems of the library take an operator, which the       *)
(* provers cannot instantiate; UpToN is induction over a set, and from it  *)
(* follows that the lists defined by a recursive function exist.           *)
(***************************************************************************)
EXTENDS Naturals, Sequences, WellFoundedInduction, TLAPS

----------------------------------------------------------------------------
(* Induction up to a number *)

LEMMA LessIsWellFounded ==
    IsWellFoundedOn({p \in Nat \X Nat : p[1] < p[2]}, Nat)
BY NatLessThanWellFounded, Zenon DEF OpToRel

\* What holds of 0, and of a number when it holds of the one before, holds up to N.
LEMMA UpToN ==
    ASSUME NEW N \in Nat, NEW P \in SUBSET (0..N), 0 \in P,
           \A n \in 1..N : n - 1 \in P => n \in P
    PROVE  P = 0..N
<1> DEFINE less == {p \in Nat \X Nat : p[1] < p[2]}
           others == (0..N) \ P
<1>1. SUFFICES ASSUME others # {} PROVE FALSE
  BY DEF others
<1>2. others \in SUBSET Nat
  OBVIOUS
<1>3. IsWellFoundedOn(less, Nat)
  BY LessIsWellFounded
<1> HIDE DEF less
<1>4. PICK n \in others : \A m \in others : <<m, n>> \notin less
  BY <1>1, <1>2, <1>3, WFMin
<1>5. n \in 1..N
  BY <1>4
<1>6. n - 1 \in 0..N /\ n - 1 \in Nat /\ n \in Nat /\ n - 1 < n
  BY <1>5
<1>7. n - 1 \notin others
  BY <1>4, <1>6 DEF less
<1>8. QED
  BY <1>4, <1>5, <1>6, <1>7

\* A set of numbers has a least one.
LEMMA LeastNumber ==
    ASSUME NEW S \in SUBSET Nat, S # {}
    PROVE  \E n \in S : \A m \in S : n <= m
<1> DEFINE R == {p \in Nat \X Nat : p[1] < p[2]}
<1>1. IsWellFoundedOn(R, Nat)
  BY LessIsWellFounded
<1> HIDE DEF R
<1>2. PICK n \in S : \A m \in S : <<m, n>> \notin R
  BY <1>1, WFMin
<1>3. \A m \in S : ~(m < n)
  BY <1>2 DEF R
<1>4. QED
  BY <1>3

----------------------------------------------------------------------------
(* Lists *)

\* What stands where in two sequences put together.
LEMMA OneAfterTheOther ==
    ASSUME NEW T, NEW s \in Seq(T), NEW t \in Seq(T)
    PROVE  /\ s \o t \in Seq(T) /\ Len(s \o t) = Len(s) + Len(t)
           /\ Len(s) \in Nat /\ Len(t) \in Nat
           /\ \A i \in 1..Len(s) : (s \o t)[i] = s[i]
           /\ \A i \in 1..Len(t) : (s \o t)[Len(s) + i] = t[i]
OBVIOUS

\* There is a list in which each of N entries comes from the one before.
LEMMA BuiltEntryByEntry ==
    ASSUME NEW T, NEW base \in T, NEW N \in Nat, NEW step \in [1..N -> [T -> T]]
    PROVE  \E f \in [0..N -> T] :
             f[0] = base /\ \A n \in 1..N : f[n] = step[n][f[n - 1]]
<1> DEFINE P == {k \in 0..N : \E f \in [0..k -> T] :
                    f[0] = base /\ \A n \in 1..k : f[n] = step[n][f[n - 1]]}
<1>1. 0 \in P
  <2>1. PICK f : f = [n \in 0..0 |-> base]
    OBVIOUS
  <2>2. f \in [0..0 -> T] /\ f[0] = base /\ \A n \in 1..0 : f[n] = step[n][f[n - 1]]
    BY <2>1
  <2>3. QED
    BY <2>2
<1>2. ASSUME NEW k \in 1..N, k - 1 \in P PROVE k \in P
  <2>1. PICK f \in [0..(k - 1) -> T] :
          f[0] = base /\ \A n \in 1..(k - 1) : f[n] = step[n][f[n - 1]]
    BY <1>2
  <2>2. PICK g : g = [n \in 0..k |-> IF n = k THEN step[k][f[k - 1]] ELSE f[n]]
    OBVIOUS
  <2>3. f[k - 1] \in T /\ step[k][f[k - 1]] \in T
    OBVIOUS
  <2>4. g \in [0..k -> T] /\ g[0] = base
    BY <2>1, <2>2, <2>3
  <2>5. ASSUME NEW n \in 1..k PROVE g[n] = step[n][g[n - 1]]
    <3>1. n - 1 \in 0..(k - 1) /\ g[n - 1] = f[n - 1]
      BY <2>2
    <3>2. CASE n = k
      <4>1. g[k] = step[k][f[k - 1]]
        BY <2>2
      <4>2. QED
        BY <3>1, <3>2, <4>1
    <3>3. CASE n # k
      <4>1. n \in 1..(k - 1) /\ g[n] = f[n]
        BY <2>2, <3>3
      <4>2. QED
        BY <2>1, <3>1, <4>1
    <3>4. QED
      BY <3>2, <3>3
  <2>6. QED
    BY SMTT(30), <2>4, <2>5
<1>3. P \in SUBSET (0..N)
  OBVIOUS
<1> HIDE DEF P
<1>4. P = 0..N
  BY <1>1, <1>2, <1>3, UpToN
<1>5. QED
  BY SMTT(30), <1>4 DEF P

===============================================================================
