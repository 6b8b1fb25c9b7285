------------------------- MODULE TextPreparation_proofs -------------------------
(***************************************************************************)
(* What text preparation computes, for every document: the chunks speak    *)
(* every printed word once and in order, have the pages of their words,    *)
(* and are accepted by validate_chunk.                                     *)
(*                                                                         *)
(* A fold is taken step by step: the outcome of a fold is the last entry   *)
(* of the table of its steps, which exists and is unique by induction over *)
(* numbers, and induction is the least counterexample, of a set.  An       *)
(* operator of the model that folds is then known by what it is of <<>>    *)
(* and of one more element.                                                *)
(***************************************************************************)
EXTENDS TextPreparation, SequenceTheorems, FiniteSetTheorems, WellFoundedInduction, TLAPS

-----------------------------------------------------------------------------
(* Induction over numbers and sequences, in terms of sets.                 *)

(* A set of numbers that is not empty has a least one.                     *)
LEMMA Least ==
    ASSUME NEW T, T \subseteq Nat, T # {}
    PROVE  \E x \in T : \A y \in T : x <= y
<1> DEFINE R == OpToRel(<, Nat)
<1>1. PICK x \in T : \A y \in T : ~ (<<y, x>> \in R)
  BY WFMin, NatLessThanWellFounded
<1>2. \A y \in T : y < x => <<y, x>> \in R
  BY DEF OpToRel
<1> HIDE DEF R
<1>3. x \in Nat /\ \A y \in T : y \in Nat
  OBVIOUS
<1>4. \A y \in T : ~ (y < x)
  BY <1>1, <1>2
<1>5. \A y \in T : x <= y
  BY <1>3, <1>4
<1> QED BY <1>5

(* What holds of 0, and of n + 1 if of n, holds of every number.           *)
LEMMA Induction ==
    ASSUME NEW S, 0 \in S, \A n \in Nat : n \in S => n + 1 \in S
    PROVE  \A n \in Nat : n \in S
<1> DEFINE T == {n \in Nat : n \notin S}
<1> SUFFICES ASSUME T # {} PROVE FALSE
  OBVIOUS
<1>1. PICK x \in T : \A y \in T : x <= y
  <2>1. T \subseteq Nat
    OBVIOUS
  <2> HIDE DEF T
  <2> QED BY <2>1, Least
<1>4. x \in Nat /\ x # 0
  OBVIOUS
<1>5. x - 1 \in Nat /\ x - 1 \in S
  BY <1>1, <1>4
<1> QED BY <1>4, <1>5

(* The same up to a bound. *)
LEMMA InductionTo ==
    ASSUME NEW n \in Nat, NEW S, 0 \in S, \A k \in 1..n : k - 1 \in S => k \in S
    PROVE  \A k \in 0..n : k \in S
<1> DEFINE T == {k \in Nat : k <= n => k \in S}
<1>1. 0 \in T
  OBVIOUS
<1>2. ASSUME NEW k \in Nat, k \in T PROVE k + 1 \in T
  <2> SUFFICES ASSUME k + 1 <= n PROVE k + 1 \in S
    BY <1>2
  <2>1. k \in S /\ k + 1 \in 1..n /\ (k + 1) - 1 = k
    BY <1>2
  <2> QED BY <2>1
<1> HIDE DEF T
<1>3. \A k \in Nat : k \in T
  BY <1>1, <1>2, Induction
<1> QED BY <1>3 DEF T

(* What holds of <<>>, and of Append(s, e) if of s, holds of every         *)
(* sequence.                                                               *)
LEMMA SequenceInduction ==
    ASSUME NEW E, NEW P, <<>> \in P,
           \A s \in Seq(E), e \in E : s \in P => Append(s, e) \in P
    PROVE  \A s \in Seq(E) : s \in P
<1> DEFINE T == {n \in Nat : \A s \in Seq(E) : Len(s) = n => s \in P}
<1>1. 0 \in T
  BY EmptySeq
<1>2. ASSUME NEW n \in Nat, n \in T PROVE n + 1 \in T
  <2> SUFFICES ASSUME NEW s \in Seq(E), Len(s) = n + 1 PROVE s \in P
    OBVIOUS
  <2>1. PICK front \in Seq(E), e \in E : s = Append(front, e)
    <3>1. s # <<>>
      BY EmptySeq
    <3> QED BY <3>1, SequenceEmptyOrAppend
  <2>2. Len(front) = n
    BY <2>1, AppendProperties, LenProperties
  <2> QED BY <1>2, <2>1, <2>2
<1> HIDE DEF T
<1>3. \A n \in Nat : n \in T
  BY <1>1, <1>2, Induction
<1> QED BY <1>3, LenProperties DEF T

(* The greatest number up to n, and those before it.                       *)
LEMMA MaxUpTo ==
    ASSUME NEW n \in Nat, n > 0
    PROVE  Max(1..n) = n /\ (1..n) \ {n} = 1..(n - 1)
<1>1. n \in 1..n /\ \A y \in 1..n : n >= y
  OBVIOUS
<1>2. \A x \in 1..n : (\A y \in 1..n : x >= y) => x = n
  OBVIOUS
<1>3. Max(1..n) = n
  BY <1>1, <1>2 DEF Max
<1> QED BY <1>3

(* The greatest of some numbers up to n.                                   *)
LEMMA MaxOf ==
    ASSUME NEW n \in Nat, NEW s \in SUBSET (1..n), s # {}
    PROVE  Max(s) \in s /\ \A y \in s : Max(s) >= y
<1> DEFINE T == {k \in Nat : \A y \in s : k >= y}
<1>1. n \in T
  OBVIOUS
<1>2. PICK k \in T : \A y \in T : k <= y
  <2>1. T \subseteq Nat /\ T # {}
    BY <1>1
  <2> HIDE DEF T
  <2> QED BY <2>1, Least
<1>3. k \in s
  <2> SUFFICES ASSUME k \notin s PROVE FALSE
    OBVIOUS
  <2>1. \A y \in s : y \in Nat /\ y >= 1 /\ k >= y /\ k # y
    BY <1>2
  <2>2. k \in Nat /\ k >= 1 /\ \A y \in s : k - 1 >= y
    <3>1. k \in Nat
      BY <1>2
    <3> HIDE DEF T
    <3>2. PICK y \in s : TRUE
      OBVIOUS
    <3>3. k >= 1
      BY <2>1, <3>1, <3>2
    <3>4. ASSUME NEW z \in s PROVE k - 1 >= z
      BY <2>1, <3>1
    <3> QED BY <3>1, <3>3, <3>4
  <2>3. k - 1 \in T
    BY <2>2
  <2> QED BY <1>2, <2>2, <2>3
<1>4. \A y \in s : k >= y
  BY <1>2
<1> QED BY <1>3, <1>4 DEF Max

-----------------------------------------------------------------------------
(* FoldLeft.                                                               *)

(* A table that is filled in from a base by the steps of a function.       *)
IsSteps(f, n, b, h) == f[0] = b /\ \A k \in 1..n : f[k] = h[<<f[k - 1], k>>]

(* The outcomes of the first steps of a fold can be put in a table.        *)
LEMMA TableExists ==
    ASSUME NEW n \in Nat, NEW S, NEW b \in S, NEW h \in [S \X (1..n) -> S]
    PROVE  \E f \in [0..n -> S] : IsSteps(f, n, b, h)
<1> DEFINE Good(m) == \E f \in [0..m -> S] :
                        f[0] = b /\ \A k \in 1..m : f[k] = h[<<f[k - 1], k>>]
           T == {m \in 0..n : Good(m)}
<1>1. 0 \in T
  <2> DEFINE f == [k \in 0..0 |-> b]
  <2>1. f \in [0..0 -> S] /\ f[0] = b /\ 1..0 = {}
    OBVIOUS
  <2> HIDE DEF f
  <2>2. Good(0)
    BY <2>1
  <2> QED BY <2>2
<1>2. ASSUME NEW m \in 1..n, m - 1 \in T PROVE m \in T
  <2>1. PICK f \in [0..m - 1 -> S] : f[0] = b /\ \A k \in 1..m - 1 : f[k] = h[<<f[k - 1], k>>]
    BY <1>2
  <2> DEFINE g == [k \in 0..m |-> IF k = m THEN h[<<f[m - 1], m>>] ELSE f[k]]
  <2>2. f[m - 1] \in S /\ h[<<f[m - 1], m>>] \in S
    OBVIOUS
  <2>3. g \in [0..m -> S]
    BY <2>2
  <2>4. g[0] = b /\ \A k \in 1..m : g[k] = h[<<g[k - 1], k>>]
    <3>1. \A k \in 0..m - 1 : g[k] = f[k]
      OBVIOUS
    <3>2. g[m] = h[<<g[m - 1], m>>]
      <4>1. m \in 0..m /\ m - 1 \in 0..m - 1
        OBVIOUS
      <4>2. g[m] = h[<<f[m - 1], m>>]
        BY <4>1
      <4> HIDE DEF g
      <4> QED BY <4>1, <4>2, <3>1
    <3> HIDE DEF g
    <3>3. ASSUME NEW k \in 1..m PROVE g[k] = h[<<g[k - 1], k>>]
      <4>1. CASE k = m BY <4>1, <3>2
      <4>2. CASE k # m
        <5>1. k \in 1..m - 1 /\ k - 1 \in 0..m - 1 /\ k \in 0..m - 1
          BY <4>2
        <5> QED BY <5>1, <3>1, <2>1
      <4> QED BY <4>1, <4>2
    <3> QED BY <2>1, <3>1, <3>3
  <2> HIDE DEF g
  <2>5. Good(m)
    BY <2>3, <2>4
  <2> QED BY <2>5
<1> HIDE DEF T
<1>3. \A k \in 0..n : k \in T
  BY <1>1, <1>2, InductionTo
<1>4. Good(n)
  BY <1>3 DEF T
<1> QED BY <1>4 DEF IsSteps

(* The table of a fold over all subsets of positions, of which each adds   *)
(* its last element to the others.                                         *)
IsTable(it, n, b, h) ==
    it = [s \in SUBSET (1..n) |->
            IF s = {} THEN b ELSE h[<<it[s \ {Max(s)}], Max(s)>>]]

(* And so can those of the steps of every set of places.                   *)
LEMMA FoldTableExists ==
    ASSUME NEW n \in Nat, NEW S, NEW b \in S, NEW h \in [S \X (1..n) -> S]
    PROVE  \E it \in [SUBSET (1..n) -> S] : IsTable(it, n, b, h)
<1> DEFINE D == SUBSET (1..n)
           G == [D -> S]
           B == [s \in D |-> b]
           H == [p \in G \X (1..n) |->
                    [s \in D |-> IF p[2] \in s THEN h[<<p[1][s], p[2]>>] ELSE p[1][s]]]
<1>1. B \in G
  OBVIOUS
<1>2. H \in [G \X (1..n) -> G]
  OBVIOUS
<1>3. PICK F \in [0..n -> G] : F[0] = B /\ \A k \in 1..n : F[k] = H[<<F[k - 1], k>>]
  <2> HIDE DEF D, G, B, H
  <2>1. \E f \in [0..n -> G] : IsSteps(f, n, B, H)
    BY <1>1, <1>2, TableExists
  <2> QED BY <2>1 DEF IsSteps
<1>4. \A k \in 0..n : F[k] \in G
  <2> HIDE DEF G
  <2> QED OBVIOUS
<1>5. ASSUME NEW k \in 1..n, NEW s \in D
      PROVE  F[k][s] = IF k \in s THEN h[<<F[k - 1][s], k>>] ELSE F[k - 1][s]
  <2>1. k - 1 \in 0..n
    OBVIOUS
  <2>2. F[k - 1] \in G
    BY <2>1, <1>4
  <2> DEFINE p == <<F[k - 1], k>>
  <2>3. p \in G \X (1..n) /\ p[1] = F[k - 1] /\ p[2] = k
    <3> HIDE DEF G
    <3> QED BY <2>2
  <2> HIDE DEF p
  <2>4. H[p] = [t \in D |-> IF k \in t THEN h[<<F[k - 1][t], k>>] ELSE F[k - 1][t]]
    BY <2>3
  <2>5. F[k] = H[p]
    <3> HIDE DEF H
    <3> QED BY <1>3 DEF p
  <2> HIDE DEF H, G
  <2> QED BY <2>4, <2>5
<1>6. \A s \in D : F[0][s] = b
  <2> HIDE DEF G, H
  <2> QED BY <1>3
<1>7. F[n] \in [D -> S]
  <2>1. n \in 0..n
    OBVIOUS
  <2>2. F[n] \in G
    <3> HIDE DEF G
    <3> QED BY <2>1
  <2> QED BY <2>2
<1>s. \A k \in 1..n : k - 1 \in 0..n /\ k \in 0..n
  OBVIOUS
<1> HIDE DEF D, G, B, H
<1>8. ASSUME NEW s \in D, s # {}
      PROVE  F[n][s] = h[<<F[n][s \ {Max(s)}], Max(s)>>]
  <2> DEFINE m == Max(s)
             r == s \ {m}
  <2>1. m \in s /\ (\A y \in s : m >= y) /\ m \in 1..n /\ r \in D
    BY <1>8, MaxOf DEF D
  <2>0. m \in s /\ m \notin r /\ (\A y \in s : y # m => y \in r) /\ r \subseteq s
        /\ \A y \in s : y \in 1..n
    BY <2>1 DEF D
  <2> HIDE DEF m, r
  <2>2. \A k \in 0..m - 1 : F[k][s] = F[k][r]
    <3> DEFINE P == {k \in 0..m - 1 : F[k][s] = F[k][r]}
    <3>1. 0 \in P
      BY <1>6, <2>1
    <3>2. ASSUME NEW k \in 1..m - 1, k - 1 \in P PROVE k \in P
      <4>0. k \in 1..n /\ k # m /\ k \in 0..m - 1
        BY <2>1
      <4>1. k \in s <=> k \in r
        BY <2>0, <4>0
      <4>2. F[k - 1][s] = F[k - 1][r]
        BY <3>2
      <4>4. F[k][s] = IF k \in s THEN h[<<F[k - 1][s], k>>] ELSE F[k - 1][s]
        BY <4>0, <1>5
      <4>5. F[k][r] = IF k \in r THEN h[<<F[k - 1][r], k>>] ELSE F[k - 1][r]
        BY <4>0, <1>5, <2>1
      <4>3. F[k][s] = F[k][r]
        BY <4>1, <4>2, <4>4, <4>5
      <4> QED BY <4>0, <4>3
    <3> HIDE DEF P
    <3>3. m - 1 \in Nat
      BY <2>1
    <3>4. \A k \in 0..m - 1 : k \in P
      BY <3>1, <3>2, <3>3, InductionTo
    <3> QED BY <3>4 DEF P
  <2>3. ASSUME NEW t \in D, \A y \in t : m >= y
        PROVE  F[n][t] = F[m][t]
    <3> DEFINE P == {k \in 0..n - m : F[m + k][t] = F[m][t]}
    <3>1. n - m \in Nat /\ m \in Nat /\ m + 0 = m /\ m + (n - m) = n
          /\ 0 \in 0..n - m /\ n - m \in 0..n - m
      BY <2>1
    <3>2. 0 \in P
      BY <3>1
    <3>3. ASSUME NEW k \in 1..n - m, k - 1 \in P PROVE k \in P
      <4>1. m + k \in 1..n /\ (m + k) - 1 = m + (k - 1) /\ k \in 0..n - m /\ ~ (m >= m + k)
        BY <3>1, <2>1
      <4>4. m + k \notin t
        BY <2>3, <4>1
      <4>5. F[m + k][t] = IF m + k \in t THEN h[<<F[(m + k) - 1][t], m + k>>]
                          ELSE F[(m + k) - 1][t]
        BY <4>1, <1>5
      <4>2. F[m + k][t] = F[m + (k - 1)][t]
        BY <4>1, <4>4, <4>5
      <4>3. F[m + k][t] = F[m][t]
        BY <4>2, <3>3
      <4> QED BY <4>1, <4>3
    <3> HIDE DEF P
    <3>4. \A k \in 0..n - m : k \in P
      BY <3>1, <3>2, <3>3, InductionTo
    <3>5. F[m + (n - m)][t] = F[m][t]
      BY <3>1, <3>4 DEF P
    <3> QED BY <3>1, <3>5
  <2>4. F[n][s] = F[m][s] /\ F[n][r] = F[m][r]
    <3>1. \A y \in r : m >= y
      BY <2>0, <2>1
    <3>2. F[n][s] = F[m][s]
      BY <2>1, <2>3
    <3>3. F[n][r] = F[m][r]
      BY <2>1, <2>3, <3>1
    <3> QED BY <3>2, <3>3
  <2>5. F[m][r] = F[m - 1][r] /\ F[m][s] = h[<<F[m - 1][s], m>>]
    <3>1. m \in 1..n /\ r \in D /\ s \in D /\ m \in s /\ m \notin r
      BY <2>0, <2>1
    <3> HIDE DEF D
    <3> QED BY <3>1, <1>5
  <2>6. F[m - 1][s] = F[m - 1][r]
    <3>1. m - 1 \in 0..m - 1
      BY <2>1
    <3> QED BY <3>1, <2>2
  <2>7. F[n][s] = h[<<F[n][r], m>>]
    BY <2>4, <2>5, <2>6
  <2> QED BY <2>7 DEF m, r
<1>9. \A s \in D : F[n][s] = IF s = {} THEN b ELSE h[<<F[n][s \ {Max(s)}], Max(s)>>]
  <2>1. {} \in D /\ F[n][{}] = b
    <3> DEFINE P == {k \in 0..n : F[k][{}] = b}
    <3>1. {} \in D
      BY DEF D
    <3>2. 0 \in P
      BY <1>6, <3>1
    <3>3. ASSUME NEW k \in 1..n, k - 1 \in P PROVE k \in P
      <4>1. F[k][{}] = F[k - 1][{}]
        BY <3>1, <1>5
      <4> QED BY <3>3, <4>1, <1>s
    <3> HIDE DEF P
    <3>4. \A k \in 0..n : k \in P
      BY <3>2, <3>3, InductionTo
    <3> QED BY <3>1, <3>4 DEF P
  <2> QED BY <2>1, <1>8
<1>10. IsTable(F[n], n, b, h)
  BY <1>7, <1>9 DEF IsTable, D
<1> QED BY <1>7, <1>10 DEF D

(* The steps of a fold.                                                    *)
StepsOn(S, E) == [S \X E -> S]

(* The outcome of the steps of a function along a sequence.                *)
Reaches(r, h, b, seq) ==
    \E f : /\ f[0] = b
           /\ \A k \in 1..Len(seq) : f[k] = h[<<f[k - 1], seq[k]>>]
           /\ r = f[Len(seq)]

Outcome(h, b, seq) == CHOOSE r : Reaches(r, h, b, seq)

(* A fold has one outcome.                                                 *)
LEMMA OutcomeUnique ==
    ASSUME NEW E, NEW seq \in Seq(E), NEW h, NEW b, NEW r, Reaches(r, h, b, seq)
    PROVE  r = Outcome(h, b, seq)
<1>1. ASSUME NEW q, Reaches(q, h, b, seq) PROVE q = r
  <2> DEFINE n == Len(seq)
  <2>n. n \in Nat
    BY LenProperties
  <2>1. PICK f : f[0] = b /\ (\A k \in 1..n : f[k] = h[<<f[k - 1], seq[k]>>]) /\ q = f[n]
    BY <1>1 DEF Reaches
  <2>2. PICK g : g[0] = b /\ (\A k \in 1..n : g[k] = h[<<g[k - 1], seq[k]>>]) /\ r = g[n]
    BY DEF Reaches
  <2> HIDE DEF n
  <2> DEFINE P == {k \in 0..n : f[k] = g[k]}
  <2>3. 0 \in P
    BY <2>1, <2>2, <2>n
  <2>4. ASSUME NEW k \in 1..n, k - 1 \in P PROVE k \in P
    <3>1. f[k] = h[<<f[k - 1], seq[k]>>] /\ g[k] = h[<<g[k - 1], seq[k]>>]
      BY <2>1, <2>2
    <3>2. f[k - 1] = g[k - 1] /\ k \in 0..n
      BY <2>4, <2>n
    <3> QED BY <3>1, <3>2
  <2> HIDE DEF P
  <2>5. \A k \in 0..n : k \in P
    BY <2>3, <2>4, <2>n, InductionTo
  <2>6. n \in P
    BY <2>5, <2>n
  <2> QED BY <2>1, <2>2, <2>6 DEF P
<1> QED BY <1>1 DEF Outcome

(* The outcome of a fold over nothing.                                     *)
LEMMA OutcomeOfNone ==
    ASSUME NEW h, NEW b
    PROVE  Outcome(h, b, <<>>) = b
<1> DEFINE f == [k \in {0} |-> b]
<1>1. f[0] = b /\ Len(<<>>) = 0 /\ 1..0 = {} /\ <<>> \in Seq({})
  BY EmptySeq
<1> HIDE DEF f
<1>2. Reaches(b, h, b, <<>>)
  BY <1>1 DEF Reaches
<1> QED BY <1>1, <1>2, OutcomeUnique

(* The outcome of a fold over one more element.                            *)
LEMMA OutcomeOfAppend ==
    ASSUME NEW S, NEW E, NEW b \in S, NEW h \in StepsOn(S, E), NEW seq \in Seq(E), NEW e \in E
    PROVE  /\ Outcome(h, b, seq) \in S
           /\ Outcome(h, b, Append(seq, e)) = h[<<Outcome(h, b, seq), e>>]
<1>h. h \in [S \X E -> S]
  BY DEF StepsOn
<1> DEFINE all == Append(seq, e)
           n == Len(seq)
           m == Len(all)
           g == [p \in S \X (1..m) |-> h[<<p[1], all[p[2]]>>]]
<1>1. /\ n \in Nat /\ m \in Nat /\ m = n + 1 /\ all \in Seq(E) /\ all[m] = e
      /\ \A k \in 1..n : all[k] = seq[k]
      /\ \A k \in 1..m : all[k] \in E
  BY AppendProperties, LenProperties, ElementOfSeq
<1> HIDE DEF all, n, m
<1>2. g \in [S \X (1..m) -> S]
  BY <1>1, <1>h
<1>3. PICK f \in [0..m -> S] : IsSteps(f, m, b, g)
  <2> HIDE DEF g
  <2> QED BY <1>1, <1>2, TableExists
<1>4. f[0] = b /\ \A k \in 1..m : f[k] = h[<<f[k - 1], all[k]>>]
  <2>1. ASSUME NEW k \in 1..m PROVE g[<<f[k - 1], k>>] = h[<<f[k - 1], all[k]>>]
    <3>1. k - 1 \in 0..m
      BY <1>1
    <3>2. f[k - 1] \in S
      BY <3>1
    <3> QED BY <3>2
  <2> HIDE DEF g
  <2> QED BY <1>3, <2>1 DEF IsSteps
<1>5. Reaches(f[m], h, b, all)
  BY <1>4 DEF Reaches, m
<1>6. Reaches(f[n], h, b, seq)
  <2>1. \A k \in 1..n : k \in 1..m
    BY <1>1
  <2>2. \A k \in 1..n : f[k] = h[<<f[k - 1], seq[k]>>]
    BY <1>1, <1>4, <2>1
  <2> QED BY <1>4, <2>2 DEF Reaches, n
<1>7. f[m] = Outcome(h, b, all) /\ f[n] = Outcome(h, b, seq)
  BY <1>1, <1>5, <1>6, OutcomeUnique
<1>8. m \in 1..m /\ m - 1 = n /\ n \in 0..m
  BY <1>1
<1>9. f[m] = h[<<f[n], e>>] /\ f[n] \in S
  BY <1>1, <1>4, <1>8
<1> QED BY <1>7, <1>9 DEF all

(* The outcome of a fold keeps within what its steps keep within.          *)
LEMMA OutcomeIn ==
    ASSUME NEW S, NEW E, NEW b \in S, NEW h \in StepsOn(S, E), NEW seq \in Seq(E)
    PROVE  Outcome(h, b, seq) \in S
<1>1. CASE seq = <<>>
  BY <1>1, OutcomeOfNone
<1>2. CASE seq # <<>>
  <2>1. PICK front \in Seq(E), e \in E : seq = Append(front, e)
    BY <1>2, SequenceEmptyOrAppend
  <2>2. Outcome(h, b, front) \in S /\ Outcome(h, b, seq) = h[<<Outcome(h, b, front), e>>]
    BY <2>1, OutcomeOfAppend
  <2> QED BY <2>2 DEF StepsOn
<1> QED BY <1>1, <1>2

(* The table over all sets of positions that FoldLeft stands for.          *)
FoldTable(it, h, b, seq) ==
    it = [s \in SUBSET DOMAIN seq |->
            IF s = {} THEN b ELSE h[<<it[s \ {Max(s)}], seq[Max(s)]>>]]

(* The table of a fold over a sequence.                                    *)
LEMMA FoldTableOf ==
    ASSUME NEW S, NEW E, NEW b \in S, NEW h \in StepsOn(S, E), NEW seq \in Seq(E)
    PROVE  \E it \in [SUBSET DOMAIN seq -> S] : FoldTable(it, h, b, seq)
<1>h. h \in [S \X E -> S]
  BY DEF StepsOn
<1> DEFINE n == Len(seq)
           g == [p \in S \X (1..n) |-> h[<<p[1], seq[p[2]]>>]]
<1>1. n \in Nat /\ DOMAIN seq = 1..n /\ \A k \in 1..n : seq[k] \in E
  BY LenProperties, ElementOfSeq
<1> HIDE DEF n
<1>2. g \in [S \X (1..n) -> S]
  BY <1>1, <1>h
<1>3. PICK it \in [SUBSET (1..n) -> S] : IsTable(it, n, b, g)
  <2> HIDE DEF g
  <2> QED BY <1>1, <1>2, FoldTableExists
<1>4. ASSUME NEW s \in SUBSET (1..n), s # {}
      PROVE  g[<<it[s \ {Max(s)}], Max(s)>>] = h[<<it[s \ {Max(s)}], seq[Max(s)]>>]
  <2>1. Max(s) \in 1..n
    BY <1>1, <1>4, MaxOf
  <2>2. it[s \ {Max(s)}] \in S
    OBVIOUS
  <2> QED BY <2>1, <2>2
<1> HIDE DEF g
<1>5. it = [s \in SUBSET (1..n) |-> IF s = {} THEN b ELSE g[<<it[s \ {Max(s)}], Max(s)>>]]
  BY <1>3 DEF IsTable
<1>6. it = [s \in SUBSET (1..n) |-> IF s = {} THEN b ELSE h[<<it[s \ {Max(s)}], seq[Max(s)]>>]]
  BY <1>4, <1>5
<1> QED BY <1>1, <1>6 DEF FoldTable

(* The last of some places of a sequence.                                  *)
LEMMA MaxOfDomain ==
    ASSUME NEW E, NEW seq \in Seq(E), NEW s \in SUBSET DOMAIN seq, s # {}
    PROVE  /\ Max(s) \in DOMAIN seq /\ seq[Max(s)] \in E
           /\ s \ {Max(s)} \in SUBSET DOMAIN seq
<1>1. Len(seq) \in Nat /\ DOMAIN seq = 1..Len(seq)
  BY LenProperties
<1>2. Max(s) \in s
  BY <1>1, MaxOf
<1> QED BY <1>2, ElementOfSeq, <1>1

(* The first places of a sequence.                                         *)
LEMMA PrefixOfDomain ==
    ASSUME NEW E, NEW seq \in Seq(E)
    PROVE  /\ {} \in SUBSET DOMAIN seq
           /\ \A k \in 1..Len(seq) :
                /\ 1..k \in SUBSET DOMAIN seq /\ 1..k # {}
                /\ Max(1..k) = k /\ (1..k) \ {k} = 1..(k - 1)
<1>1. Len(seq) \in Nat /\ DOMAIN seq = 1..Len(seq)
  BY LenProperties
<1> QED BY <1>1, MaxUpTo

(* A table as MapThenFoldSet defines it, as far as it is in S.             *)
Follows(it, h, b, seq, S) ==
    /\ it[{}] = b
    /\ \A s \in SUBSET DOMAIN seq :
        s # {} /\ it[s \ {Max(s)}] \in S => it[s] = h[<<it[s \ {Max(s)}], seq[Max(s)]>>]

(* What follows the equation of MapThenFoldSet is the outcome of the       *)
(* fold.                                                                   *)
LEMMA FoldTableOutcome ==
    ASSUME NEW S, NEW E, NEW b \in S, NEW h \in StepsOn(S, E), NEW seq \in Seq(E),
           NEW it, Follows(it, h, b, seq, S)
    PROVE  it[DOMAIN seq] = Outcome(h, b, seq)
<1>h. h \in [S \X E -> S]
  BY DEF StepsOn
<1> DEFINE n == Len(seq)
           f == [k \in 0..n |-> it[1..k]]
           P == {k \in 0..n : it[1..k] \in S}
<1>1. n \in Nat /\ DOMAIN seq = 1..n /\ \A k \in 1..n : seq[k] \in E
  BY LenProperties, ElementOfSeq
<1>s. \A k \in 1..n : k \in 0..n /\ k - 1 \in 0..n
  BY <1>1
<1>f. it[{}] = b /\ \A k \in 1..n : it[1..k - 1] \in S => it[1..k] = h[<<it[1..k - 1], seq[k]>>]
  BY PrefixOfDomain DEF Follows
<1>2. 0 \in P /\ f[0] = b
  <2>1. 1..0 = {} /\ 0 \in 0..n
    BY <1>1
  <2> QED BY <2>1, <1>f
<1>3. ASSUME NEW k \in 1..n, k - 1 \in P PROVE k \in P
  <2>1. it[1..k] = h[<<it[1..k - 1], seq[k]>>]
    BY <1>3, <1>f
  <2> QED BY <2>1, <1>1, <1>3, <1>s, <1>h
<1>4. \A k \in 0..n : it[1..k] \in S
  <2>1. \A k \in 0..n : k \in P
    <3> HIDE DEF P, n
    <3> QED BY <1>1, <1>2, <1>3, InductionTo
  <2> QED BY <2>1
<1>5. \A k \in 1..n : it[1..k] = h[<<it[1..k - 1], seq[k]>>]
  BY <1>4, <1>s, <1>f
<1>6. \A k \in 0..n : f[k] = it[1..k]
  OBVIOUS
<1> HIDE DEF f
<1>7. \A k \in 1..n : f[k] = h[<<f[k - 1], seq[k]>>]
  BY <1>5, <1>6, <1>s
<1>8. Reaches(f[n], h, b, seq)
  BY <1>2, <1>7 DEF Reaches
<1>9. f[n] = it[1..n]
  BY <1>1, <1>6
<1> QED BY <1>1, <1>8, <1>9, OutcomeUnique

-----------------------------------------------------------------------------
(* FlattenSeq.                                                             *)

(* FlattenSeq joins from the left.                                         *)
LEMMA FlattenOutcome ==
    ASSUME NEW X, NEW ss \in Seq(Seq(X))
    PROVE  FlattenSeq(ss) = Outcome([p \in Seq(X) \X Seq(X) |-> p[1] \o p[2]], <<>>, ss)
<1> DEFINE h == [p \in Seq(X) \X Seq(X) |-> p[1] \o p[2]]
           n == Len(ss)
           b == <<>>
           Flat(f) == f = [i \in 1..n |-> IF i = 1 THEN ss[i] ELSE f[i - 1] \o ss[i]]
           g == [p \in Seq(X) \X (1..n) |-> p[1] \o ss[p[2]]]
<1>1. n \in Nat /\ b \in Seq(X) /\ \A k \in 1..n : ss[k] \in Seq(X)
  BY LenProperties, ElementOfSeq, EmptySeq
<1>2. FlattenSeq(ss) = IF n = 0 THEN ss ELSE (CHOOSE f : Flat(f))[n]
  BY DEF FlattenSeq
<1>3. n = 0 => ss = b
  BY EmptySeq
<1>c. \A s, t \in Seq(X) : s \o t \in Seq(X)
  BY ConcatProperties
<1>h. \A s, t \in Seq(X) : h[<<s, t>>] = s \o t
  OBVIOUS
<1>b. \A s \in Seq(X) : b \o s = s
  BY ConcatEmptySeq
<1>4. g \in [Seq(X) \X (1..n) -> Seq(X)]
  BY <1>1, <1>c
<1>g. \A s \in Seq(X), k \in 1..n : g[<<s, k>>] = s \o ss[k]
  OBVIOUS
<1> HIDE DEF g, h, b, n
<1>5. PICK f \in [0..n -> Seq(X)] : IsSteps(f, n, b, g)
  BY <1>1, <1>4, TableExists
<1>6. f[0] = b /\ \A k \in 1..n : f[k] = f[k - 1] \o ss[k]
  <2>1. \A k \in 1..n : k - 1 \in 0..n /\ f[k - 1] \in Seq(X)
    BY <1>1
  <2> QED BY <1>5, <1>g, <2>1 DEF IsSteps
<1> DEFINE c == [k \in 1..n |-> f[k]]
<1>7. Flat(c)
  <2>1. ASSUME NEW k \in 1..n
        PROVE  f[k] = IF k = 1 THEN ss[k] ELSE c[k - 1] \o ss[k]
    <3>1. CASE k = 1
      <4>0. 1 \in 1..n /\ 1 - 1 = 0
        BY <3>1, <1>1
      <4>1. f[1] = f[0] \o ss[1]
        BY <4>0, <1>6
      <4>2. f[0] = b /\ ss[1] \in Seq(X)
        BY <4>0, <1>1, <1>6
      <4> QED BY <3>1, <4>1, <4>2, <1>b
    <3>2. CASE k # 1
      <4>1. k - 1 \in 1..n
        BY <3>2, <1>1
      <4> QED BY <3>2, <4>1, <1>6
    <3> QED BY <3>1, <3>2
  <2> QED BY <2>1
<1> HIDE DEF c
<1> DEFINE d == CHOOSE d : Flat(d)
           e == [k \in 0..n |-> IF k = 0 THEN b ELSE d[k]]
<1>8. Flat(d)
  BY <1>7
<1> HIDE DEF d
<1>9. e[0] = b /\ \A k \in 1..n : e[k] = d[k]
  BY <1>1
<1>t. \A k \in 0..n : e[k] \in Seq(X)
  <2> DEFINE P == {k \in 0..n : e[k] \in Seq(X)}
  <2>1. 0 \in P
    BY <1>1, <1>9
  <2>2. ASSUME NEW k \in 1..n, k - 1 \in P PROVE k \in P
    <3>1. CASE k = 1
      BY <3>1, <1>1, <1>8, <1>9
    <3>2. CASE k # 1
      <4>1. k - 1 \in 1..n /\ k \in 0..n
        BY <3>2, <1>1
      <4>2. d[k] = d[k - 1] \o ss[k]
        BY <3>2, <1>8
      <4> QED BY <4>1, <4>2, <1>1, <1>9, <1>c, <2>2
    <3> QED BY <3>1, <3>2
  <2> HIDE DEF P
  <2>3. \A k \in 0..n : k \in P
    BY <1>1, <2>1, <2>2, InductionTo
  <2> QED BY <2>3 DEF P
<1>10. ASSUME NEW k \in 1..n PROVE e[k] = h[<<e[k - 1], ss[k]>>]
  <2>0. k - 1 \in 0..n /\ k \in 0..n /\ e[k - 1] \in Seq(X) /\ ss[k] \in Seq(X)
    BY <1>1, <1>t
  <2>1. CASE k = 1
    <3>1. d[1] = ss[1] /\ e[k - 1] = b /\ e[k] = d[1]
      BY <1>1, <1>8, <1>9, <2>1
    <3> HIDE DEF e
    <3>2. h[<<b, ss[k]>>] = b \o ss[k] /\ b \o ss[k] = ss[k]
      BY <1>1, <1>h, <1>b
    <3> QED BY <2>1, <3>1, <3>2
  <2>2. CASE k # 1
    <3>1. k - 1 \in 1..n 
      BY <2>2, <1>1
    <3>2. d[k] = d[k - 1] \o ss[k]
      BY <2>2, <1>8
    <3> QED BY <2>0, <3>1, <3>2, <1>9, <1>h
  <2> QED BY <2>1, <2>2
<1>11. Reaches(e[n], h, b, ss)
  <2> HIDE DEF e
  <2> QED BY <1>9, <1>10 DEF Reaches, n
<1>12. e[n] = Outcome(h, b, ss)
  BY <1>11, OutcomeUnique
<1>13. CASE n = 0
  BY <1>2, <1>3, <1>9, <1>12, <1>13 DEF h, b
<1>14. CASE n # 0
  <2>1. n \in 1..n
    BY <1>1, <1>14
  <2>2. FlattenSeq(ss) = d[n]
    BY <1>2, <1>14 DEF d
  <2> QED BY <1>9, <1>12, <2>1, <2>2 DEF h, b
<1> QED BY <1>13, <1>14

(* FlattenSeq of nothing and of one more piece.                            *)
LEMMA FlattenAppend ==
    ASSUME NEW X
    PROVE  /\ FlattenSeq(<<>>) = <<>>
           /\ \A ss \in Seq(Seq(X)) : FlattenSeq(ss) \in Seq(X)
           /\ \A ss \in Seq(Seq(X)), s \in Seq(X) :
                FlattenSeq(Append(ss, s)) = FlattenSeq(ss) \o s
<1> DEFINE S == Seq(X)
           b == <<>>
           h == [p \in S \X S |-> p[1] \o p[2]]
<1>1. b \in S /\ b \in Seq(S) /\ \A s, t \in S : s \o t \in S
  BY EmptySeq, ConcatProperties
<1>2. h \in StepsOn(S, S) /\ \A s, t \in S : h[<<s, t>>] = s \o t
  BY <1>1 DEF StepsOn
<1>3. \A ss \in Seq(S) : FlattenSeq(ss) = Outcome(h, b, ss)
  BY FlattenOutcome
<1>4. \A ss \in Seq(S), s \in S : Append(ss, s) \in Seq(S)
  BY AppendProperties
<1> HIDE DEF S, b, h
<1>5. FlattenSeq(b) = b
  BY <1>1, <1>3, OutcomeOfNone DEF b
<1>6. ASSUME NEW ss \in Seq(S) PROVE FlattenSeq(ss) \in S
  <2>1. Outcome(h, b, ss) \in S
    BY <1>1, <1>2, OutcomeIn
  <2> QED BY <1>3, <2>1
<1>7. ASSUME NEW ss \in Seq(S), NEW s \in S
      PROVE  FlattenSeq(Append(ss, s)) = FlattenSeq(ss) \o s
  <2>1. Outcome(h, b, Append(ss, s)) = h[<<Outcome(h, b, ss), s>>]
    BY <1>1, <1>2, OutcomeOfAppend
  <2> QED BY <2>1, <1>2, <1>3, <1>4, <1>6
<1> QED BY <1>5, <1>6, <1>7 DEF S, b

-----------------------------------------------------------------------------
(* Words, and texts of words.                                              *)

(* The words of names in N at places in A; one with a comma has a byte     *)
(* for it.                                                                 *)
AnyWord(N, A) ==
    {w \in [name : N, at : A, size : Nat, stop : BOOLEAN, split : {"no", "attached", "word"}] :
        w.split = "attached" => w.size > 0}

(* A word with a full stop.                                                *)
FullStop(w) == [w EXCEPT !.size = @ + 1, !.stop = TRUE, !.split = "no"]

(* What a text says: the spoken words by name and place.                   *)
Said(text) == NameAndPlace(Spoken(text))

(* The parts of a word, and of the word with a full stop.                  *)
LEMMA WordFacts ==
    ASSUME NEW N, NEW A, NEW w \in AnyWord(N, A)
    PROVE  /\ w.name \in N /\ w.at \in A /\ w.size \in Nat /\ w.stop \in BOOLEAN
           /\ FullStop(w) \in AnyWord(N, A)
           /\ FullStop(w).name = w.name /\ FullStop(w).at = w.at
           /\ FullStop(w).size = w.size + 1 /\ FullStop(w).stop
<1>1. /\ w \in [name : N, at : A, size : Nat, stop : BOOLEAN, split : {"no", "attached", "word"}]
      /\ w.name \in N /\ w.at \in A /\ w.size \in Nat /\ w.stop \in BOOLEAN
  BY DEF AnyWord
<1>2. /\ FullStop(w).name = w.name /\ FullStop(w).at = w.at
      /\ FullStop(w).size = w.size + 1 /\ FullStop(w).stop = TRUE
      /\ FullStop(w).split = "no"
  BY <1>1 DEF FullStop
<1>3. FullStop(w) \in [name : N, at : A, size : Nat, stop : BOOLEAN,
                      split : {"no", "attached", "word"}]
  <2>1. w.size + 1 \in Nat
    BY <1>1
  <2> QED BY <1>1, <2>1, Zenon DEF FullStop
<1> QED BY <1>1, <1>2, <1>3 DEF AnyWord

(* Front and Last undo Append.                                             *)
LEMMA FrontLast ==
    ASSUME NEW V, NEW s \in Seq(V), NEW e \in V
    PROVE  /\ Front(Append(s, e)) = s /\ Last(Append(s, e)) = e
           /\ Append(s, e) \in Seq(V) /\ Append(s, e) # <<>>
<1> DEFINE all == Append(s, e)
<1>1. /\ all \in Seq(V) /\ all # <<>> /\ Len(all) = Len(s) + 1 /\ Len(s) \in Nat
      /\ all[Len(s) + 1] = e /\ \A i \in 1..Len(s) : all[i] = s[i]
  BY AppendProperties, LenProperties
<1> HIDE DEF all
<1>2. Last(all) = e
  BY <1>1 DEF Last
<1>3. Len(all) - 1 = Len(s)
  BY <1>1
<1>4. Front(all) = SubSeq(all, 1, Len(s))
  BY <1>3 DEF Front
<1>5. SubSeq(all, 1, Len(s)) \in Seq(V) /\ Len(SubSeq(all, 1, Len(s))) = Len(s)
      /\ \A i \in 1..Len(s) : SubSeq(all, 1, Len(s))[i] = s[i]
  <2>1. \A i \in 1..Len(s) : all[i] \in V
    BY <1>1, ElementOfSeq
  <2>2. /\ SubSeq(all, 1, Len(s)) \in Seq(V)
        /\ Len(SubSeq(all, 1, Len(s))) = IF 1 <= Len(s) THEN Len(s) - 1 + 1 ELSE 0
        /\ \A i \in 1..Len(s) - 1 + 1 : SubSeq(all, 1, Len(s))[i] = all[1 + i - 1]
    BY <1>1, <2>1, SubSeqProperties
  <2>3. \A i \in 1..Len(s) : i \in 1..Len(s) - 1 + 1 /\ 1 + i - 1 = i
    BY <1>1
  <2>4. (IF 1 <= Len(s) THEN Len(s) - 1 + 1 ELSE 0) = Len(s)
    BY <1>1
  <2> QED BY <1>1, <2>2, <2>3, <2>4
<1>6. SubSeq(all, 1, Len(s)) = s
  BY <1>5, SeqEqual
<1> QED BY <1>1, <1>2, <1>4, <1>6 DEF all

(* Append undoes Front and Last.                                           *)
LEMMA AsAppend ==
    ASSUME NEW V, NEW s \in Seq(V), s # <<>>
    PROVE  /\ Front(s) \in Seq(V) /\ Last(s) \in V
           /\ s = Append(Front(s), Last(s))
<1>1. PICK front \in Seq(V), e \in V : s = Append(front, e)
  BY SequenceEmptyOrAppend
<1> QED BY <1>1, FrontLast

(* Append after joining.                                                   *)
LEMMA ConcatAppend ==
    ASSUME NEW V, NEW s \in Seq(V), NEW t \in Seq(V), NEW e \in V
    PROVE  s \o Append(t, e) = Append(s \o t, e)
<1>1. Append(t, e) = t \o <<e>> /\ <<e>> \in Seq(V) /\ s \o t \in Seq(V)
  <2>1. <<e>> \in Seq(V)
    BY EmptySeq, AppendProperties, <<e>> = Append(<<>>, e)
  <2> QED BY <2>1, AppendIsConcat, ConcatProperties
<1>2. Append(s \o t, e) = (s \o t) \o <<e>>
  BY <1>1, AppendIsConcat
<1> QED BY <1>1, <1>2, ConcatAssociative

(* The sequence of one element.                                            *)
LEMMA Single ==
    ASSUME NEW V, NEW e \in V
    PROVE  <<e>> = Append(<<>>, e) /\ <<e>> \in Seq(V) /\ <<e>> # <<>>
BY EmptySeq, AppendProperties

(* One step of Weight, and one of Spoken.                                  *)
Heavier(n, word) == n + word.size + 1

Uttered(said, word) == IF word.at = 0 THEN said ELSE Append(said, word)

(* Weight of nothing and of one more word.                                 *)
LEMMA WeightOf ==
    ASSUME NEW N, NEW A
    PROVE  /\ Weight(<<>>) = 0
           /\ \A seq \in Seq(AnyWord(N, A)) : Weight(seq) \in Nat
           /\ \A seq \in Seq(AnyWord(N, A)), e \in AnyWord(N, A) :
                Weight(Append(seq, e)) = Heavier(Weight(seq), e)
<1> DEFINE S == Nat
           E == AnyWord(N, A)
           b == 0
           h == [p \in S \X E |-> Heavier(p[1], p[2])]
<1>0. b \in S /\ \A a \in S, e \in E : Heavier(a, e) \in S
  <2> SUFFICES ASSUME NEW a \in Nat, NEW e \in AnyWord(N, A) PROVE Heavier(a, e) \in Nat
    OBVIOUS
  <2>1. e.size \in Nat
    BY WordFacts
  <2> QED BY <2>1 DEF Heavier
<1> HIDE DEF S, E
<1>1. b \in S /\ h \in StepsOn(S, E) /\ \A a \in S, e \in E : h[<<a, e>>] = Heavier(a, e)
  BY <1>0 DEF StepsOn
<1>2. ASSUME NEW seq \in Seq(E) PROVE Weight(seq) = Outcome(h, b, seq)
  <2> DEFINE Table(it) == it = [s \in SUBSET DOMAIN seq |->
                                  IF s = {} THEN b ELSE Heavier(it[s \ {Max(s)}], seq[Max(s)])]
  <2>1. Weight(seq) = (CHOOSE it : Table(it))[DOMAIN seq]
    BY DEF Weight, Heavier, FoldLeft, MapThenFoldSet
  <2> HIDE DEF b, h
  <2>2. PICK it \in [SUBSET DOMAIN seq -> S] : FoldTable(it, h, b, seq)
    BY <1>1, FoldTableOf
  <2>3. Table(it)
    <3>1. ASSUME NEW s \in SUBSET DOMAIN seq, s # {}
          PROVE  h[<<it[s \ {Max(s)}], seq[Max(s)]>>] = Heavier(it[s \ {Max(s)}], seq[Max(s)])
      BY <1>1, <3>1, MaxOfDomain
    <3> QED BY <2>2, <3>1 DEF FoldTable
  <2> DEFINE jt == CHOOSE jt : Table(jt)
  <2>4. Table(jt)
    BY <2>3
  <2> HIDE DEF jt
  <2>5. Follows(jt, h, b, seq, S)
    <3>1. jt[{}] = b
      BY <2>4
    <3>2. ASSUME NEW s \in SUBSET DOMAIN seq, s # {}, jt[s \ {Max(s)}] \in S
          PROVE  jt[s] = h[<<jt[s \ {Max(s)}], seq[Max(s)]>>]
      <4>1. jt[s] = Heavier(jt[s \ {Max(s)}], seq[Max(s)])
        BY <2>4, <3>2
      <4>2. seq[Max(s)] \in E
        BY <3>2, MaxOfDomain
      <4> QED BY <1>1, <3>2, <4>1, <4>2
    <3> QED BY <3>1, <3>2 DEF Follows
  <2> HIDE DEF Table
  <2>6. jt[DOMAIN seq] = Outcome(h, b, seq)
    BY <1>1, <2>5, FoldTableOutcome
  <2> QED BY <2>1, <2>6 DEF jt
<1> HIDE DEF h, b
<1>3. <<>> \in Seq(E) /\ \A seq \in Seq(E), e \in E : Append(seq, e) \in Seq(E)
  BY EmptySeq, AppendProperties
<1>4. Weight(<<>>) = b
  BY <1>2, <1>3, OutcomeOfNone
<1>5. ASSUME NEW seq \in Seq(E) PROVE Weight(seq) \in S
  BY <1>1, <1>2, OutcomeIn
<1>6. ASSUME NEW seq \in Seq(E), NEW e \in E
      PROVE  Weight(Append(seq, e)) = Heavier(Weight(seq), e)
  <2>1. Outcome(h, b, Append(seq, e)) = h[<<Outcome(h, b, seq), e>>]
    BY <1>1, OutcomeOfAppend
  <2> QED BY <2>1, <1>1, <1>2, <1>3, <1>5
<1> QED BY <1>4, <1>5, <1>6 DEF S, E, b

(* Weight of one more word.                                                *)
LEMMA WeightAppend ==
    ASSUME NEW N, NEW A, NEW t \in Seq(AnyWord(N, A)), NEW w \in AnyWord(N, A)
    PROVE  Weight(Append(t, w)) = Weight(t) + w.size + 1
BY WeightOf DEF Heavier

(* Weight of two texts.                                                    *)
LEMMA WeightConcat ==
    ASSUME NEW N, NEW A, NEW s \in Seq(AnyWord(N, A)), NEW t \in Seq(AnyWord(N, A))
    PROVE  Weight(s \o t) = Weight(s) + Weight(t)
<1> DEFINE V == AnyWord(N, A)
           P == {u \in Seq(V) : Weight(s \o u) = Weight(s) + Weight(u)}
<1>0. \A u \in Seq(V) : Weight(u) \in Nat
  BY WeightOf
<1>1. <<>> \in P
  BY <1>0, EmptySeq, ConcatEmptySeq, WeightOf
<1>2. ASSUME NEW u \in Seq(V), NEW w \in V, u \in P PROVE Append(u, w) \in P
  <2> DEFINE x == s \o u
  <2>1. s \o Append(u, w) = Append(x, w) /\ x \in Seq(V) /\ Append(u, w) \in Seq(V)
    BY ConcatAppend, ConcatProperties, AppendProperties
  <2>2. Weight(x) = Weight(s) + Weight(u)
    BY <1>2
  <2> HIDE DEF x
  <2>3. Weight(Append(x, w)) = Weight(x) + w.size + 1
    BY <2>1, WeightAppend
  <2>4. Weight(Append(u, w)) = Weight(u) + w.size + 1
    BY WeightAppend
  <2>5. w.size \in Nat
    BY WordFacts
  <2>6. Weight(s \o Append(u, w)) = Weight(s) + Weight(Append(u, w))
    BY <2>1, <2>2, <2>3, <2>4, <2>5, <1>0
  <2> QED BY <2>1, <2>6
<1> HIDE DEF P
<1>3. \A u \in Seq(V) : u \in P
  BY <1>1, <1>2, SequenceInduction
<1> QED BY <1>3 DEF P

(* Spoken of nothing and of one more word.                                 *)
LEMMA SpokenOf ==
    ASSUME NEW N, NEW A
    PROVE  /\ Spoken(<<>>) = <<>>
           /\ \A seq \in Seq(AnyWord(N, A)) : Spoken(seq) \in Seq(AnyWord(N, A))
           /\ \A seq \in Seq(AnyWord(N, A)), e \in AnyWord(N, A) :
                Spoken(Append(seq, e)) = Uttered(Spoken(seq), e)
<1> DEFINE S == Seq(AnyWord(N, A))
           E == AnyWord(N, A)
           b == <<>>
           h == [p \in S \X E |-> Uttered(p[1], p[2])]
<1>0. b \in S /\ \A a \in S, e \in E : Uttered(a, e) \in S
  BY EmptySeq, AppendProperties DEF Uttered
<1> HIDE DEF S, E
<1>1. b \in S /\ h \in StepsOn(S, E) /\ \A a \in S, e \in E : h[<<a, e>>] = Uttered(a, e)
  BY <1>0 DEF StepsOn
<1>2. ASSUME NEW seq \in Seq(E) PROVE Spoken(seq) = Outcome(h, b, seq)
  <2> DEFINE Table(it) == it = [s \in SUBSET DOMAIN seq |->
                                  IF s = {} THEN b ELSE Uttered(it[s \ {Max(s)}], seq[Max(s)])]
  <2>1. Spoken(seq) = (CHOOSE it : Table(it))[DOMAIN seq]
    BY DEF Spoken, Uttered, FoldLeft, MapThenFoldSet
  <2> HIDE DEF b, h
  <2>2. PICK it \in [SUBSET DOMAIN seq -> S] : FoldTable(it, h, b, seq)
    BY <1>1, FoldTableOf
  <2>3. Table(it)
    <3>1. ASSUME NEW s \in SUBSET DOMAIN seq, s # {}
          PROVE  h[<<it[s \ {Max(s)}], seq[Max(s)]>>] = Uttered(it[s \ {Max(s)}], seq[Max(s)])
      BY <1>1, <3>1, MaxOfDomain
    <3> QED BY <2>2, <3>1 DEF FoldTable
  <2> DEFINE jt == CHOOSE jt : Table(jt)
  <2>4. Table(jt)
    BY <2>3
  <2> HIDE DEF jt
  <2>5. Follows(jt, h, b, seq, S)
    <3>1. jt[{}] = b
      BY <2>4
    <3>2. ASSUME NEW s \in SUBSET DOMAIN seq, s # {}, jt[s \ {Max(s)}] \in S
          PROVE  jt[s] = h[<<jt[s \ {Max(s)}], seq[Max(s)]>>]
      <4>1. jt[s] = Uttered(jt[s \ {Max(s)}], seq[Max(s)])
        BY <2>4, <3>2
      <4>2. seq[Max(s)] \in E
        BY <3>2, MaxOfDomain
      <4> QED BY <1>1, <3>2, <4>1, <4>2
    <3> QED BY <3>1, <3>2 DEF Follows
  <2> HIDE DEF Table
  <2>6. jt[DOMAIN seq] = Outcome(h, b, seq)
    BY <1>1, <2>5, FoldTableOutcome
  <2> QED BY <2>1, <2>6 DEF jt
<1> HIDE DEF h, b
<1>3. <<>> \in Seq(E) /\ \A seq \in Seq(E), e \in E : Append(seq, e) \in Seq(E)
  BY EmptySeq, AppendProperties
<1>4. Spoken(<<>>) = b
  BY <1>2, <1>3, OutcomeOfNone
<1>5. ASSUME NEW seq \in Seq(E) PROVE Spoken(seq) \in S
  BY <1>1, <1>2, OutcomeIn
<1>6. ASSUME NEW seq \in Seq(E), NEW e \in E
      PROVE  Spoken(Append(seq, e)) = Uttered(Spoken(seq), e)
  <2>1. Outcome(h, b, Append(seq, e)) = h[<<Outcome(h, b, seq), e>>]
    BY <1>1, OutcomeOfAppend
  <2> QED BY <2>1, <1>1, <1>2, <1>3, <1>5
<1> QED BY <1>4, <1>5, <1>6 DEF S, E, b

(* What a text may say.                                                    *)
Places(N, A) == N \X A

(* NameAndPlace of nothing and of one more word.                           *)
LEMMA NameAndPlaceOf ==
    ASSUME NEW N, NEW A
    PROVE  /\ NameAndPlace(<<>>) = <<>>
           /\ \A t \in Seq(AnyWord(N, A)) : NameAndPlace(t) \in Seq(Places(N, A))
           /\ \A t \in Seq(AnyWord(N, A)), w \in AnyWord(N, A) :
                NameAndPlace(Append(t, w)) = Append(NameAndPlace(t), <<w.name, w.at>>)
<1> DEFINE V == AnyWord(N, A)
<1>1. NameAndPlace(<<>>) = <<>>
  BY DEF NameAndPlace
<1>2. ASSUME NEW t \in Seq(V)
      PROVE  /\ NameAndPlace(t) \in Seq(Places(N, A)) /\ Len(NameAndPlace(t)) = Len(t)
             /\ \A i \in 1..Len(t) : NameAndPlace(t)[i] = <<t[i].name, t[i].at>>
  <2>1. Len(t) \in Nat /\ DOMAIN t = 1..Len(t) /\ \A i \in 1..Len(t) : t[i] \in V
    BY LenProperties, ElementOfSeq
  <2>2. \A i \in 1..Len(t) : <<t[i].name, t[i].at>> \in Places(N, A)
    BY <2>1, WordFacts DEF Places
  <2>3. NameAndPlace(t) = [i \in 1..Len(t) |-> <<t[i].name, t[i].at>>]
    BY <2>1 DEF NameAndPlace
  <2>4. NameAndPlace(t) \in [1..Len(t) -> Places(N, A)]
    BY <2>2, <2>3
  <2>5. NameAndPlace(t) \in Seq(Places(N, A))
    BY <2>1, <2>4, SeqDef
  <2>6. Len(NameAndPlace(t)) = Len(t)
    BY <2>1, <2>3
  <2> QED BY <2>3, <2>5, <2>6
<1>3. ASSUME NEW t \in Seq(V), NEW w \in V
      PROVE  NameAndPlace(Append(t, w)) = Append(NameAndPlace(t), <<w.name, w.at>>)
  <2> DEFINE p == <<w.name, w.at>>
             a == NameAndPlace(Append(t, w))
             c == Append(NameAndPlace(t), p)
  <2>1. p \in Places(N, A)
    BY WordFacts DEF Places
  <2>2. /\ Append(t, w) \in Seq(V) /\ Len(Append(t, w)) = Len(t) + 1 /\ Len(t) \in Nat
        /\ (\A i \in 1..Len(t) : Append(t, w)[i] = t[i]) /\ Append(t, w)[Len(t) + 1] = w
    BY AppendProperties, LenProperties
  <2>3. /\ a \in Seq(Places(N, A)) /\ Len(a) = Len(t) + 1
        /\ \A i \in 1..Len(t) + 1 : a[i] = <<Append(t, w)[i].name, Append(t, w)[i].at>>
    BY <1>2, <2>2
  <2>4. /\ c \in Seq(Places(N, A)) /\ Len(c) = Len(t) + 1
        /\ (\A i \in 1..Len(t) : c[i] = NameAndPlace(t)[i]) /\ c[Len(t) + 1] = p
    <3> HIDE DEF p
    <3> QED BY <1>2, <2>1, AppendProperties
  <2> HIDE DEF a, c
  <2>5. ASSUME NEW i \in 1..Len(t) + 1 PROVE a[i] = c[i]
    <3>1. CASE i = Len(t) + 1
      BY <3>1, <2>2, <2>3, <2>4
    <3>2. CASE i # Len(t) + 1
      <4>1. i \in 1..Len(t)
        BY <2>2, <3>2
      <4> QED BY <4>1, <2>2, <2>3, <2>4, <1>2
    <3> QED BY <3>1, <3>2
  <2> QED BY <2>3, <2>4, <2>5, SeqEqual DEF a, c
<1> QED BY <1>1, <1>2, <1>3

(* What is said by nothing and by a text.                                  *)
LEMMA SaidOf ==
    ASSUME NEW N, NEW A
    PROVE  /\ Said(<<>>) = <<>>
           /\ \A t \in Seq(AnyWord(N, A)) : Said(t) \in Seq(Places(N, A))
BY SpokenOf, NameAndPlaceOf DEF Said

(* What is said by one more word.                                          *)
LEMMA SaidAppend ==
    ASSUME NEW N, NEW A, NEW t \in Seq(AnyWord(N, A)), NEW w \in AnyWord(N, A)
    PROVE  Said(Append(t, w)) = IF w.at = 0 THEN Said(t)
                                ELSE Append(Said(t), <<w.name, w.at>>)
<1>1. Spoken(t) \in Seq(AnyWord(N, A))
  BY SpokenOf
<1>2. Spoken(Append(t, w)) = IF w.at = 0 THEN Spoken(t) ELSE Append(Spoken(t), w)
  BY SpokenOf DEF Uttered
<1>3. NameAndPlace(Append(Spoken(t), w)) = Append(NameAndPlace(Spoken(t)), <<w.name, w.at>>)
  BY <1>1, NameAndPlaceOf
<1> QED BY <1>2, <1>3 DEF Said

(* What is said by two texts.                                              *)
LEMMA SaidConcat ==
    ASSUME NEW N, NEW A, NEW s \in Seq(AnyWord(N, A)), NEW t \in Seq(AnyWord(N, A))
    PROVE  Said(s \o t) = Said(s) \o Said(t)
<1> DEFINE V == AnyWord(N, A)
           P == {u \in Seq(V) : Said(s \o u) = Said(s) \o Said(u)}
<1>0. \A u \in Seq(V) : Said(u) \in Seq(Places(N, A))
  BY SaidOf
<1>1. <<>> \in P
  BY <1>0, EmptySeq, ConcatEmptySeq, SaidOf
<1>2. ASSUME NEW u \in Seq(V), NEW w \in V, u \in P PROVE Append(u, w) \in P
  <2> DEFINE p == <<w.name, w.at>>
  <2> DEFINE x == s \o u
  <2>1. s \o Append(u, w) = Append(x, w) /\ x \in Seq(V) /\ Append(u, w) \in Seq(V)
    BY ConcatAppend, ConcatProperties, AppendProperties
  <2>2. Said(x) = Said(s) \o Said(u)
    BY <1>2
  <2>3. p \in Places(N, A)
    BY WordFacts DEF Places
  <2> HIDE DEF x
  <2>4. Said(Append(x, w)) = IF w.at = 0 THEN Said(x) ELSE Append(Said(x), p)
    BY <2>1, SaidAppend
  <2>5. Said(Append(u, w)) = IF w.at = 0 THEN Said(u) ELSE Append(Said(u), p)
    BY SaidAppend
  <2> HIDE DEF p
  <2>6. Said(s) \o Append(Said(u), p) = Append(Said(s) \o Said(u), p)
    BY <1>0, <2>3, ConcatAppend
  <2>7. Said(s \o Append(u, w)) = Said(s) \o Said(Append(u, w))
    BY <2>1, <2>2, <2>4, <2>5, <2>6
  <2> QED BY <2>1, <2>7
<1> HIDE DEF P
<1>3. \A u \in Seq(V) : u \in P
  BY <1>1, <1>2, SequenceInduction
<1> QED BY <1>3 DEF P

(* A full stop changes nothing of what is said, and adds one byte.         *)
LEMMA StoppedText ==
    ASSUME NEW N, NEW A, NEW t \in Seq(AnyWord(N, A))
    PROVE  /\ Stopped(t) \in Seq(AnyWord(N, A))
           /\ Said(Stopped(t)) = Said(t)
           /\ Weight(Stopped(t)) <= Weight(t) + 1
           /\ t # <<>> => Stopped(t) # <<>> /\ Last(Stopped(t)).stop
           /\ t = <<>> => Stopped(t) = <<>>
           /\ (t # <<>> /\ Last(t).stop) => Stopped(t) = t
<1> DEFINE V == AnyWord(N, A)
<1>1. CASE t = <<>>
  BY <1>1, WeightOf DEF Stopped
<1>2. CASE t # <<>>
  <2> DEFINE f == Front(t)
             w == Last(t)
  <2>1. f \in Seq(V) /\ w \in V /\ t = Append(f, w)
    BY <1>2, AsAppend
  <2>2. Stopped(t) = IF w.stop THEN t ELSE Append(f, FullStop(w))
    BY <1>2 DEF Stopped, FullStop
  <2> HIDE DEF f
  <2>3. CASE w.stop
    BY <1>2, <2>2, <2>3, WeightOf
  <2>4. CASE ~w.stop
    <3>1. Stopped(t) = Append(f, FullStop(w)) /\ FullStop(w) \in V /\ w.size \in Nat
      BY <2>1, <2>2, <2>4, WordFacts
    <3>2. Stopped(t) \in Seq(V) /\ Stopped(t) # <<>> /\ Last(Stopped(t)) = FullStop(w)
      BY <2>1, <3>1, FrontLast
    <3>3. Said(Stopped(t)) = Said(t)
      <4>1. Said(Append(f, w)) = IF w.at = 0 THEN Said(f) ELSE Append(Said(f), <<w.name, w.at>>)
        BY <2>1, SaidAppend
      <4>2. Said(Append(f, FullStop(w)))
              = IF FullStop(w).at = 0 THEN Said(f)
                ELSE Append(Said(f), <<FullStop(w).name, FullStop(w).at>>)
        BY <2>1, <3>1, SaidAppend
      <4>3. FullStop(w).name = w.name /\ FullStop(w).at = w.at
        BY <2>1, WordFacts
      <4> QED BY <2>1, <3>1, <4>1, <4>2, <4>3
    <3>4. Weight(Stopped(t)) = Weight(f) + FullStop(w).size + 1 /\ Weight(f) \in Nat
          /\ Weight(t) = Weight(f) + w.size + 1
      <4>1. Weight(Append(f, w)) = Weight(f) + w.size + 1
        BY <2>1, WeightAppend
      <4>2. Weight(Append(f, FullStop(w))) = Weight(f) + FullStop(w).size + 1
        BY <2>1, <3>1, WeightAppend
      <4>3. Weight(f) \in Nat
        BY <2>1, WeightOf
      <4> QED BY <2>1, <3>1, <4>1, <4>2, <4>3
    <3>5. FullStop(w).size = w.size + 1 /\ FullStop(w).stop
      BY <2>1, WordFacts
    <3>6. Weight(Stopped(t)) <= Weight(t) + 1
      BY <3>1, <3>4, <3>5
    <3> QED BY <1>2, <2>4, <3>2, <3>3, <3>5, <3>6
  <2> QED BY <2>3, <2>4
<1> QED BY <1>1, <1>2

-----------------------------------------------------------------------------
(* Sequences of sequences.                                                 *)

(* FlattenSeq of one piece.                                                *)
LEMMA FlattenSingle ==
    ASSUME NEW X, NEW s \in Seq(X)
    PROVE  FlattenSeq(<<s>>) = s
<1>1. <<>> \in Seq(Seq(X)) /\ <<s>> = Append(<<>>, s)
  BY EmptySeq
<1>2. FlattenSeq(Append(<<>>, s)) = FlattenSeq(<<>>) \o s
  BY <1>1, FlattenAppend
<1> QED BY <1>1, <1>2, FlattenAppend, ConcatEmptySeq

(* FlattenSeq of two sequences of pieces.                                  *)
LEMMA FlattenConcat ==
    ASSUME NEW X, NEW ss \in Seq(Seq(X)), NEW tt \in Seq(Seq(X))
    PROVE  FlattenSeq(ss \o tt) = FlattenSeq(ss) \o FlattenSeq(tt)
<1> DEFINE Y == Seq(X)
           P == {uu \in Seq(Y) : FlattenSeq(ss \o uu) = FlattenSeq(ss) \o FlattenSeq(uu)}
<1>0. \A uu \in Seq(Y) : FlattenSeq(uu) \in Seq(X)
  BY FlattenAppend
<1>1. <<>> \in P
  <2>1. FlattenSeq(<<>>) = <<>> /\ <<>> \in Seq(Y) /\ ss \o <<>> = ss
    BY FlattenAppend, EmptySeq, ConcatEmptySeq
  <2>2. FlattenSeq(ss) \o <<>> = FlattenSeq(ss)
    BY <1>0, ConcatEmptySeq
  <2> QED BY <2>1, <2>2
<1>2. ASSUME NEW uu \in Seq(Y), NEW s \in Y, uu \in P PROVE Append(uu, s) \in P
  <2> DEFINE xx == ss \o uu
  <2>1. ss \o Append(uu, s) = Append(xx, s) /\ xx \in Seq(Y) /\ Append(uu, s) \in Seq(Y)
    BY ConcatAppend, ConcatProperties, AppendProperties
  <2>2. FlattenSeq(xx) = FlattenSeq(ss) \o FlattenSeq(uu)
    BY <1>2
  <2> HIDE DEF xx
  <2> DEFINE x == FlattenSeq(ss)
             y == FlattenSeq(uu)
  <2>x. x \in Seq(X) /\ y \in Seq(X) /\ s \in Seq(X)
    BY <1>0
  <2>3. FlattenSeq(Append(xx, s)) = FlattenSeq(xx) \o s
    BY <2>1, FlattenAppend
  <2>4. FlattenSeq(Append(uu, s)) = y \o s
    BY FlattenAppend
  <2> HIDE DEF x, y
  <2>5. (x \o y) \o s = x \o (y \o s)
    BY <2>x, ConcatAssociative
  <2>6. FlattenSeq(ss \o Append(uu, s)) = x \o FlattenSeq(Append(uu, s))
    BY <2>1, <2>2, <2>3, <2>4, <2>5 DEF x, y
  <2> QED BY <2>1, <2>6 DEF x
<1> HIDE DEF P
<1>3. \A uu \in Seq(Y) : uu \in P
  BY <1>1, <1>2, SequenceInduction
<1> QED BY <1>3 DEF P

(* A function applied to every element.                                    *)
Map(f, s) == [i \in DOMAIN s |-> f[s[i]]]

MapsTo(X, Y) == [X -> Y]

(* A function applied to the elements of a sequence.                       *)
LEMMA MapOf ==
    ASSUME NEW X, NEW Y, NEW f \in MapsTo(X, Y), NEW s \in Seq(X)
    PROVE  /\ Map(f, s) \in Seq(Y) /\ Len(Map(f, s)) = Len(s)
           /\ DOMAIN Map(f, s) = DOMAIN s /\ DOMAIN s = 1..Len(s)
           /\ \A i \in 1..Len(s) : Map(f, s)[i] = f[s[i]]
<1>1. Len(s) \in Nat /\ DOMAIN s = 1..Len(s) /\ \A i \in 1..Len(s) : s[i] \in X
  BY LenProperties, ElementOfSeq
<1>2. Map(f, s) = [i \in 1..Len(s) |-> f[s[i]]]
  BY <1>1 DEF Map
<1>3. Map(f, s) \in [1..Len(s) -> Y]
  BY <1>1, <1>2 DEF MapsTo
<1>4. Map(f, s) \in Seq(Y)
  BY <1>1, <1>3, SeqDef
<1>5. Len(Map(f, s)) = Len(s)
  BY <1>1, <1>2
<1> QED BY <1>1, <1>2, <1>4, <1>5

(* And to one more element.                                                *)
LEMMA MapAppend ==
    ASSUME NEW X, NEW Y, NEW f \in MapsTo(X, Y), NEW s \in Seq(X), NEW e \in X
    PROVE  Map(f, Append(s, e)) = Append(Map(f, s), f[e])
<1> DEFINE all == Append(s, e)
           a == Map(f, all)
           c == Append(Map(f, s), f[e])
<1>1. f[e] \in Y
  BY DEF MapsTo
<1>2. /\ all \in Seq(X) /\ Len(all) = Len(s) + 1 /\ Len(s) \in Nat
      /\ (\A i \in 1..Len(s) : all[i] = s[i]) /\ all[Len(s) + 1] = e
  BY AppendProperties, LenProperties
<1> HIDE DEF all
<1>3. Map(f, s) \in Seq(Y) /\ Len(Map(f, s)) = Len(s) /\ \A i \in 1..Len(s) : Map(f, s)[i] = f[s[i]]
  BY MapOf
<1>4. a \in Seq(Y) /\ Len(a) = Len(s) + 1 /\ \A i \in 1..Len(s) + 1 : a[i] = f[all[i]]
  BY <1>2, MapOf
<1>5. /\ c \in Seq(Y) /\ Len(c) = Len(s) + 1
      /\ (\A i \in 1..Len(s) : c[i] = Map(f, s)[i]) /\ c[Len(s) + 1] = f[e]
  BY <1>1, <1>3, AppendProperties
<1> HIDE DEF a, c
<1>6. ASSUME NEW i \in 1..Len(s) + 1 PROVE a[i] = c[i]
  <2>1. CASE i = Len(s) + 1
    BY <2>1, <1>2, <1>4, <1>5
  <2>2. CASE i # Len(s) + 1
    <3>1. i \in 1..Len(s)
      BY <1>2, <2>2
    <3> QED BY <3>1, <1>2, <1>3, <1>4, <1>5
  <2> QED BY <2>1, <2>2
<1> QED BY <1>4, <1>5, <1>6, SeqEqual DEF a, c, all

(* A sequence as its single elements.                                      *)
LEMMA OneByOne ==
    ASSUME NEW X, NEW t \in Seq(X)
    PROVE  /\ [i \in DOMAIN t |-> <<t[i]>>] \in Seq(Seq(X))
           /\ FlattenSeq([i \in DOMAIN t |-> <<t[i]>>]) = t
<1> DEFINE f == [w \in X |-> <<w>>]
           P == {u \in Seq(X) : FlattenSeq(Map(f, u)) = u}
<1>1. f \in MapsTo(X, Seq(X)) /\ \A w \in X : f[w] = <<w>>
  <2>1. \A w \in X : <<w>> \in Seq(X)
    BY EmptySeq, AppendProperties
  <2> QED BY <2>1 DEF MapsTo
<1> HIDE DEF f
<1>2. <<>> \in P
  <2>1. Map(f, <<>>) = <<>> /\ FlattenSeq(<<>>) = <<>>
    BY FlattenAppend DEF Map
  <2> QED BY <2>1, EmptySeq
<1>3. ASSUME NEW u \in Seq(X), NEW w \in X, u \in P PROVE Append(u, w) \in P
  <2> DEFINE m == Map(f, u)
             e == f[w]
  <2>1. m \in Seq(Seq(X)) /\ e \in Seq(X)
    BY <1>1, MapOf DEF MapsTo
  <2>2. Map(f, Append(u, w)) = Append(m, e)
    BY <1>1, MapAppend
  <2>3. FlattenSeq(m) = u /\ e = <<w>>
    BY <1>1, <1>3
  <2> HIDE DEF m, e
  <2>4. FlattenSeq(Append(m, e)) = FlattenSeq(m) \o e
    BY <2>1, FlattenAppend
  <2>5. u \o <<w>> = Append(u, w)
    BY AppendIsConcat
  <2>6. FlattenSeq(Map(f, Append(u, w))) = Append(u, w)
    BY <2>2, <2>3, <2>4, <2>5
  <2>7. Append(u, w) \in Seq(X)
    BY AppendProperties
  <2> QED BY <2>6, <2>7
<1> HIDE DEF P
<1>4. t \in P
  <2>1. \A u \in Seq(X) : u \in P
    BY <1>2, <1>3, SequenceInduction
  <2> QED BY <2>1
<1>5. Map(f, t) = [i \in DOMAIN t |-> <<t[i]>>]
  <2>1. \A i \in DOMAIN t : t[i] \in X
    BY LenProperties, ElementOfSeq
  <2> QED BY <1>1, <2>1 DEF Map
<1>6. Map(f, t) \in Seq(Seq(X))
  BY <1>1, MapOf
<1> QED BY <1>4, <1>5, <1>6 DEF P

(* Pieces of pieces are joined in either order.                            *)
LEMMA FlattenTwice ==
    ASSUME NEW X, NEW sss \in Seq(Seq(Seq(X)))
    PROVE  FlattenSeq(FlattenSeq(sss)) = FlattenSeq([k \in DOMAIN sss |-> FlattenSeq(sss[k])])
<1> DEFINE Y == Seq(X)
           Z == Seq(Y)
           f == [z \in Z |-> FlattenSeq(z)]
           P == {uuu \in Seq(Z) : FlattenSeq(FlattenSeq(uuu)) = FlattenSeq(Map(f, uuu))}
<1>0. (\A uuu \in Seq(Z) : FlattenSeq(uuu) \in Z) /\ (\A uu \in Z : FlattenSeq(uu) \in Y)
  BY FlattenAppend
<1>f. f \in MapsTo(Z, Y) /\ \A z \in Z : f[z] = FlattenSeq(z)
  BY <1>0 DEF MapsTo
<1> HIDE DEF f
<1>1. <<>> \in P
  <2>1. FlattenSeq(<<>>) = <<>> /\ <<>> \in Seq(Z) /\ Map(f, <<>>) = <<>>
    BY FlattenAppend, EmptySeq DEF Map
  <2> QED BY <2>1
<1>2. ASSUME NEW uuu \in Seq(Z), NEW z \in Z, uuu \in P PROVE Append(uuu, z) \in P
  <2>1. Append(uuu, z) \in Seq(Z)
    BY AppendProperties
  <2>2. FlattenSeq(Append(uuu, z)) = FlattenSeq(uuu) \o z
    BY FlattenAppend
  <2>3. FlattenSeq(FlattenSeq(uuu) \o z) = FlattenSeq(FlattenSeq(uuu)) \o FlattenSeq(z)
    BY <1>0, FlattenConcat
  <2>4. Map(f, Append(uuu, z)) = Append(Map(f, uuu), f[z])
    BY <1>f, MapAppend
  <2>5. Map(f, uuu) \in Seq(Y) /\ f[z] \in Y
    BY <1>f, <1>0, MapOf
  <2>6. FlattenSeq(Append(Map(f, uuu), f[z])) = FlattenSeq(Map(f, uuu)) \o f[z]
    BY <2>5, FlattenAppend
  <2>7. FlattenSeq(FlattenSeq(uuu)) = FlattenSeq(Map(f, uuu))
    BY <1>2
  <2> QED BY <2>1, <2>2, <2>3, <2>4, <2>6, <2>7, <1>f
<1> HIDE DEF P
<1>3. \A uuu \in Seq(Z) : uuu \in P
  BY <1>1, <1>2, SequenceInduction
<1>4. Map(f, sss) = [k \in DOMAIN sss |-> FlattenSeq(sss[k])]
  <2>1. \A k \in DOMAIN sss : sss[k] \in Z
    BY ElementOfSeq, LenProperties
  <2> QED BY <2>1, <1>f DEF Map
<1>5. sss \in P
  BY <1>3
<1> QED BY <1>4, <1>5 DEF P

-----------------------------------------------------------------------------
(* What is said by pieces that say the same.                               *)

(* Pieces that say the same, one by one.                                   *)
Alike(ss, tt) ==
    Len(ss) = Len(tt) /\ \A k \in 1..Len(ss) : Said(ss[k]) = Said(tt[k])

(* Texts whose pieces say the same say the same.                           *)
LEMMA SaidAlike ==
    ASSUME NEW N, NEW A, NEW ss \in Seq(Seq(AnyWord(N, A))), NEW tt \in Seq(Seq(AnyWord(N, A))),
           Alike(ss, tt)
    PROVE  Said(FlattenSeq(ss)) = Said(FlattenSeq(tt))
<1> DEFINE Y == Seq(AnyWord(N, A))
           P == {uu \in Seq(Y) : \A vv \in Seq(Y) :
                   Alike(uu, vv) => Said(FlattenSeq(uu)) = Said(FlattenSeq(vv))}
<1>1. <<>> \in P
  <2>1. ASSUME NEW vv \in Seq(Y), Len(vv) = 0 PROVE vv = <<>>
    BY <2>1, EmptySeq
  <2>2. <<>> \in Seq(Y) /\ Len(<<>>) = 0
    BY EmptySeq
  <2> QED BY <2>1, <2>2 DEF Alike
<1>2. ASSUME NEW uu \in Seq(Y), NEW s \in Y, uu \in P PROVE Append(uu, s) \in P
  <2>0. /\ Append(uu, s) # <<>> /\ Len(Append(uu, s)) = Len(uu) + 1 /\ Len(uu) \in Nat
        /\ (\A k \in 1..Len(uu) : Append(uu, s)[k] = uu[k]) /\ Append(uu, s)[Len(uu) + 1] = s
    <3> HIDE DEF Y, P
    <3> QED BY AppendProperties, LenProperties
  <2> SUFFICES ASSUME NEW vv \in Seq(Y), Alike(Append(uu, s), vv)
               PROVE  Said(FlattenSeq(Append(uu, s))) = Said(FlattenSeq(vv))
    BY AppendProperties
  <2> DEFINE xx == Append(uu, s)
  <2>1. /\ xx # <<>> /\ Len(xx) = Len(uu) + 1 /\ Len(uu) \in Nat
        /\ (\A k \in 1..Len(uu) : xx[k] = uu[k]) /\ xx[Len(uu) + 1] = s
    BY <2>0
  <2>a. Len(xx) = Len(vv) /\ \A k \in 1..Len(xx) : Said(xx[k]) = Said(vv[k])
    BY DEF Alike
  <2>f. FlattenSeq(xx) = FlattenSeq(uu) \o s
    BY FlattenAppend
  <2> HIDE DEF xx
  <2>2. vv # <<>>
    BY <2>1, <2>a, EmptySeq
  <2>3. PICK ww \in Seq(Y), t \in Y : vv = Append(ww, t)
    BY <2>2, SequenceEmptyOrAppend
  <2>4. /\ Len(vv) = Len(ww) + 1 /\ Len(ww) \in Nat
        /\ (\A k \in 1..Len(ww) : vv[k] = ww[k]) /\ vv[Len(ww) + 1] = t
    BY <2>3, AppendProperties, LenProperties
  <2>g. FlattenSeq(vv) = FlattenSeq(ww) \o t
    BY <2>3, FlattenAppend
  <2>5. Len(uu) = Len(ww)
    BY <2>1, <2>4, <2>a
  <2>6. Said(s) = Said(t)
    <3>1. Len(uu) + 1 \in 1..Len(xx)
      BY <2>1
    <3>2. Said(xx[Len(uu) + 1]) = Said(vv[Len(uu) + 1])
      BY <3>1, <2>a
    <3> QED BY <3>2, <2>1, <2>4, <2>5
  <2>7. ASSUME NEW k \in 1..Len(uu) PROVE Said(uu[k]) = Said(ww[k])
    <3>1. k \in 1..Len(xx)
      BY <2>1
    <3>2. Said(xx[k]) = Said(vv[k])
      BY <3>1, <2>a
    <3> QED BY <3>2, <2>1, <2>4, <2>5
  <2>8. Said(FlattenSeq(uu)) = Said(FlattenSeq(ww))
    <3>1. Alike(uu, ww)
      BY <2>5, <2>7 DEF Alike
    <3> QED BY <3>1, <1>2
  <2> DEFINE x == FlattenSeq(uu)
             y == FlattenSeq(ww)
  <2>9. x \in Y /\ y \in Y
    BY FlattenAppend
  <2> HIDE DEF x, y
  <2>d. ASSUME NEW c \in Y, NEW d \in Y PROVE Said(c \o d) = Said(c) \o Said(d)
    <3>1. c \in Seq(AnyWord(N, A)) /\ d \in Seq(AnyWord(N, A))
      OBVIOUS
    <3> HIDE DEF Y, P
    <3> QED BY <3>1, SaidConcat
  <2>10. Said(x \o s) = Said(x) \o Said(s)
    BY <2>9, <2>d
  <2>11. Said(y \o t) = Said(y) \o Said(t)
    BY <2>9, <2>d
  <2>12. FlattenSeq(xx) = x \o s /\ FlattenSeq(vv) = y \o t /\ Said(x) = Said(y)
    BY <2>8, <2>f, <2>g DEF x, y
  <2>13. Said(FlattenSeq(xx)) = Said(FlattenSeq(vv))
    <3> HIDE DEF Y, P
    <3> QED BY <2>6, <2>10, <2>11, <2>12, Zenon
  <2> QED BY <2>13 DEF xx
<1> HIDE DEF P
<1>3. \A uu \in Seq(Y) : uu \in P
  BY <1>1, <1>2, SequenceInduction
<1> QED BY <1>3 DEF P

(* Pieces that say the same after one of them is cut further.              *)
AlikeInPieces(sss, tt) ==
    Len(sss) = Len(tt) /\ \A k \in 1..Len(tt) : Said(FlattenSeq(sss[k])) = Said(tt[k])

(* And so do texts whose pieces are cut further.                           *)
LEMMA SaidPieces ==
    ASSUME NEW N, NEW A, NEW sss \in Seq(Seq(Seq(AnyWord(N, A)))), NEW tt \in Seq(Seq(AnyWord(N, A))),
           AlikeInPieces(sss, tt)
    PROVE  Said(FlattenSeq(FlattenSeq(sss))) = Said(FlattenSeq(tt))
<1> DEFINE Y == Seq(AnyWord(N, A))
           f == [z \in Seq(Y) |-> FlattenSeq(z)]
           ss == Map(f, sss)
<1>1. f \in MapsTo(Seq(Y), Y) /\ \A z \in Seq(Y) : f[z] = FlattenSeq(z)
  BY FlattenAppend DEF MapsTo
<1>2. \A k \in 1..Len(sss) : sss[k] \in Seq(Y)
  BY ElementOfSeq
<1> HIDE DEF f
<1>3. /\ ss \in Seq(Y) /\ Len(ss) = Len(sss) /\ DOMAIN sss = 1..Len(sss)
      /\ \A i \in 1..Len(sss) : ss[i] = f[sss[i]]
  BY <1>1, MapOf
<1>4. ss = [k \in DOMAIN sss |-> FlattenSeq(sss[k])]
  BY <1>1, <1>2, <1>3 DEF Map
<1> HIDE DEF ss
<1>5. Alike(ss, tt)
  BY <1>1, <1>2, <1>3 DEF Alike, AlikeInPieces
<1>6. Said(FlattenSeq(ss)) = Said(FlattenSeq(tt))
  BY <1>3, <1>5, SaidAlike
<1> QED BY <1>4, <1>6, FlattenTwice

-----------------------------------------------------------------------------
(* Long runs.                                                              *)

(* _break_long_runs before its result is taken.                            *)
Broken(text) == FoldLeft(BreakStep, [out |-> <<>>, run |-> 0], text)

(* _break_long_runs word by word.                                          *)
LEMMA BrokenOf ==
    ASSUME NEW N, NEW A
    PROVE  /\ Broken(<<>>) = [out |-> <<>>, run |-> 0]
           /\ \A seq \in Seq(AnyWord(N, A)) : Broken(seq) \in [out : Seq(AnyWord(N, A)), run : Nat]
           /\ \A seq \in Seq(AnyWord(N, A)), e \in AnyWord(N, A) :
                Broken(Append(seq, e)) = BreakStep(Broken(seq), e)
<1> DEFINE S == [out : Seq(AnyWord(N, A)), run : Nat]
           E == AnyWord(N, A)
           b == [out |-> <<>>, run |-> 0]
           h == [p \in S \X E |-> BreakStep(p[1], p[2])]
<1>0. b \in S /\ \A a \in S, e \in E : BreakStep(a, e) \in S
  <2>1. b \in S
    BY EmptySeq
  <2>2. ASSUME NEW a \in S, NEW e \in E PROVE BreakStep(a, e) \in S
    <3> DEFINE break == a.run + e.size > MaxRun /\ ~e.stop
               before == IF break THEN Stopped(a.out) ELSE a.out
               run == IF e.stop THEN 0 ELSE (IF break THEN 0 ELSE a.run) + e.size + 1
    <3>1. a.out \in Seq(AnyWord(N, A)) /\ a.run \in Nat
      OBVIOUS
    <3>2. e.size \in Nat
      BY WordFacts
    <3>3. before \in Seq(AnyWord(N, A))
      BY <3>1, StoppedText
    <3>4. run \in Nat
      BY <3>1, <3>2
    <3>5. BreakStep(a, e) = [out |-> Append(before, e), run |-> run]
      BY DEF BreakStep
    <3> HIDE DEF before, run
    <3>6. Append(before, e) \in Seq(AnyWord(N, A))
      BY <3>3, AppendProperties
    <3> QED BY <3>4, <3>5, <3>6
  <2> QED BY <2>1, <2>2
<1> HIDE DEF S, E
<1>1. b \in S /\ h \in StepsOn(S, E) /\ \A a \in S, e \in E : h[<<a, e>>] = BreakStep(a, e)
  BY <1>0 DEF StepsOn
<1>2. ASSUME NEW seq \in Seq(E) PROVE Broken(seq) = Outcome(h, b, seq)
  <2> DEFINE Table(it) == it = [s \in SUBSET DOMAIN seq |->
                                  IF s = {} THEN b ELSE BreakStep(it[s \ {Max(s)}], seq[Max(s)])]
  <2>1. Broken(seq) = (CHOOSE it : Table(it))[DOMAIN seq]
    BY DEF Broken, FoldLeft, MapThenFoldSet
  <2> HIDE DEF b, h
  <2>2. PICK it \in [SUBSET DOMAIN seq -> S] : FoldTable(it, h, b, seq)
    BY <1>1, FoldTableOf
  <2>3. Table(it)
    <3>1. ASSUME NEW s \in SUBSET DOMAIN seq, s # {}
          PROVE  h[<<it[s \ {Max(s)}], seq[Max(s)]>>] = BreakStep(it[s \ {Max(s)}], seq[Max(s)])
      BY <1>1, <3>1, MaxOfDomain
    <3> QED BY <2>2, <3>1 DEF FoldTable
  <2> DEFINE jt == CHOOSE jt : Table(jt)
  <2>4. Table(jt)
    BY <2>3
  <2> HIDE DEF jt
  <2>5. Follows(jt, h, b, seq, S)
    <3>1. jt[{}] = b
      BY <2>4
    <3>2. ASSUME NEW s \in SUBSET DOMAIN seq, s # {}, jt[s \ {Max(s)}] \in S
          PROVE  jt[s] = h[<<jt[s \ {Max(s)}], seq[Max(s)]>>]
      <4>1. jt[s] = BreakStep(jt[s \ {Max(s)}], seq[Max(s)])
        BY <2>4, <3>2
      <4>2. seq[Max(s)] \in E
        BY <3>2, MaxOfDomain
      <4> QED BY <1>1, <3>2, <4>1, <4>2
    <3> QED BY <3>1, <3>2 DEF Follows
  <2> HIDE DEF Table
  <2>6. jt[DOMAIN seq] = Outcome(h, b, seq)
    BY <1>1, <2>5, FoldTableOutcome
  <2> QED BY <2>1, <2>6 DEF jt
<1> HIDE DEF h, b
<1>3. <<>> \in Seq(E) /\ \A seq \in Seq(E), e \in E : Append(seq, e) \in Seq(E)
  BY EmptySeq, AppendProperties
<1>4. Broken(<<>>) = b
  BY <1>2, <1>3, OutcomeOfNone
<1>5. ASSUME NEW seq \in Seq(E) PROVE Broken(seq) \in S
  BY <1>1, <1>2, OutcomeIn
<1>6. ASSUME NEW seq \in Seq(E), NEW e \in E
      PROVE  Broken(Append(seq, e)) = BreakStep(Broken(seq), e)
  <2>1. Outcome(h, b, Append(seq, e)) = h[<<Outcome(h, b, seq), e>>]
    BY <1>1, OutcomeOfAppend
  <2> QED BY <2>1, <1>1, <1>2, <1>3, <1>5
<1> QED BY <1>4, <1>5, <1>6 DEF S, E, b

(* _break_long_runs adds full stops and changes no spoken word.            *)
LEMMA BreakText ==
    ASSUME NEW N, NEW A, NEW text \in Seq(AnyWord(N, A))
    PROVE  /\ BreakLongRuns(text) \in Seq(AnyWord(N, A))
           /\ Said(BreakLongRuns(text)) = Said(text)
           /\ text # <<>> => BreakLongRuns(text) # <<>>
<1> DEFINE V == AnyWord(N, A)
           Kept(t) == Said(Broken(t).out) = Said(t) /\ (t # <<>> => Broken(t).out # <<>>)
           P == {t \in Seq(V) : Kept(t)}
<1>0. \A t \in Seq(V) : Broken(t) \in [out : Seq(V), run : Nat]
  BY BrokenOf
<1>1. <<>> \in P
  <2>1. Broken(<<>>) = [out |-> <<>>, run |-> 0]
    BY BrokenOf
  <2> QED BY <2>1, EmptySeq
<1>2. ASSUME NEW t \in Seq(V), NEW w \in V, t \in P PROVE Append(t, w) \in P
  <2> DEFINE acc == Broken(t)
             break == acc.run + w.size > MaxRun /\ ~w.stop
             before == IF break THEN Stopped(acc.out) ELSE acc.out
  <2>1. Broken(Append(t, w)).out = Append(before, w)
    <3>1. Broken(Append(t, w)) = BreakStep(acc, w)
      BY BrokenOf
    <3> QED BY <3>1 DEF BreakStep
  <2>2. acc.out \in Seq(V)
    BY <1>0
  <2>3. before \in Seq(V) /\ Said(before) = Said(acc.out)
    BY <2>2, StoppedText
  <2>4. Said(acc.out) = Said(t)
    BY <1>2
  <2>5. Append(t, w) \in Seq(V)
    BY AppendProperties
  <2> HIDE DEF before, acc
  <2>6. Said(Append(before, w)) = IF w.at = 0 THEN Said(before) ELSE Append(Said(before), <<w.name, w.at>>)
    BY <2>3, SaidAppend
  <2>7. Said(Append(t, w)) = IF w.at = 0 THEN Said(t) ELSE Append(Said(t), <<w.name, w.at>>)
    BY SaidAppend
  <2>8. Append(before, w) # <<>>
    BY <2>3, AppendProperties
  <2>9. Kept(Append(t, w))
    BY <2>1, <2>3, <2>4, <2>6, <2>7, <2>8
  <2> QED BY <2>5, <2>9
<1> HIDE DEF P
<1>3. \A t \in Seq(V) : t \in P
  BY <1>1, <1>2, SequenceInduction
<1>4. BreakLongRuns(text) = Broken(text).out
  BY DEF BreakLongRuns, Broken
<1> QED BY <1>0, <1>3, <1>4 DEF P

-----------------------------------------------------------------------------
(* Pieces of a text.                                                       *)

Numbers(n) == [i \in 1..n |-> i]

(* The places of a text.                                                   *)
LEMMA NumbersOf ==
    ASSUME NEW m \in Nat
    PROVE  /\ Numbers(0) = <<>>
           /\ \A n \in 0..m : Numbers(n) \in Seq(1..m)
           /\ \A n \in 1..m : n - 1 \in 0..m /\ Numbers(n) = Append(Numbers(n - 1), n)
<1>1. Numbers(0) = <<>>
  BY DEF Numbers
<1>2. ASSUME NEW n \in 0..m
      PROVE  /\ Numbers(n) \in Seq(1..m) /\ Len(Numbers(n)) = n
             /\ \A i \in 1..n : Numbers(n)[i] = i
  <2>1. n \in Nat /\ Numbers(n) \in [1..n -> 1..m]
    BY DEF Numbers
  <2>2. Numbers(n) \in Seq(1..m)
    BY <2>1, SeqDef
  <2>3. Len(Numbers(n)) = n
    BY <2>1 DEF Numbers
  <2> QED BY <2>2, <2>3 DEF Numbers
<1>3. ASSUME NEW n \in 1..m
      PROVE  n - 1 \in 0..m /\ Numbers(n) = Append(Numbers(n - 1), n)
  <2> DEFINE a == Numbers(n)
             f == Numbers(n - 1)
             c == Append(f, n)
  <2>1. n - 1 \in 0..m /\ n \in 0..m /\ n - 1 + 1 = n
    OBVIOUS
  <2>2. f \in Seq(1..m) /\ Len(f) = n - 1 /\ \A i \in 1..n - 1 : f[i] = i
    BY <2>1, <1>2
  <2>3. a \in Seq(1..m) /\ Len(a) = n /\ \A i \in 1..n : a[i] = i
    BY <2>1, <1>2
  <2> HIDE DEF a, f
  <2>4. c \in Seq(1..m) /\ Len(c) = n /\ (\A i \in 1..n - 1 : c[i] = f[i]) /\ c[n] = n
    BY <2>1, <2>2, AppendProperties
  <2> HIDE DEF c
  <2>5. \A i \in 1..n : a[i] = c[i]
    <3> SUFFICES ASSUME NEW i \in 1..n PROVE a[i] = c[i]
      OBVIOUS
    <3>1. CASE i = n
      BY <3>1, <2>3, <2>4
    <3>2. CASE i # n
      <4>1. i \in 1..n - 1
        BY <3>2
      <4> QED BY <4>1, <2>2, <2>3, <2>4
    <3> QED BY <3>1, <3>2
  <2>6. a = c
    BY <2>3, <2>4, <2>5, SeqEqual
  <2> QED BY <2>1, <2>6 DEF a, c, f
<1> QED BY <1>1, <1>2, <1>3

(* CutBefore at some of the places.                                        *)
Cut(places, text, cuts) ==
    FoldLeft(LAMBDA pieces, i : CutStep(pieces, i, text, cuts), <<>>, places)

Filled(X) == Seq(X) \ {<<>>}

(* One more word begins a piece or joins the last one.                     *)
LEMMA FilledPieces ==
    ASSUME NEW X
    PROVE  \A pieces \in Seq(Filled(X)) : pieces \in Seq(Seq(X))
BY SeqMonotonic DEF Filled

(* CutBefore place by place.                                               *)
LEMMA CutOf ==
    ASSUME NEW X, NEW text \in Seq(X), NEW cuts
    PROVE  /\ Cut(<<>>, text, cuts) = <<>>
           /\ \A seq \in Seq(1..Len(text)) : Cut(seq, text, cuts) \in Seq(Filled(X))
           /\ \A seq \in Seq(1..Len(text)), e \in 1..Len(text) :
                Cut(Append(seq, e), text, cuts) = CutStep(Cut(seq, text, cuts), e, text, cuts)
<1> DEFINE S == Seq(Filled(X))
           E == 1..Len(text)
           b == <<>>
           h == [p \in S \X E |-> CutStep(p[1], p[2], text, cuts)]
<1>0. b \in S /\ \A a \in S, e \in E : CutStep(a, e, text, cuts) \in S
  <2>1. b \in S
    BY EmptySeq
  <2>2. ASSUME NEW a \in S, NEW e \in E PROVE CutStep(a, e, text, cuts) \in S
    <3> DEFINE w == text[e]
    <3>1. w \in X
      BY ElementOfSeq
    <3>2. <<w>> \in Filled(X)
      BY <3>1, Single DEF Filled
    <3>3. CASE a = <<>> \/ e \in cuts
      <4>1. CutStep(a, e, text, cuts) = Append(a, <<w>>)
        BY <3>3 DEF CutStep
      <4> QED BY <3>2, <4>1, AppendProperties
    <3>4. CASE ~(a = <<>> \/ e \in cuts)
      <4>1. CutStep(a, e, text, cuts) = Append(Front(a), Append(Last(a), w))
        BY <3>4 DEF CutStep
      <4>2. Front(a) \in Seq(Filled(X)) /\ Last(a) \in Filled(X)
        BY <3>4, AsAppend
      <4>3. Append(Last(a), w) \in Filled(X)
        <5> DEFINE l == Last(a)
        <5>1. l \in Seq(X)
          BY <4>2 DEF Filled
        <5> HIDE DEF l, w
        <5>2. Append(l, w) \in Seq(X) /\ Append(l, w) # <<>>
          BY <3>1, <5>1, AppendProperties
        <5> QED BY <5>2 DEF Filled, l
      <4> QED BY <4>1, <4>2, <4>3, AppendProperties
    <3> QED BY <3>3, <3>4
  <2> QED BY <2>1, <2>2
<1> HIDE DEF S, E
<1>1. b \in S /\ h \in StepsOn(S, E) /\ \A a \in S, e \in E : h[<<a, e>>] = CutStep(a, e, text, cuts)
  BY <1>0 DEF StepsOn
<1>2. ASSUME NEW seq \in Seq(E) PROVE Cut(seq, text, cuts) = Outcome(h, b, seq)
  <2> DEFINE Table(it) == it = [s \in SUBSET DOMAIN seq |->
                                  IF s = {} THEN b ELSE CutStep(it[s \ {Max(s)}], seq[Max(s)], text, cuts)]
  <2>1. Cut(seq, text, cuts) = (CHOOSE it : Table(it))[DOMAIN seq]
    BY DEF Cut, FoldLeft, MapThenFoldSet
  <2> HIDE DEF b, h
  <2>2. PICK it \in [SUBSET DOMAIN seq -> S] : FoldTable(it, h, b, seq)
    BY <1>1, FoldTableOf
  <2>3. Table(it)
    <3>1. ASSUME NEW s \in SUBSET DOMAIN seq, s # {}
          PROVE  h[<<it[s \ {Max(s)}], seq[Max(s)]>>] = CutStep(it[s \ {Max(s)}], seq[Max(s)], text, cuts)
      BY <1>1, <3>1, MaxOfDomain
    <3> QED BY <2>2, <3>1 DEF FoldTable
  <2> DEFINE jt == CHOOSE jt : Table(jt)
  <2>4. Table(jt)
    BY <2>3
  <2> HIDE DEF jt
  <2>5. Follows(jt, h, b, seq, S)
    <3>1. jt[{}] = b
      BY <2>4
    <3>2. ASSUME NEW s \in SUBSET DOMAIN seq, s # {}, jt[s \ {Max(s)}] \in S
          PROVE  jt[s] = h[<<jt[s \ {Max(s)}], seq[Max(s)]>>]
      <4>1. jt[s] = CutStep(jt[s \ {Max(s)}], seq[Max(s)], text, cuts)
        BY <2>4, <3>2
      <4>2. seq[Max(s)] \in E
        BY <3>2, MaxOfDomain
      <4> QED BY <1>1, <3>2, <4>1, <4>2
    <3> QED BY <3>1, <3>2 DEF Follows
  <2> HIDE DEF Table
  <2>6. jt[DOMAIN seq] = Outcome(h, b, seq)
    BY <1>1, <2>5, FoldTableOutcome
  <2> QED BY <2>1, <2>6 DEF jt
<1> HIDE DEF h, b
<1>3. <<>> \in Seq(E) /\ \A seq \in Seq(E), e \in E : Append(seq, e) \in Seq(E)
  BY EmptySeq, AppendProperties
<1>4. Cut(<<>>, text, cuts) = b
  BY <1>2, <1>3, OutcomeOfNone
<1>5. ASSUME NEW seq \in Seq(E) PROVE Cut(seq, text, cuts) \in S
  BY <1>1, <1>2, OutcomeIn
<1>6. ASSUME NEW seq \in Seq(E), NEW e \in E
      PROVE  Cut(Append(seq, e), text, cuts) = CutStep(Cut(seq, text, cuts), e, text, cuts)
  <2>1. Outcome(h, b, Append(seq, e)) = h[<<Outcome(h, b, seq), e>>]
    BY <1>1, OutcomeOfAppend
  <2> QED BY <2>1, <1>1, <1>2, <1>3, <1>5
<1> QED BY <1>4, <1>5, <1>6 DEF S, E, b

(* One place after the other.                                              *)
LEMMA CutNext ==
    ASSUME NEW X, NEW text \in Seq(X), NEW cuts
    PROVE  /\ Cut(Numbers(0), text, cuts) = <<>>
           /\ \A k \in 0..Len(text) : Cut(Numbers(k), text, cuts) \in Seq(Filled(X))
           /\ \A k \in 1..Len(text) :
                Cut(Numbers(k), text, cuts) = CutStep(Cut(Numbers(k - 1), text, cuts), k, text, cuts)
           /\ CutBefore(text, cuts) = Cut(Numbers(Len(text)), text, cuts)
<1>1. Len(text) \in Nat /\ DOMAIN text = 1..Len(text)
  BY LenProperties
<1>2. Cut(Numbers(0), text, cuts) = <<>>
  BY NumbersOf, CutOf
<1>3. ASSUME NEW k \in 0..Len(text) PROVE Cut(Numbers(k), text, cuts) \in Seq(Filled(X))
  <2>1. Numbers(k) \in Seq(1..Len(text))
    BY <1>1, NumbersOf
  <2> QED BY <2>1, CutOf
<1>4. ASSUME NEW k \in 1..Len(text)
      PROVE  Cut(Numbers(k), text, cuts) = CutStep(Cut(Numbers(k - 1), text, cuts), k, text, cuts)
  <2> DEFINE f == Numbers(k - 1)
  <2>1. f \in Seq(1..Len(text)) /\ Numbers(k) = Append(f, k)
    BY <1>1, NumbersOf
  <2> HIDE DEF f
  <2>2. Cut(Append(f, k), text, cuts) = CutStep(Cut(f, text, cuts), k, text, cuts)
    BY <2>1, CutOf
  <2> QED BY <2>1, <2>2 DEF f
<1>5. CutBefore(text, cuts) = Cut(Numbers(Len(text)), text, cuts)
  BY <1>1 DEF CutBefore, Cut, Numbers, FoldLeftDomain
<1> QED BY <1>2, <1>3, <1>4, <1>5

(* The pieces of the first places, joined, are the first words.            *)
LEMMA CutJoined ==
    ASSUME NEW X, NEW pieces \in Seq(Filled(X)), NEW text \in Seq(X), NEW i \in 1..Len(text), NEW cuts
    PROVE  FlattenSeq(CutStep(pieces, i, text, cuts)) = Append(FlattenSeq(pieces), text[i])
<1> DEFINE w == text[i]
           all == FlattenSeq(pieces)
<1>1. w \in X /\ pieces \in Seq(Seq(X)) /\ all \in Seq(X)
  BY ElementOfSeq, FilledPieces, FlattenAppend
<1>2. <<w>> \in Seq(X)
  BY <1>1, Single
<1>3. CASE pieces = <<>> \/ i \in cuts
  <2>1. CutStep(pieces, i, text, cuts) = Append(pieces, <<w>>)
    BY <1>3 DEF CutStep
  <2>2. FlattenSeq(Append(pieces, <<w>>)) = all \o <<w>>
    BY <1>1, <1>2, FlattenAppend
  <2>3. all \o <<w>> = Append(all, w)
    <3> HIDE DEF all, w
    <3> QED BY <1>1, AppendIsConcat
  <2> QED BY <2>1, <2>2, <2>3
<1>4. CASE ~(pieces = <<>> \/ i \in cuts)
  <2> DEFINE f == Front(pieces)
             l == Last(pieces)
             lw == Append(l, w)
             ff == FlattenSeq(f)
  <2>1. CutStep(pieces, i, text, cuts) = Append(f, lw)
    BY <1>4 DEF CutStep
  <2>2. f \in Seq(Seq(X)) /\ l \in Seq(X) /\ pieces = Append(f, l)
    BY <1>1, <1>4, AsAppend
  <2>3. lw \in Seq(X) /\ ff \in Seq(X)
    BY <1>1, <2>2, AppendProperties, FlattenAppend
  <2> HIDE DEF f, l, w
  <2>4. FlattenSeq(Append(f, l)) = ff \o l
    BY <2>2, FlattenAppend
  <2>6. ff \o lw = Append(ff \o l, w)
    <3> HIDE DEF ff
    <3> QED BY <1>1, <2>2, <2>3, ConcatAppend
  <2> HIDE DEF lw
  <2>5. FlattenSeq(Append(f, lw)) = ff \o lw
    BY <2>2, <2>3, FlattenAppend
  <2> QED BY <2>1, <2>2, <2>4, <2>5, <2>6 DEF w
<1> QED BY <1>3, <1>4

(* A text is cut into pieces that are not empty and joined are the text.   *)
LEMMA CutText ==
    ASSUME NEW X, NEW text \in Seq(X), NEW cuts
    PROVE  /\ CutBefore(text, cuts) \in Seq(Filled(X))
           /\ FlattenSeq(CutBefore(text, cuts)) = text
           /\ text # <<>> => CutBefore(text, cuts) # <<>>
<1> DEFINE n == Len(text)
           C(k) == Cut(Numbers(k), text, cuts)
           P == {k \in 0..n : FlattenSeq(C(k)) = SubSeq(text, 1, k)}
<1>1. n \in Nat /\ \A k \in 1..n : k \in 0..n /\ k - 1 \in 0..n
  BY LenProperties
<1>2. \A k \in 0..n : C(k) \in Seq(Filled(X))
  BY CutNext
<1>3. 0 \in P
  <2>1. C(0) = <<>> /\ FlattenSeq(<<>>) = <<>>
    BY CutNext, FlattenAppend
  <2>2. SubSeq(text, 1, 0) = <<>>
    BY SubSeqEmpty
  <2>3. FlattenSeq(C(0)) = SubSeq(text, 1, 0)
    BY <2>1, <2>2
  <2>4. 0 \in 0..n
    BY <1>1
  <2> QED BY <2>3, <2>4
<1>4. ASSUME NEW k \in 1..n, k - 1 \in P PROVE k \in P
  <2> DEFINE c == C(k - 1)
  <2>1. C(k) = CutStep(c, k, text, cuts)
    BY CutNext
  <2>2. c \in Seq(Filled(X))
    BY <1>1, <1>2
  <2>3. FlattenSeq(c) = SubSeq(text, 1, k - 1)
    BY <1>4
  <2> HIDE DEF c
  <2>4. FlattenSeq(CutStep(c, k, text, cuts)) = Append(FlattenSeq(c), text[k])
    BY <2>2, CutJoined
  <2> DEFINE s == SubSeq(text, 1, k - 1)
  <2>5. SubSeq(text, 1, k) = s \o <<text[k]>>
    <3>1. 1 \in 1..Len(text) /\ k \in 1..Len(text)
      BY <1>1
    <3> QED BY <3>1, SubSeqRecursiveSecond
  <2>6. s \in Seq(X) /\ text[k] \in X
    <3>1. \A i \in 1..k - 1 : text[i] \in X
      BY <1>1, ElementOfSeq
    <3>2. text[k] \in X
      BY ElementOfSeq
    <3> QED BY <3>1, <3>2, SubSeqProperties
  <2>7. s \o <<text[k]>> = Append(s, text[k])
    <3> HIDE DEF s
    <3> QED BY <2>6, AppendIsConcat
  <2>8. FlattenSeq(C(k)) = SubSeq(text, 1, k)
    BY <2>1, <2>3, <2>4, <2>5, <2>7
  <2> QED BY <1>1, <2>8
<1> HIDE DEF P
<1>5. \A k \in 0..n : k \in P
  <2> HIDE DEF n
  <2> QED BY <1>1, <1>3, <1>4, InductionTo
<1>6. FlattenSeq(C(n)) = SubSeq(text, 1, n)
  BY <1>1, <1>5 DEF P
<1>7. SubSeq(text, 1, n) = text
  BY SubSeqFull
<1>8. CutBefore(text, cuts) = C(n)
  BY CutNext
<1>9. C(n) \in Seq(Filled(X))
  BY <1>1, <1>2
<1>10. C(n) = <<>> => text = <<>>
  BY <1>6, <1>7, FlattenAppend
<1> QED BY <1>6, <1>7, <1>8, <1>9, <1>10

-----------------------------------------------------------------------------
(* Sizes.                                                                  *)

(* The bytes of a text, and its weight.                                    *)
LEMMA BytesOf ==
    ASSUME NEW N, NEW A, NEW t \in Seq(AnyWord(N, A))
    PROVE  /\ Bytes(t) \in Nat /\ Weight(t) \in Nat
           /\ t = <<>> => Bytes(t) = 0 /\ Weight(t) = 0
           /\ t # <<>> => Weight(t) = Bytes(t) + 1
<1>1. Weight(t) \in Nat /\ Weight(<<>>) = 0
  BY WeightOf
<1>2. CASE t = <<>>
  BY <1>1, <1>2 DEF Bytes
<1>3. CASE t # <<>>
  <2> DEFINE f == Front(t)
             w == Last(t)
  <2>1. f \in Seq(AnyWord(N, A)) /\ w \in AnyWord(N, A) /\ t = Append(f, w)
    BY <1>3, AsAppend
  <2> HIDE DEF f, w
  <2>2. Weight(Append(f, w)) = Weight(f) + w.size + 1
    BY <2>1, WeightAppend
  <2>3. Weight(f) \in Nat /\ w.size \in Nat
    BY <2>1, WeightOf, WordFacts
  <2>4. Bytes(t) = Weight(t) - 1
    BY <1>3 DEF Bytes
  <2> QED BY <1>1, <1>3, <2>1, <2>2, <2>3, <2>4
<1> QED BY <1>2, <1>3

(* A word as long as a sentence.                                           *)
BigWord(t) == \E i \in DOMAIN t : t[i].size >= LongSentence

(* A word of the length of a sentence, in one more word.                   *)
LEMMA BigAppend ==
    ASSUME NEW N, NEW A, NEW t \in Seq(AnyWord(N, A)), NEW w \in AnyWord(N, A)
    PROVE  BigWord(Append(t, w)) <=> BigWord(t) \/ w.size >= LongSentence
<1> DEFINE u == Append(t, w)
<1>1. /\ u \in Seq(AnyWord(N, A)) /\ Len(u) = Len(t) + 1
      /\ (\A i \in 1..Len(t) : u[i] = t[i]) /\ u[Len(t) + 1] = w
  BY AppendProperties
<1>2. Len(t) \in Nat /\ DOMAIN t = 1..Len(t)
  BY LenProperties
<1> HIDE DEF u
<1>3. DOMAIN u = 1..Len(t) + 1
  BY <1>1, LenProperties
<1>4. ASSUME BigWord(t) PROVE BigWord(u)
  <2>1. PICK i \in 1..Len(t) : t[i].size >= LongSentence
    BY <1>2, <1>4 DEF BigWord
  <2>2. i \in DOMAIN u /\ u[i] = t[i]
    BY <1>1, <1>2, <1>3
  <2> QED BY <2>1, <2>2 DEF BigWord
<1>5. ASSUME w.size >= LongSentence PROVE BigWord(u)
  <2>1. Len(t) + 1 \in DOMAIN u
    BY <1>2, <1>3
  <2> QED BY <1>1, <1>5, <2>1 DEF BigWord
<1>6. ASSUME BigWord(u) PROVE BigWord(t) \/ w.size >= LongSentence
  <2>1. PICK i \in 1..Len(t) + 1 : u[i].size >= LongSentence
    BY <1>3, <1>6 DEF BigWord
  <2>2. CASE i = Len(t) + 1
    BY <1>1, <2>1, <2>2
  <2>3. CASE i # Len(t) + 1
    <3>1. i \in DOMAIN t /\ u[i] = t[i]
      BY <1>1, <1>2, <2>3
    <3> QED BY <2>1, <3>1 DEF BigWord
  <2> QED BY <2>2, <2>3
<1> QED BY <1>4, <1>5, <1>6 DEF u

(* And in two texts.                                                       *)
LEMMA BigConcat ==
    ASSUME NEW N, NEW A, NEW s \in Seq(AnyWord(N, A)), NEW t \in Seq(AnyWord(N, A)),
           BigWord(s) \/ BigWord(t)
    PROVE  BigWord(s \o t)
<1> DEFINE u == s \o t
<1>1. /\ u \in Seq(AnyWord(N, A)) /\ Len(u) = Len(s) + Len(t)
      /\ \A i \in 1..Len(s) + Len(t) : u[i] = IF i <= Len(s) THEN s[i] ELSE t[i - Len(s)]
  BY ConcatProperties
<1>2. Len(s) \in Nat /\ DOMAIN s = 1..Len(s) /\ Len(t) \in Nat /\ DOMAIN t = 1..Len(t)
  BY LenProperties
<1> HIDE DEF u
<1>3. DOMAIN u = 1..Len(s) + Len(t)
  BY <1>1, LenProperties
<1>4. ASSUME BigWord(s) PROVE BigWord(u)
  <2>1. PICK i \in 1..Len(s) : s[i].size >= LongSentence
    BY <1>2, <1>4 DEF BigWord
  <2>2. i \in DOMAIN u /\ u[i] = s[i]
    BY <1>1, <1>2, <1>3
  <2> QED BY <2>1, <2>2 DEF BigWord
<1>5. ASSUME BigWord(t) PROVE BigWord(u)
  <2>1. PICK i \in 1..Len(t) : t[i].size >= LongSentence
    BY <1>2, <1>5 DEF BigWord
  <2>2. Len(s) + i \in DOMAIN u /\ ~(Len(s) + i <= Len(s)) /\ (Len(s) + i) - Len(s) = i
    BY <1>2, <1>3
  <2>3. u[Len(s) + i] = t[i]
    BY <1>1, <1>3, <2>2
  <2> QED BY <2>1, <2>2, <2>3 DEF BigWord
<1> QED BY <1>4, <1>5 DEF u

(* And after a full stop was added.                                        *)
LEMMA BigStopped ==
    ASSUME NEW N, NEW A, NEW t \in Seq(AnyWord(N, A)), BigWord(t)
    PROVE  BigWord(Stopped(t))
<1>1. CASE t = <<>> \/ Last(t).stop
  BY <1>1 DEF Stopped
<1>2. CASE ~(t = <<>> \/ Last(t).stop)
  <2> DEFINE f == Front(t)
             w == Last(t)
  <2>1. f \in Seq(AnyWord(N, A)) /\ w \in AnyWord(N, A) /\ t = Append(f, w)
    BY <1>2, AsAppend
  <2>2. Stopped(t) = Append(f, FullStop(w))
    BY <1>2 DEF Stopped, FullStop
  <2> HIDE DEF f, w
  <2>3. /\ FullStop(w) \in AnyWord(N, A) /\ FullStop(w).size = w.size + 1 /\ w.size \in Nat
    BY <2>1, WordFacts
  <2>4. BigWord(f) \/ w.size >= LongSentence
    BY <2>1, BigAppend
  <2>5. LongSentence \in Nat
    BY TextAssumption
  <2>6. BigWord(f) \/ FullStop(w).size >= LongSentence
    BY <2>3, <2>4, <2>5
  <2> DEFINE v == FullStop(w)
  <2> HIDE DEF v
  <2>7. BigWord(Append(f, v))
    BY <2>1, <2>3, <2>6, BigAppend DEF v
  <2> QED BY <2>2, <2>7 DEF v
<1> QED BY <1>1, <1>2

(* What a sentence may weigh, without its full stop and with it.           *)
Fitting(t) == Bytes(t) <= LongSentence \/ BigWord(t)
Short(t) == Bytes(t) <= LongSentence + 1 \/ BigWord(t)

(* A full stop adds at most one byte.                                      *)
LEMMA StoppedShort ==
    ASSUME NEW N, NEW A, NEW t \in Seq(AnyWord(N, A)), Fitting(t)
    PROVE  Short(Stopped(t))
<1>1. CASE BigWord(t)
  BY <1>1, BigStopped DEF Short
<1>2. CASE Bytes(t) <= LongSentence
  <2> DEFINE u == Stopped(t)
  <2>1. u \in Seq(AnyWord(N, A)) /\ Weight(u) <= Weight(t) + 1 /\ (t = <<>> => u = <<>>)
        /\ (t # <<>> => u # <<>>)
    BY StoppedText
  <2> HIDE DEF u
  <2>2. /\ Bytes(t) \in Nat /\ Weight(t) \in Nat /\ (t # <<>> => Weight(t) = Bytes(t) + 1)
        /\ (t = <<>> => Bytes(t) = 0)
    BY BytesOf
  <2>3. /\ Bytes(u) \in Nat /\ Weight(u) \in Nat /\ (u # <<>> => Weight(u) = Bytes(u) + 1)
    BY <2>1, BytesOf
  <2>4. LongSentence \in Nat
    BY TextAssumption
  <2>5. Bytes(u) <= LongSentence + 1
    <3>1. CASE t = <<>>
      BY <2>1, <2>2, <2>3, <2>4, <1>2, <3>1
    <3>2. CASE t # <<>>
      BY <2>1, <2>2, <2>3, <2>4, <1>2, <3>2
    <3> QED BY <3>1, <3>2
  <2> QED BY <2>5 DEF Short, u
<1> QED BY <1>1, <1>2 DEF Fitting

-----------------------------------------------------------------------------
(* Parts that say something, and sentences.                                *)

(* A text that says something, and one that ends with a full stop.         *)
Voiced(N, A) == {t \in Seq(AnyWord(N, A)) : Said(t) # <<>>}
Finished(N, A) == {t \in Voiced(N, A) : Last(t).stop}

(* A text that says something still does after a full stop was added.      *)
LEMMA VoicedOf ==
    ASSUME NEW N, NEW A, NEW t \in Voiced(N, A)
    PROVE  /\ t \in Seq(AnyWord(N, A)) /\ Said(t) # <<>> /\ t # <<>>
           /\ Stopped(t) \in Finished(N, A) /\ Said(Stopped(t)) = Said(t)
<1>1. t \in Seq(AnyWord(N, A)) /\ Said(t) # <<>>
  BY DEF Voiced
<1>2. t # <<>>
  BY <1>1, SaidOf
<1>3. Stopped(t) \in Seq(AnyWord(N, A)) /\ Said(Stopped(t)) = Said(t) /\ Last(Stopped(t)).stop
  BY <1>1, <1>2, StoppedText
<1> QED BY <1>1, <1>2, <1>3 DEF Finished, Voiced

(* A text says something if its end does.                                  *)
LEMMA VoicedConcat ==
    ASSUME NEW N, NEW A, NEW s \in Seq(AnyWord(N, A)), NEW t \in Voiced(N, A)
    PROVE  s \o t \in Voiced(N, A)
<1> DEFINE x == Said(s)
           y == Said(t)
<1>1. t \in Seq(AnyWord(N, A)) /\ y # <<>>
  BY DEF Voiced
<1>2. x \in Seq(Places(N, A)) /\ y \in Seq(Places(N, A))
  BY <1>1, SaidOf
<1>3. s \o t \in Seq(AnyWord(N, A)) /\ Said(s \o t) = x \o y
  BY <1>1, ConcatProperties, SaidConcat
<1> HIDE DEF x, y
<1>4. x \o y # <<>>
  BY <1>1, <1>2, ConcatEqualIffEmpty
<1> QED BY <1>3, <1>4 DEF Voiced

(* A text says something if its last word is spoken.                       *)
LEMMA VoicedAppend ==
    ASSUME NEW N, NEW A, NEW s \in Seq(AnyWord(N, A)), NEW w \in AnyWord(N, A), w.at # 0
    PROVE  Append(s, w) \in Voiced(N, A)
<1> DEFINE p == <<w.name, w.at>>
           x == Said(s)
<1>1. Append(s, w) \in Seq(AnyWord(N, A)) /\ Said(Append(s, w)) = Append(x, p)
  BY AppendProperties, SaidAppend
<1>2. p \in Places(N, A) /\ x \in Seq(Places(N, A))
  BY WordFacts, SaidOf DEF Places
<1> HIDE DEF p, x
<1>3. Append(x, p) # <<>>
  BY <1>2, AppendProperties
<1> QED BY <1>1, <1>3 DEF Voiced

(* Every text of printed words says something.                             *)
LEMMA VoicedFilled ==
    ASSUME NEW N, NEW A, 0 \notin A
    PROVE  Filled(AnyWord(N, A)) \subseteq Voiced(N, A)
<1> SUFFICES ASSUME NEW t \in Seq(AnyWord(N, A)), t # <<>> PROVE t \in Voiced(N, A)
  BY DEF Filled
<1> DEFINE f == Front(t)
           w == Last(t)
<1>1. f \in Seq(AnyWord(N, A)) /\ w \in AnyWord(N, A) /\ t = Append(f, w)
  BY AsAppend
<1> HIDE DEF f, w
<1>w. w.at \in A
  BY <1>1, WordFacts
<1>2. w.at # 0
  BY <1>w
<1>3. Append(f, w) \in Voiced(N, A)
  BY <1>1, <1>2, VoicedAppend
<1> QED BY <1>1, <1>3

(* Packing before the last piece is added, and its states.                 *)
Packed(parts, limit) ==
    FoldLeft(LAMBDA acc, part : PackStep(acc, part, limit),
             [out |-> <<>>, current |-> <<>>], parts)

PackState(N, A) == [out : Seq(Finished(N, A)), current : Voiced(N, A) \cup {<<>>}]

(* One step of packing.                                                    *)
LEMMA PackStepCases ==
    ASSUME NEW N, NEW A, NEW acc \in PackState(N, A), NEW part \in Voiced(N, A), NEW limit
    PROVE  /\ acc.out \in Seq(Finished(N, A)) /\ acc.current \in Seq(AnyWord(N, A))
           /\ PackStep(acc, part, limit) \in PackState(N, A)
           /\ PackStep(acc, part, limit).current # <<>>
           /\ IF Bytes(acc.current) + 1 + Bytes(part) > limit
              THEN /\ PackStep(acc, part, limit).current = part
                   /\ PackStep(acc, part, limit).out
                        = IF acc.current = <<>> THEN acc.out
                          ELSE Append(acc.out, Stopped(acc.current))
              ELSE /\ PackStep(acc, part, limit).current = acc.current \o part
                   /\ PackStep(acc, part, limit).out = acc.out
<1>1. acc.out \in Seq(Finished(N, A)) /\ acc.current \in Voiced(N, A) \cup {<<>>}
      /\ acc \in [out : Seq(Finished(N, A)), current : Voiced(N, A) \cup {<<>>}]
  BY DEF PackState
<1>2. acc.current \in Seq(AnyWord(N, A))
  BY <1>1, EmptySeq DEF Voiced
<1>3. CASE Bytes(acc.current) + 1 + Bytes(part) > limit
  <2> DEFINE o == IF acc.current = <<>> THEN acc.out ELSE Append(acc.out, Stopped(acc.current))
  <2>1. PackStep(acc, part, limit) = [out |-> o, current |-> part]
    BY <1>3 DEF PackStep
  <2>2. o \in Seq(Finished(N, A))
    <3>1. CASE acc.current = <<>>
      BY <1>1, <3>1
    <3>2. CASE acc.current # <<>>
      <4>1. Stopped(acc.current) \in Finished(N, A)
        BY <1>1, <3>2, VoicedOf
      <4> QED BY <1>1, <3>2, <4>1, AppendProperties
    <3> QED BY <3>1, <3>2
  <2>3. part # <<>>
    BY VoicedOf
  <2> HIDE DEF o
  <2>4. PackStep(acc, part, limit) \in PackState(N, A)
    BY <2>1, <2>2 DEF PackState
  <2>5. PackStep(acc, part, limit).current = part /\ PackStep(acc, part, limit).out = o
    BY <2>1
  <2> QED BY <1>1, <1>2, <1>3, <2>3, <2>4, <2>5 DEF o
<1>4. CASE ~(Bytes(acc.current) + 1 + Bytes(part) > limit)
  <2> DEFINE c == acc.current \o part
  <2>1. PackStep(acc, part, limit) = [acc EXCEPT !.current = c]
    BY <1>4 DEF PackStep
  <2>2. c \in Voiced(N, A)
    BY <1>2, VoicedConcat
  <2>3. c # <<>>
    BY <2>2, VoicedOf
  <2> HIDE DEF c
  <2>4. PackStep(acc, part, limit).current = c /\ PackStep(acc, part, limit).out = acc.out
    BY <1>1, <2>1
  <2>5. PackStep(acc, part, limit) \in PackState(N, A)
    BY <1>1, <2>1, <2>2, Zenon DEF PackState
  <2> QED BY <1>1, <1>2, <1>4, <2>3, <2>4, <2>5 DEF c
<1> QED BY <1>3, <1>4

(* What is shown of packing.                                               *)
Packing(N, A, limit) ==
    /\ Packed(<<>>, limit) = [out |-> <<>>, current |-> <<>>]
    /\ \A seq \in Seq(Voiced(N, A)) : Packed(seq, limit) \in PackState(N, A)
    /\ \A seq \in Seq(Voiced(N, A)), e \in Voiced(N, A) :
         Packed(Append(seq, e), limit) = PackStep(Packed(seq, limit), e, limit)

(* Packing follows its step.                                               *)
LEMMA PackingHolds ==
    ASSUME NEW N, NEW A, NEW bound
    PROVE  Packing(N, A, bound)
<1> DEFINE S == PackState(N, A)
           E == Voiced(N, A)
           b == [out |-> <<>>, current |-> <<>>]
           h == [p \in S \X E |-> PackStep(p[1], p[2], bound)]
<1>0. b \in S /\ \A a \in S, e \in E : PackStep(a, e, bound) \in S
  <2>1. b \in S
    BY EmptySeq DEF PackState
  <2> QED BY <2>1, PackStepCases
<1> HIDE DEF S, E
<1>1. b \in S /\ h \in StepsOn(S, E) /\ \A a \in S, e \in E : h[<<a, e>>] = PackStep(a, e, bound)
  BY <1>0 DEF StepsOn
<1>2. ASSUME NEW seq \in Seq(E) PROVE Packed(seq, bound) = Outcome(h, b, seq)
  <2> DEFINE Table(it) == it = [s \in SUBSET DOMAIN seq |->
                                  IF s = {} THEN b ELSE PackStep(it[s \ {Max(s)}], seq[Max(s)], bound)]
  <2>1. Packed(seq, bound) = (CHOOSE it : Table(it))[DOMAIN seq]
    BY DEF Packed, FoldLeft, MapThenFoldSet
  <2> HIDE DEF b, h
  <2>2. PICK it \in [SUBSET DOMAIN seq -> S] : FoldTable(it, h, b, seq)
    BY <1>1, FoldTableOf
  <2>3. Table(it)
    <3>1. ASSUME NEW s \in SUBSET DOMAIN seq, s # {}
          PROVE  h[<<it[s \ {Max(s)}], seq[Max(s)]>>] = PackStep(it[s \ {Max(s)}], seq[Max(s)], bound)
      BY <1>1, <3>1, MaxOfDomain
    <3> QED BY <2>2, <3>1 DEF FoldTable
  <2> DEFINE jt == CHOOSE jt : Table(jt)
  <2>4. Table(jt)
    BY <2>3
  <2> HIDE DEF jt
  <2>5. Follows(jt, h, b, seq, S)
    <3>1. jt[{}] = b
      BY <2>4
    <3>2. ASSUME NEW s \in SUBSET DOMAIN seq, s # {}, jt[s \ {Max(s)}] \in S
          PROVE  jt[s] = h[<<jt[s \ {Max(s)}], seq[Max(s)]>>]
      <4>1. jt[s] = PackStep(jt[s \ {Max(s)}], seq[Max(s)], bound)
        BY <2>4, <3>2
      <4>2. seq[Max(s)] \in E
        BY <3>2, MaxOfDomain
      <4> QED BY <1>1, <3>2, <4>1, <4>2
    <3> QED BY <3>1, <3>2 DEF Follows
  <2> HIDE DEF Table
  <2>6. jt[DOMAIN seq] = Outcome(h, b, seq)
    BY <1>1, <2>5, FoldTableOutcome
  <2> QED BY <2>1, <2>6 DEF jt
<1> HIDE DEF h, b
<1>3. <<>> \in Seq(E) /\ \A seq \in Seq(E), e \in E : Append(seq, e) \in Seq(E)
  BY EmptySeq, AppendProperties
<1>4. Packed(<<>>, bound) = b
  BY <1>2, <1>3, OutcomeOfNone
<1>5. ASSUME NEW seq \in Seq(E) PROVE Packed(seq, bound) \in S
  BY <1>1, <1>2, OutcomeIn
<1>6. ASSUME NEW seq \in Seq(E), NEW e \in E
      PROVE  Packed(Append(seq, e), bound) = PackStep(Packed(seq, bound), e, bound)
  <2>1. Outcome(h, b, Append(seq, e)) = h[<<Outcome(h, b, seq), e>>]
    BY <1>1, OutcomeOfAppend
  <2> QED BY <2>1, <1>1, <1>2, <1>3, <1>5
<1> QED BY <1>4, <1>5, <1>6 DEF S, E, b, Packing

(* Packing keeps within its states.                                        *)
LEMMA PackedOf ==
    ASSUME NEW N, NEW A, NEW limit
    PROVE  /\ Packed(<<>>, limit) = [out |-> <<>>, current |-> <<>>]
           /\ \A parts \in Seq(Voiced(N, A)) : Packed(parts, limit) \in PackState(N, A)
BY PackingHolds DEF Packing

(* Packing of one more part.                                               *)
LEMMA PackedNext ==
    ASSUME NEW N, NEW A, NEW limit, NEW parts \in Seq(Voiced(N, A)), NEW part \in Voiced(N, A)
    PROVE  Packed(Append(parts, part), limit) = PackStep(Packed(parts, limit), part, limit)
<1>1. Packing(N, A, limit)
  BY PackingHolds
<1> QED BY <1>1 DEF Packing

(* Packing says what its parts say, and each piece ends with a full stop.  *)
LEMMA PackText ==
    ASSUME NEW N, NEW A, NEW parts \in Seq(Voiced(N, A)), parts # <<>>, NEW limit
    PROVE  /\ Pack(parts, limit) \in Seq(Finished(N, A))
           /\ Said(FlattenSeq(Pack(parts, limit))) = Said(FlattenSeq(parts))
<1> DEFINE V == AnyWord(N, A)
           Y == Voiced(N, A)
           Done(acc) == Said(FlattenSeq(acc.out)) \o Said(acc.current)
           P == {ps \in Seq(Y) : /\ Done(Packed(ps, limit)) = Said(FlattenSeq(ps))
                                 /\ ps # <<>> => Packed(ps, limit).current # <<>>}
<1>0. /\ \A ps \in Seq(Y) : Packed(ps, limit) \in PackState(N, A)
      /\ \A ps \in Seq(Y) : ps \in Seq(Seq(V))
      /\ \A ps \in Seq(Finished(N, A)) : ps \in Seq(Seq(V))
  <2>1. Y \subseteq Seq(V) /\ Finished(N, A) \subseteq Seq(V)
    BY DEF Finished, Voiced
  <2> QED BY <2>1, PackedOf, SeqMonotonic
<1>1. <<>> \in P
  <2>1. Packed(<<>>, limit) = [out |-> <<>>, current |-> <<>>]
    BY PackedOf
  <2>2. FlattenSeq(<<>>) = <<>> /\ Said(<<>>) = <<>> /\ <<>> \in Seq(Y)
    BY FlattenAppend, SaidOf, EmptySeq
  <2>3. <<>> \o <<>> = <<>>
    BY EmptySeq, ConcatEmptySeq
  <2> DEFINE none == Packed(<<>>, limit)
  <2>4. none.out = <<>> /\ none.current = <<>>
    BY <2>1
  <2> HIDE DEF none
  <2>5. Done(none) = Said(FlattenSeq(<<>>))
    BY <2>2, <2>3, <2>4
  <2> HIDE DEF Done
  <2>6. Done(Packed(<<>>, limit)) = Said(FlattenSeq(<<>>))
    BY <2>5 DEF none
  <2> HIDE DEF Y
  <2> QED BY <2>2, <2>6
<1>2. ASSUME NEW ps \in Seq(Y), NEW part \in Y, ps \in P PROVE Append(ps, part) \in P
  <2> DEFINE acc == Packed(ps, limit)
             new == PackStep(acc, part, limit)
             z == Said(part)
  <2>a. Packed(Append(ps, part), limit) = new
    BY PackedNext
  <2>b. Append(ps, part) \in Seq(Y)
    <3> HIDE DEF Y
    <3> QED BY AppendProperties
  <2>1. Packed(Append(ps, part), limit) = new /\ Append(ps, part) \in Seq(Y)
    BY <2>a, <2>b
  <2>2. acc \in PackState(N, A) /\ Done(acc) = Said(FlattenSeq(ps))
    BY <1>0, <1>2
  <2>3. part \in Seq(V)
    BY VoicedOf
  <2>4. /\ FlattenSeq(Append(ps, part)) = FlattenSeq(ps) \o part
        /\ FlattenSeq(ps) \in Seq(V)
    BY <1>0, <2>3, FlattenAppend
  <2>5. Said(FlattenSeq(Append(ps, part))) = Done(acc) \o z
    <3> DEFINE f == FlattenSeq(ps)
    <3> HIDE DEF f
    <3>1. Said(f \o part) = Said(f) \o Said(part)
      BY <2>3, <2>4, SaidConcat DEF f
    <3> QED BY <2>2, <2>4, <3>1 DEF f
  <2> HIDE DEF acc
  <2>6. Done(new) = Done(acc) \o z
    <3> DEFINE o == acc.out
               c == acc.current
               x == Said(FlattenSeq(o))
               y == Said(c)
    <3>1. /\ o \in Seq(Finished(N, A)) /\ o \in Seq(Seq(V)) /\ c \in Seq(V)
          /\ (c # <<>> => c \in Voiced(N, A))
      BY <1>0, <2>2, PackStepCases DEF PackState
    <3>2. FlattenSeq(o) \in Seq(V)
      BY <3>1, FlattenAppend
    <3>3. x \in Seq(Places(N, A)) /\ y \in Seq(Places(N, A)) /\ z \in Seq(Places(N, A))
      BY <2>3, <3>1, <3>2, SaidOf
    <3>4. CASE Bytes(c) + 1 + Bytes(part) > limit
      <4>1. new.current = part /\ new.out = IF c = <<>> THEN o ELSE Append(o, Stopped(c))
        BY <2>2, <3>4, PackStepCases
      <4>2. CASE c = <<>>
        <5>1. y = <<>>
          BY <4>2, SaidOf
        <5>2. Done(new) = x \o z
          BY <4>1, <4>2
        <5> HIDE DEF x, y, z
        <5>3. x \o y = x
          BY <3>3, <5>1, ConcatEmptySeq
        <5> QED BY <5>2, <5>3 DEF x, y
      <4>3. CASE c # <<>>
        <5> DEFINE s == Stopped(c)
        <5>1. s \in Seq(V) /\ Said(s) = y
          BY <3>1, StoppedText
        <5> DEFINE fo == FlattenSeq(o)
        <5> HIDE DEF s
        <5>2. FlattenSeq(Append(o, s)) = fo \o s
          BY <3>1, <5>1, FlattenAppend
        <5> HIDE DEF fo
        <5>3. Said(fo \o s) = Said(fo) \o Said(s)
          BY <3>2, <5>1, SaidConcat DEF fo
        <5>4. Done(new) = (x \o y) \o z
          BY <4>1, <4>3, <5>1, <5>2, <5>3 DEF s, fo
        <5> QED BY <5>4
      <4> QED BY <4>2, <4>3
    <3>5. CASE ~(Bytes(c) + 1 + Bytes(part) > limit)
      <4>1. new.current = c \o part /\ new.out = o
        BY <2>2, <3>5, PackStepCases
      <4> HIDE DEF c
      <4>2. Said(c \o part) = Said(c) \o Said(part)
        BY <2>3, <3>1, SaidConcat
      <4>3. Done(new) = x \o (y \o z)
        BY <4>1, <4>2
      <4> HIDE DEF x, y, z
      <4>4. (x \o y) \o z = x \o (y \o z)
        BY <3>3, ConcatAssociative
      <4> QED BY <4>3, <4>4 DEF x, y, c
    <3> QED BY <3>4, <3>5
  <2>7. new.current # <<>>
    BY <2>2, PackStepCases
  <2> HIDE DEF new, Done
  <2> QED BY <2>1, <2>5, <2>6, <2>7
<1> HIDE DEF P
<1>3. parts \in P
  <2>1. \A ps \in Seq(Y) : ps \in P
    BY <1>1, <1>2, SequenceInduction
  <2> QED BY <2>1
<1> DEFINE all == Packed(parts, limit)
           o == all.out
           c == all.current
<1>4. Pack(parts, limit) = Append(o, Stopped(c))
  BY DEF Pack, Packed
<1>5. all \in PackState(N, A) /\ c # <<>> /\ Said(FlattenSeq(o)) \o Said(c) = Said(FlattenSeq(parts))
  BY <1>0, <1>3 DEF P
<1>6. o \in Seq(Finished(N, A)) /\ c \in Voiced(N, A) /\ o \in Seq(Seq(V))
  BY <1>0, <1>5 DEF PackState
<1> DEFINE s == Stopped(c)
<1>7. s \in Finished(N, A) /\ s \in Seq(V) /\ Said(s) = Said(c)
  BY <1>6, VoicedOf DEF Finished, Voiced
<1> HIDE DEF all, s
<1>8. Append(o, s) \in Seq(Finished(N, A))
  <2> HIDE DEF o
  <2> QED BY <1>6, <1>7, AppendProperties
<1> DEFINE fo == FlattenSeq(o)
<1>9. FlattenSeq(Append(o, s)) = fo \o s /\ fo \in Seq(V)
  <2> HIDE DEF o
  <2> QED BY <1>6, <1>7, FlattenAppend
<1> HIDE DEF fo
<1>10. Said(fo \o s) = Said(fo) \o Said(s)
  BY <1>7, <1>9, SaidConcat
<1>11. Said(FlattenSeq(Append(o, s))) = Said(FlattenSeq(parts))
  BY <1>5, <1>7, <1>9, <1>10 DEF fo
<1> QED BY <1>4, <1>8, <1>11 DEF s

-----------------------------------------------------------------------------
(* What fits is packed into short sentences.                               *)

(* A spoken text before, and after, it is stopped.                         *)
Fit(N, A) == {t \in Voiced(N, A) : Fitting(t)}
Sentence(N, A) == {t \in Finished(N, A) : Short(t)}

(* A text that fits, with a full stop, is a sentence.                      *)
LEMMA FitOf ==
    ASSUME NEW N, NEW A, NEW t \in Fit(N, A)
    PROVE  /\ t \in Voiced(N, A) /\ Fitting(t) /\ t \in Seq(AnyWord(N, A)) /\ t # <<>>
           /\ Stopped(t) \in Sentence(N, A)
<1>1. t \in Voiced(N, A) /\ Fitting(t)
  BY DEF Fit
<1>2. t \in Seq(AnyWord(N, A)) /\ t # <<>> /\ Stopped(t) \in Finished(N, A)
  BY <1>1, VoicedOf
<1>3. Short(Stopped(t))
  BY <1>1, <1>2, StoppedShort
<1> QED BY <1>1, <1>2, <1>3 DEF Sentence

(* Parts that fit together fit.                                            *)
LEMMA JoinedFits ==
    ASSUME NEW N, NEW A, NEW s \in Seq(AnyWord(N, A)), NEW t \in Fit(N, A),
           ~(Bytes(s) + 1 + Bytes(t) > LongSentence)
    PROVE  s \o t \in Fit(N, A)
<1> DEFINE u == s \o t
<1>1. t \in Voiced(N, A) /\ t \in Seq(AnyWord(N, A)) /\ t # <<>>
  BY FitOf
<1>2. u \in Voiced(N, A)
  BY <1>1, VoicedConcat
<1>3. Weight(u) = Weight(s) + Weight(t)
  BY <1>1, WeightConcat
<1> HIDE DEF u
<1>4. u \in Seq(AnyWord(N, A)) /\ u # <<>>
  BY <1>2, VoicedOf
<1>5. Bytes(u) \in Nat /\ Weight(u) = Bytes(u) + 1
  BY <1>4, BytesOf
<1>6. Bytes(t) \in Nat /\ Weight(t) = Bytes(t) + 1
  BY <1>1, BytesOf
<1>7. Bytes(s) \in Nat /\ Weight(s) \in Nat /\ Weight(s) <= Bytes(s) + 1
  <2>1. s = <<>> => Bytes(s) = 0 /\ Weight(s) = 0
    BY BytesOf
  <2>2. s # <<>> => Weight(s) = Bytes(s) + 1
    BY BytesOf
  <2>3. Bytes(s) \in Nat /\ Weight(s) \in Nat
    BY BytesOf
  <2> QED BY <2>1, <2>2, <2>3
<1>8. Bytes(u) <= LongSentence
  BY <1>3, <1>5, <1>6, <1>7, TextAssumption
<1> QED BY <1>2, <1>8 DEF u, Fit, Fitting

(* Of parts that fit, packing makes sentences.                             *)
LEMMA PackShort ==
    ASSUME NEW N, NEW A, NEW parts \in Seq(Fit(N, A)), parts # <<>>
    PROVE  Pack(parts, LongSentence) \in Seq(Sentence(N, A))
<1> DEFINE Y == Voiced(N, A)
           F == Fit(N, A)
           L == LongSentence
           R == Seq(Sentence(N, A))
           Fits(acc) == acc.out \in R /\ acc.current \in F \cup {<<>>}
           P == {ps \in Seq(F) : /\ Fits(Packed(ps, L))
                                 /\ ps # <<>> => Packed(ps, L).current # <<>>}
<1>0. \A ps \in Seq(F) : ps \in Seq(Y)
  <2>1. F \subseteq Y
    BY DEF Fit
  <2> QED BY <2>1, SeqMonotonic
<1>1. <<>> \in P
  <2> DEFINE none == Packed(<<>>, L)
  <2>1. none.out = <<>> /\ none.current = <<>>
    BY PackedOf
  <2> HIDE DEF none
  <2>2. Fits(none)
    BY <2>1, EmptySeq
  <2> HIDE DEF Fits
  <2> QED BY <2>2, EmptySeq DEF none
<1>2. ASSUME NEW ps \in Seq(F), NEW part \in F, ps \in P PROVE Append(ps, part) \in P
  <2> DEFINE acc == Packed(ps, L)
             new == PackStep(acc, part, L)
             all == Append(ps, part)
  <2>1. ps \in Seq(Y) /\ part \in Y
    BY <1>0, FitOf
  <2>2. Packed(Append(ps, part), L) = new
    BY <2>1, PackedNext
  <2>p. acc \in PackState(N, A)
    BY <2>1, PackedOf
  <2>q. Fits(acc)
    BY <1>2
  <2>3. acc \in PackState(N, A) /\ acc.out \in R /\ acc.current \in F \cup {<<>>}
    BY <2>p, <2>q
  <2>4. all \in Seq(F)
    <3> HIDE DEF F
    <3> QED BY AppendProperties
  <2> HIDE DEF acc, all
  <2> DEFINE c == acc.current
             o == acc.out
  <2>5. c \in Seq(AnyWord(N, A)) /\ new.current # <<>>
    BY <2>1, <2>3, PackStepCases
  <2>6. Fits(new)
    <3>1. CASE Bytes(c) + 1 + Bytes(part) > L
      <4>1. new.current = part /\ new.out = IF c = <<>> THEN o ELSE Append(o, Stopped(c))
        BY <2>1, <2>3, <3>1, PackStepCases
      <4>2. CASE c = <<>>
        BY <2>3, <4>1, <4>2
      <4>3. CASE c # <<>>
        <5> DEFINE s == Stopped(c)
        <5>1. s \in Sentence(N, A)
          BY <2>3, <4>3, FitOf
        <5> HIDE DEF s, o
        <5>2. Append(o, s) \in R
          BY <2>3, <5>1, AppendProperties DEF o
        <5> QED BY <4>1, <4>3, <5>2 DEF s, o
      <4> QED BY <4>2, <4>3
    <3>2. CASE ~(Bytes(c) + 1 + Bytes(part) > L)
      <4>1. new.current = c \o part /\ new.out = o
        BY <2>1, <2>3, <3>2, PackStepCases
      <4>2. c \o part \in F
        BY <2>5, <3>2, JoinedFits
      <4> QED BY <2>3, <4>1, <4>2
    <3> QED BY <3>1, <3>2
  <2> HIDE DEF new, Fits
  <2>7. Fits(Packed(all, L)) /\ Packed(all, L).current # <<>>
    BY <2>2, <2>5, <2>6 DEF all
  <2> QED BY <2>4, <2>7 DEF all
<1> HIDE DEF P
<1>3. parts \in P
  <2>1. \A ps \in Seq(F) : ps \in P
    BY <1>1, <1>2, SequenceInduction
  <2> QED BY <2>1
<1> DEFINE all == Packed(parts, L)
           o == all.out
           c == all.current
           s == Stopped(c)
<1>4. Pack(parts, L) = Append(o, s)
  BY DEF Pack, Packed
<1>5. o \in R /\ c \in F
  BY <1>3 DEF P
<1>6. s \in Sentence(N, A)
  BY <1>5, FitOf
<1> HIDE DEF o, s
<1>7. Append(o, s) \in R
  BY <1>5, <1>6, AppendProperties
<1> QED BY <1>4, <1>7

(* Words one by one.                                                       *)
LEMMA SingleFits ==
    ASSUME NEW N, NEW A, 0 \notin A, NEW w \in AnyWord(N, A)
    PROVE  <<w>> \in Fit(N, A)
<1> DEFINE none == <<>>
           t == <<w>>
<1>1. t = Append(none, w) /\ none \in Seq(AnyWord(N, A)) /\ Weight(none) = 0
  BY EmptySeq, Single, WeightOf
<1>2. w.at \in A /\ w.size \in Nat
  BY WordFacts
<1> HIDE DEF none, t
<1>3. Append(none, w) \in Voiced(N, A)
  <2>1. w.at # 0
    BY <1>2
  <2> QED BY <1>1, <2>1, VoicedAppend
<1>4. Weight(Append(none, w)) = Weight(none) + w.size + 1
  BY <1>1, WeightAppend
<1>5. BigWord(Append(none, w)) <=> BigWord(none) \/ w.size >= LongSentence
  BY <1>1, BigAppend
<1>6. t \in Voiced(N, A) /\ Weight(t) = w.size + 1 /\ (w.size >= LongSentence => BigWord(t))
  BY <1>1, <1>2, <1>3, <1>4, <1>5
<1>7. Weight(t) = Bytes(t) + 1 /\ Bytes(t) \in Nat
  BY <1>6, VoicedOf, BytesOf
<1>8. Fitting(t)
  BY <1>2, <1>6, <1>7, TextAssumption DEF Fitting
<1> QED BY <1>6, <1>8 DEF Fit, t

(* A text as its single words.                                             *)
LEMMA Singles ==
    ASSUME NEW N, NEW A, 0 \notin A, NEW t \in Seq(AnyWord(N, A)), t # <<>>
    PROVE  /\ [i \in DOMAIN t |-> <<t[i]>>] \in Seq(Fit(N, A))
           /\ [i \in DOMAIN t |-> <<t[i]>>] # <<>>
           /\ FlattenSeq([i \in DOMAIN t |-> <<t[i]>>]) = t
<1> DEFINE V == AnyWord(N, A)
           F == Fit(N, A)
           f == [w \in V |-> <<w>>]
<1>1. f \in MapsTo(V, F) /\ \A w \in V : f[w] = <<w>>
  BY SingleFits DEF MapsTo
<1> HIDE DEF f
<1>2. Map(f, t) = [i \in DOMAIN t |-> <<t[i]>>]
  <2>1. \A i \in DOMAIN t : t[i] \in V
    BY LenProperties, ElementOfSeq
  <2> QED BY <1>1, <2>1 DEF Map
<1>3. Map(f, t) \in Seq(F) /\ Len(Map(f, t)) = Len(t)
  BY <1>1, MapOf
<1>4. Map(f, t) # <<>>
  <2>1. Len(t) # 0
    BY EmptySeq
  <2>2. Len(<<>>) = 0
    BY EmptySeq
  <2> QED BY <1>3, <2>1, <2>2
<1>5. FlattenSeq([i \in DOMAIN t |-> <<t[i]>>]) = t
  BY OneByOne
<1> QED BY <1>2, <1>3, <1>4, <1>5

-----------------------------------------------------------------------------
(* The pieces of a text that is continued.                                 *)

AgreeUpTo(cuts, old, n) == \A i \in 1..n : i \in cuts <=> i \in old

(* A cut depends on the places up to its end.                              *)
LEMMA CutAgrees ==
    ASSUME NEW X, NEW t \in Seq(X), NEW all \in Seq(X), NEW n \in Nat, n <= Len(t), n <= Len(all),
           \A i \in 1..n : all[i] = t[i], NEW cuts, NEW old, AgreeUpTo(cuts, old, n)
    PROVE  Cut(Numbers(n), all, cuts) = Cut(Numbers(n), t, old)
<1> DEFINE P == {k \in 0..n : Cut(Numbers(k), all, cuts) = Cut(Numbers(k), t, old)}
<1>1. 0 \in P
  BY CutNext
<1>2. ASSUME NEW k \in 1..n, k - 1 \in P PROVE k \in P
  <2>1. k \in 1..Len(t) /\ k \in 1..Len(all) /\ k \in 0..n
    BY LenProperties
  <2>2. Cut(Numbers(k), all, cuts) = CutStep(Cut(Numbers(k - 1), all, cuts), k, all, cuts)
    BY <2>1, CutNext
  <2>3. Cut(Numbers(k), t, old) = CutStep(Cut(Numbers(k - 1), t, old), k, t, old)
    BY <2>1, CutNext
  <2>4. Cut(Numbers(k - 1), all, cuts) = Cut(Numbers(k - 1), t, old)
    BY <1>2
  <2>5. all[k] = t[k] /\ (k \in cuts <=> k \in old)
    BY DEF AgreeUpTo
  <2>6. Cut(Numbers(k), all, cuts) = Cut(Numbers(k), t, old)
    BY <2>2, <2>3, <2>4, <2>5 DEF CutStep
  <2> QED BY <2>1, <2>6
<1> HIDE DEF P
<1>3. n \in P
  <2>1. \A k \in 0..n : k \in P
    BY <1>1, <1>2, InductionTo
  <2> QED BY <2>1
<1> QED BY <1>3 DEF P

(* A word is put to pieces: it begins one, or continues the last.          *)
Grown(pieces, word, begins) ==
    IF pieces = <<>> \/ begins THEN Append(pieces, <<word>>)
    ELSE Append(Front(pieces), Append(Last(pieces), word))

(* The cut of one more word.                                               *)
LEMMA CutAppend ==
    ASSUME NEW X, NEW t \in Seq(X), NEW w \in X, NEW cuts, NEW old, AgreeUpTo(cuts, old, Len(t))
    PROVE  CutBefore(Append(t, w), cuts) = Grown(CutBefore(t, old), w, Len(t) + 1 \in cuts)
<1> DEFINE all == Append(t, w)
           n == Len(t)
<1>1. /\ all \in Seq(X) /\ n \in Nat /\ Len(all) = n + 1 /\ n + 1 \in 1..Len(all) /\ n + 1 - 1 = n
      /\ n <= Len(all) /\ n <= Len(t) /\ (\A i \in 1..n : all[i] = t[i]) /\ all[n + 1] = w
  BY AppendProperties, LenProperties
<1> HIDE DEF all
<1>2. Cut(Numbers(n), all, cuts) = Cut(Numbers(n), t, old)
  <2> HIDE DEF n
  <2>1. AgreeUpTo(cuts, old, n)
    BY DEF n
  <2> QED BY <1>1, <2>1, CutAgrees
<1>3. CutBefore(t, old) = Cut(Numbers(n), t, old)
  BY CutNext
<1>4. CutBefore(all, cuts) = Cut(Numbers(n + 1), all, cuts)
  BY <1>1, CutNext
<1>5. Cut(Numbers(n + 1), all, cuts) = CutStep(Cut(Numbers(n), all, cuts), n + 1, all, cuts)
  <2> DEFINE m == n + 1
  <2>1. m \in 1..Len(all) /\ m - 1 = n
    BY <1>1
  <2> HIDE DEF m
  <2>2. Cut(Numbers(m), all, cuts) = CutStep(Cut(Numbers(m - 1), all, cuts), m, all, cuts)
    BY <1>1, <2>1, CutNext
  <2> QED BY <2>1, <2>2 DEF m
<1> DEFINE c == CutBefore(t, old)
<1>6. CutBefore(all, cuts) = CutStep(c, n + 1, all, cuts)
  BY <1>2, <1>3, <1>4, <1>5
<1> HIDE DEF c
<1>7. CutStep(c, n + 1, all, cuts) = Grown(c, w, n + 1 \in cuts)
  BY <1>1 DEF CutStep, Grown
<1> QED BY <1>6, <1>7 DEF all, c

(* The cut after full stops, of one more word.                             *)
LEMMA StopsAppend ==
    ASSUME NEW N, NEW A, NEW t \in Seq(AnyWord(N, A)), NEW w \in AnyWord(N, A)
    PROVE  CutAfterStops(Append(t, w))
             = Grown(CutAfterStops(t), w, t # <<>> /\ Last(t).stop)
<1> DEFINE V == AnyWord(N, A)
           all == Append(t, w)
           n == Len(t)
           old == {i \in 2..n : t[i - 1].stop}
           cuts == {i \in 2..Len(all) : all[i - 1].stop}
<1>1. /\ n \in Nat /\ Len(all) = n + 1 /\ \A i \in 1..n : all[i] = t[i]
  BY AppendProperties, LenProperties
<1>2. (t # <<>> => n > 0 /\ Last(t) = t[n]) /\ (t = <<>> => n = 0)
  BY <1>1, EmptySeq DEF Last
<1> HIDE DEF all
<1>3. AgreeUpTo(cuts, old, n)
  <2> SUFFICES ASSUME NEW i \in 1..n PROVE i \in cuts <=> i \in old
    BY DEF AgreeUpTo
  <2>1. i \in 2..Len(all) <=> i \in 2..n
    BY <1>1
  <2>2. i \in 2..n => i - 1 \in 1..n
    BY <1>1
  <2> QED BY <1>1, <2>1, <2>2
<1>4. n + 1 \in cuts <=> t # <<>> /\ Last(t).stop
  <2>1. n + 1 \in 2..Len(all) <=> n > 0
    BY <1>1
  <2>2. n + 1 - 1 = n /\ (n > 0 => n \in 1..n)
    BY <1>1
  <2> QED BY <1>1, <1>2, <2>1, <2>2
<1> HIDE DEF cuts, old
<1>5. CutBefore(Append(t, w), cuts) = Grown(CutBefore(t, old), w, Len(t) + 1 \in cuts)
  BY <1>3, CutAppend
<1>6. CutBefore(all, cuts) = CutAfterStops(all) /\ CutBefore(t, old) = CutAfterStops(t)
  BY DEF CutAfterStops, cuts, old
<1> DEFINE c == CutAfterStops(t)
<1> HIDE DEF c
<1>7. Grown(c, w, n + 1 \in cuts) = Grown(c, w, t # <<>> /\ Last(t).stop)
  BY <1>4 DEF Grown
<1> QED BY <1>5, <1>6, <1>7 DEF all, c

(* The places of commas.                                                   *)
Commas(t) == {i \in DOMAIN t : t[i].name = Comma}

(* The places of commas, in one more word.                                 *)
LEMMA CommasAppend ==
    ASSUME NEW N, NEW A, NEW t \in Seq(AnyWord(N, A)), NEW w \in AnyWord(N, A)
    PROVE  CutBefore(Append(t, w), Commas(Append(t, w)))
             = Grown(CutBefore(t, Commas(t)), w, w.name = Comma)
<1> DEFINE all == Append(t, w)
           n == Len(t)
<1>1. /\ n \in Nat /\ DOMAIN t = 1..n /\ (\A i \in 1..n : all[i] = t[i]) /\ all[n + 1] = w
      /\ all \in Seq(AnyWord(N, A)) /\ Len(all) = n + 1
  BY AppendProperties, LenProperties
<1> HIDE DEF all
<1>2. DOMAIN all = 1..n + 1
  BY <1>1, LenProperties
<1> DEFINE cuts == Commas(all)
           old == Commas(t)
<1>3. AgreeUpTo(cuts, old, n)
  <2> SUFFICES ASSUME NEW i \in 1..n PROVE i \in cuts <=> i \in old
    BY DEF AgreeUpTo
  <2>1. i \in DOMAIN t /\ i \in DOMAIN all
    BY <1>1, <1>2
  <2> QED BY <1>1, <2>1 DEF Commas
<1>4. n + 1 \in cuts <=> w.name = Comma
  <2>1. n + 1 \in DOMAIN all
    BY <1>1, <1>2
  <2> QED BY <1>1, <2>1 DEF Commas
<1> HIDE DEF cuts, old
<1>5. CutBefore(Append(t, w), cuts) = Grown(CutBefore(t, old), w, Len(t) + 1 \in cuts)
  BY <1>3, CutAppend
<1> DEFINE c == CutBefore(t, old)
<1> HIDE DEF c
<1>6. Grown(c, w, n + 1 \in cuts) = Grown(c, w, w.name = Comma)
  BY <1>4 DEF Grown
<1> QED BY <1>5, <1>6 DEF all, c, cuts, old

-----------------------------------------------------------------------------
(* Words from which a comma is split.                                      *)

(* A comma by itself, a word without its comma, and both.                  *)
CommaWord == [name |-> Comma, at |-> 0, size |-> 1, stop |-> FALSE, split |-> "no"]
Bare(w) == [w EXCEPT !.size = @ - 1, !.split = "no"]
Loose(w) == IF w.split = "attached" THEN <<Bare(w), CommaWord>> ELSE <<w>>

(* M and B are the names N and the places A, with those of the comma.      *)
Widens(N, A, M, B) ==
    /\ N \subseteq M /\ A \subseteq B
    /\ Comma \in M /\ 0 \in B
    /\ Comma \notin N /\ 0 \notin A

(* More names and places make more words.                                  *)
LEMMA WordMonotonic ==
    ASSUME NEW N, NEW A, NEW M, NEW B, N \subseteq M, A \subseteq B
    PROVE  /\ AnyWord(N, A) \subseteq AnyWord(M, B)
           /\ Seq(AnyWord(N, A)) \subseteq Seq(AnyWord(M, B))
<1>1. AnyWord(N, A) \subseteq AnyWord(M, B)
  BY DEF AnyWord
<1> QED BY <1>1, SeqMonotonic

(* And more texts.                                                         *)
LEMMA VoicedMonotonic ==
    ASSUME NEW N, NEW A, NEW M, NEW B, N \subseteq M, A \subseteq B
    PROVE  /\ Voiced(N, A) \subseteq Voiced(M, B)
           /\ Fit(N, A) \subseteq Fit(M, B)
           /\ Sentence(N, A) \subseteq Sentence(M, B)
BY WordMonotonic DEF Voiced, Fit, Sentence, Finished

(* A word without its comma.                                               *)
LEMMA BareOf ==
    ASSUME NEW N, NEW A, NEW w \in AnyWord(N, A), w.split = "attached"
    PROVE  /\ Bare(w) \in AnyWord(N, A)
           /\ Bare(w).name = w.name /\ Bare(w).at = w.at
<1>1. /\ w \in [name : N, at : A, size : Nat, stop : BOOLEAN, split : {"no", "attached", "word"}]
      /\ w.name \in N /\ w.at \in A /\ w.size \in Nat /\ w.stop \in BOOLEAN /\ w.size > 0
  BY DEF AnyWord
<1>2. /\ Bare(w).name = w.name /\ Bare(w).at = w.at /\ Bare(w).split = "no"
  BY <1>1 DEF Bare
<1>3. Bare(w) \in [name : N, at : A, size : Nat, stop : BOOLEAN, split : {"no", "attached", "word"}]
  <2>1. w.size - 1 \in Nat
    BY <1>1
  <2> QED BY <1>1, <2>1, Zenon DEF Bare
<1> QED BY <1>2, <1>3 DEF AnyWord

(* The comma as a word.                                                    *)
LEMMA CommaWordOf ==
    ASSUME NEW N, NEW A, NEW M, NEW B, Widens(N, A, M, B)
    PROVE  CommaWord \in AnyWord(M, B) /\ CommaWord.name = Comma /\ CommaWord.at = 0
<1>1. CommaWord \in [name : M, at : B, size : Nat, stop : BOOLEAN, split : {"no", "attached", "word"}]
  BY DEF CommaWord, Widens
<1>2. CommaWord.split = "no" /\ CommaWord.name = Comma /\ CommaWord.at = 0
  BY DEF CommaWord
<1> QED BY <1>1, <1>2 DEF AnyWord

(* A printed word is none of the split commas.                             *)
LEMMA PrintedWord ==
    ASSUME NEW N, NEW A, NEW M, NEW B, Widens(N, A, M, B), NEW w \in AnyWord(N, A)
    PROVE  w \in AnyWord(M, B) /\ w.name # Comma /\ w.at # 0
<1>1. w.name \in N /\ w.at \in A
  BY WordFacts
<1>2. w \in AnyWord(M, B)
  BY WordMonotonic DEF Widens
<1> QED BY <1>1, <1>2 DEF Widens

(* A word and its comma are words.                                         *)
LEMMA LooseOf ==
    ASSUME NEW N, NEW A, NEW M, NEW B, Widens(N, A, M, B), NEW w \in AnyWord(N, A)
    PROVE  Loose(w) \in Seq(AnyWord(M, B))
<1>1. w \in AnyWord(M, B) /\ CommaWord \in AnyWord(M, B)
  BY PrintedWord, CommaWordOf
<1>2. CASE w.split = "attached"
  <2> DEFINE b == Bare(w)
             c == CommaWord
  <2>1. b \in AnyWord(M, B) /\ c \in AnyWord(M, B)
    BY <1>1, <1>2, BareOf
  <2>2. Loose(w) = <<b, c>>
    BY <1>2 DEF Loose
  <2> HIDE DEF b, c
  <2> QED BY <2>1, <2>2
<1>3. CASE w.split # "attached"
  BY <1>1, <1>3, Single DEF Loose
<1> QED BY <1>2, <1>3

CommaCut(t) == CutBefore(t, Commas(t))

(* Every piece but the last says something, and the last does unless it is *)
(* a comma.                                                                *)
Spread(C, M, B) == C = <<>> \/ Front(C) \in Seq(Voiced(M, B))

(* A spoken word after pieces of which all but the last are spoken.        *)
LEMMA GrownVoiced ==
    ASSUME NEW M, NEW B, NEW C \in Seq(Filled(AnyWord(M, B))), Spread(C, M, B),
           NEW w \in AnyWord(M, B), w.at # 0
    PROVE  Grown(C, w, FALSE) \in Seq(Voiced(M, B)) /\ Grown(C, w, FALSE) # <<>>
<1> DEFINE W == AnyWord(M, B)
           Y == Voiced(M, B)
<1>1. CASE C = <<>>
  <2> DEFINE s == <<w>>
  <2>1. Grown(C, w, FALSE) = <<s>>
    BY <1>1 DEF Grown
  <2>2. s \in Y
    <3> DEFINE none == <<>>
    <3>1. none \in Seq(W) /\ s = Append(none, w)
      BY EmptySeq, Single
    <3> HIDE DEF none
    <3>2. Append(none, w) \in Y
      BY <3>1, VoicedAppend
    <3> QED BY <3>1, <3>2
  <2> HIDE DEF s, Y
  <2>3. <<s>> \in Seq(Y) /\ <<s>> # <<>>
    BY <2>2, Single
  <2> QED BY <2>1, <2>3 DEF Y
<1>2. CASE C # <<>>
  <2> DEFINE f == Front(C)
             l == Last(C)
             e == Append(l, w)
  <2>1. Grown(C, w, FALSE) = Append(f, e)
    BY <1>2 DEF Grown
  <2>2. f \in Seq(Y)
    BY <1>2 DEF Spread
  <2>3. l \in Seq(W)
    BY <1>2, AsAppend DEF Filled
  <2>4. e \in Y
    BY <2>3, VoicedAppend
  <2> HIDE DEF f, e, Y
  <2>5. Append(f, e) \in Seq(Y) /\ Append(f, e) # <<>>
    BY <2>2, <2>4, FrontLast
  <2> QED BY <2>1, <2>5 DEF Y
<1> QED BY <1>1, <1>2

(* The cut at commas, after a spoken word.                                 *)
LEMMA CommaCutNext ==
    ASSUME NEW M, NEW B, NEW u \in Seq(AnyWord(M, B)), Spread(CommaCut(u), M, B),
           NEW w \in AnyWord(M, B), w.name # Comma, w.at # 0
    PROVE  /\ CommaCut(Append(u, w)) \in Seq(Voiced(M, B)) /\ CommaCut(Append(u, w)) # <<>>
           /\ Spread(CommaCut(Append(u, w)), M, B)
<1> DEFINE C == CommaCut(u)
           D == CommaCut(Append(u, w))
<1>1. C \in Seq(Filled(AnyWord(M, B)))
  BY CutText DEF CommaCut
<1>2. D = Grown(C, w, w.name = Comma)
  BY CommasAppend DEF CommaCut
<1> HIDE DEF C, D
<1>3. D = Grown(C, w, FALSE)
  BY <1>2 DEF Grown
<1>4. D \in Seq(Voiced(M, B)) /\ D # <<>>
  BY <1>1, <1>3, GrownVoiced DEF C
<1>5. Front(D) \in Seq(Voiced(M, B))
  BY <1>4, AsAppend
<1> QED BY <1>4, <1>5 DEF Spread, D

(* The cut at commas, after a comma.                                       *)
LEMMA CommaCutComma ==
    ASSUME NEW M, NEW B, NEW u \in Seq(AnyWord(M, B)), CommaCut(u) \in Seq(Voiced(M, B)),
           NEW w \in AnyWord(M, B), w.name = Comma
    PROVE  Spread(CommaCut(Append(u, w)), M, B)
<1> DEFINE C == CommaCut(u)
           D == CommaCut(Append(u, w))
           s == <<w>>
           T == Seq(AnyWord(M, B))
<1>1. D = Grown(C, w, w.name = Comma)
  BY CommasAppend DEF CommaCut
<1> HIDE DEF C, D
<1>2. D = Append(C, s)
  BY <1>1 DEF Grown
<1>3. s \in T
  BY Single
<1>4. C \in Seq(T)
  <2>1. Voiced(M, B) \subseteq T
    BY DEF Voiced
  <2> QED BY <2>1, SeqMonotonic DEF C
<1> HIDE DEF s, T
<1>5. Front(Append(C, s)) = C
  BY <1>3, <1>4, FrontLast
<1> QED BY <1>2, <1>5 DEF Spread, C, D

(* Splitting commas says the same, and between commas is a spoken word.    *)
LEMMA LooseText ==
    ASSUME NEW N, NEW A, NEW M, NEW B, Widens(N, A, M, B),
           NEW f, f = [w \in AnyWord(N, A) |-> Loose(w)], NEW t \in Seq(AnyWord(N, A))
    PROVE  LET u == FlattenSeq(Map(f, t)) IN
           u \in Seq(AnyWord(M, B)) /\ Said(u) = Said(t) /\ Spread(CommaCut(u), M, B)
<1> DEFINE V == AnyWord(N, A)
           W == AnyWord(M, B)
           L(s) == FlattenSeq(Map(f, s))
           P == {s \in Seq(V) : Said(L(s)) = Said(s) /\ Spread(CommaCut(L(s)), M, B)}
<1>1. f \in MapsTo(V, Seq(W)) /\ \A w \in V : f[w] = Loose(w)
  BY LooseOf DEF MapsTo
<1>2. ASSUME NEW s \in Seq(V) PROVE Map(f, s) \in Seq(Seq(W)) /\ L(s) \in Seq(W)
  <2>1. Map(f, s) \in Seq(Seq(W))
    BY <1>1, MapOf
  <2> QED BY <2>1, FlattenAppend
<1>3. <<>> \in P
  <2>1. Map(f, <<>>) = <<>> /\ FlattenSeq(<<>>) = <<>>
    BY FlattenAppend DEF Map
  <2> DEFINE none == <<>>
  <2>2. none \in Seq(W) /\ none \in Seq(V) /\ L(none) = none
    BY <2>1, EmptySeq
  <2>3. CommaCut(none) = <<>>
    <3>1. Len(none) = 0
      BY EmptySeq
    <3> HIDE DEF none
    <3>2. CutBefore(none, Commas(none)) = Cut(Numbers(Len(none)), none, Commas(none))
      BY <2>2, CutNext
    <3>3. Cut(Numbers(0), none, Commas(none)) = <<>>
      BY <2>2, CutNext
    <3> QED BY <3>1, <3>2, <3>3 DEF CommaCut
  <2> HIDE DEF none, L
  <2> QED BY <2>2, <2>3 DEF Spread, none
<1>4. ASSUME NEW s \in Seq(V), NEW w \in V, s \in P PROVE Append(s, w) \in P
  <2> DEFINE u == L(s)
             m == Map(f, s)
             e == f[w]
             v == IF w.split = "attached" THEN Bare(w) ELSE w
             x == Append(u, v)
  <2>1. u \in Seq(W) /\ m \in Seq(Seq(W)) /\ Said(u) = Said(s) /\ Spread(CommaCut(u), M, B)
    BY <1>2, <1>4
  <2>2. v \in W /\ v.name # Comma /\ v.at # 0 /\ v.name = w.name /\ v.at = w.at
    <3>1. v \in V /\ v.name = w.name /\ v.at = w.at
      BY BareOf
    <3> QED BY <3>1, PrintedWord
  <2>3. e = Loose(w) /\ e \in Seq(W)
    BY <1>1, LooseOf
  <2>4. L(Append(s, w)) = u \o e
    <3>1. Map(f, Append(s, w)) = Append(m, e)
      BY <1>1, MapAppend
    <3>2. u = FlattenSeq(m)
      OBVIOUS
    <3> HIDE DEF m, e, u
    <3>3. FlattenSeq(Append(m, e)) = FlattenSeq(m) \o e
      BY <2>1, <2>3, FlattenAppend
    <3> QED BY <3>1, <3>2, <3>3
  <2> HIDE DEF u, v, e
  <2>5. x \in Seq(W) /\ CommaCut(x) \in Seq(Voiced(M, B)) /\ Spread(CommaCut(x), M, B)
    BY <2>1, <2>2, CommaCutNext, AppendProperties
  <2>6. Said(x) = Said(Append(s, w))
    <3>a. u \in Seq(AnyWord(M, B)) /\ v \in AnyWord(M, B)
      BY <2>1, <2>2
    <3>0. Said(Append(u, v)) = IF v.at = 0 THEN Said(u) ELSE Append(Said(u), <<v.name, v.at>>)
      BY <3>a, SaidAppend
    <3>1. Said(Append(u, v)) = Append(Said(u), <<v.name, v.at>>)
      BY <2>2, <3>0
    <3>2. Said(Append(s, w)) = Append(Said(s), <<w.name, w.at>>)
      BY <2>2, SaidAppend
    <3> QED BY <2>1, <2>2, <3>1, <3>2
  <2>7. Append(s, w) \in Seq(V)
    BY AppendProperties
  <2>8. CASE w.split = "attached"
    <3> DEFINE c == CommaWord
               y == Append(x, c)
    <3>1. c \in W /\ c.name = Comma /\ c.at = 0
      BY CommaWordOf
    <3>2. e = <<v, c>>
      BY <2>3, <2>8 DEF Loose, v
    <3> HIDE DEF c, x
    <3>3. u \o e = y
      <4>1. <<v, c>> = Append(<<v>>, c) /\ <<v>> \in Seq(W) /\ u \o <<v>> = Append(u, v)
        BY <2>1, <2>2, Single, AppendIsConcat
      <4> DEFINE q == <<v>>
      <4>2. q \in Seq(W)
        BY <4>1
      <4> HIDE DEF q
      <4>3. u \o Append(q, c) = Append(u \o q, c)
        BY <2>1, <3>1, <4>2, ConcatAppend
      <4> QED BY <3>2, <4>1, <4>3 DEF q, x
    <3>4. Said(y) = Said(x)
      BY <2>5, <3>1, SaidAppend
    <3>5. Spread(CommaCut(y), M, B)
      BY <2>5, <3>1, CommaCutComma
    <3> HIDE DEF y, L
    <3> QED BY <2>4, <2>6, <2>7, <3>3, <3>4, <3>5
  <2>9. CASE w.split # "attached"
    <3>1. e = <<v>> /\ u \o <<v>> = Append(u, v)
      BY <2>1, <2>2, <2>3, <2>9, AppendIsConcat DEF Loose, v
    <3> HIDE DEF x, L
    <3>2. L(Append(s, w)) = x
      BY <2>4, <3>1 DEF x
    <3> QED BY <2>5, <2>6, <2>7, <3>2
  <2> QED BY <2>8, <2>9
<1> HIDE DEF P
<1>5. t \in P
  <2>1. \A s \in Seq(V) : s \in P
    BY <1>3, <1>4, SequenceInduction
  <2> QED BY <2>1
<1> QED BY <1>2, <1>5 DEF P

(* The last word keeps its comma.                                          *)
LEMMA LoosenedOf ==
    ASSUME NEW N, NEW A, NEW M, NEW B, Widens(N, A, M, B),
           NEW f, f = [w \in AnyWord(N, A) |-> Loose(w)],
           NEW t \in Seq(AnyWord(N, A)), NEW w \in AnyWord(N, A)
    PROVE  Loosened(Append(t, w)) = Append(FlattenSeq(Map(f, t)), w)
<1> DEFINE V == AnyWord(N, A)
           Y == Seq(AnyWord(M, B))
           all == Append(t, w)
           n == Len(t)
           m == Map(f, t)
           e == <<w>>
           a == [i \in DOMAIN all |->
                    IF all[i].split = "attached" /\ i < Len(all)
                    THEN <<[all[i] EXCEPT !.size = @ - 1, !.split = "no"],
                           [name |-> Comma, at |-> 0, size |-> 1, stop |-> FALSE, split |-> "no"]>>
                    ELSE <<all[i]>>]
           c == Append(m, e)
<1>1. f \in MapsTo(V, Y) /\ \A v \in V : f[v] = Loose(v)
  BY LooseOf DEF MapsTo
<1>2. /\ n \in Nat /\ Len(all) = n + 1 /\ (\A i \in 1..n : all[i] = t[i]) /\ all[n + 1] = w
      /\ DOMAIN all = 1..n + 1 /\ \A i \in 1..n : t[i] \in V
  BY AppendProperties, LenProperties, ElementOfSeq
<1>3. m \in Seq(Y) /\ Len(m) = n /\ \A i \in 1..n : m[i] = f[t[i]]
  BY <1>1, MapOf
<1>4. e \in Y
  BY PrintedWord, Single
<1> HIDE DEF e, m
<1>5. c \in Seq(Y) /\ Len(c) = n + 1 /\ (\A i \in 1..n : c[i] = m[i]) /\ c[n + 1] = e
  BY <1>3, <1>4, AppendProperties
<1> HIDE DEF all, c
<1>6. ASSUME NEW i \in 1..n + 1 PROVE a[i] = c[i]
  <2>1. CASE i = n + 1
    <3>1. a[i] = <<all[i]>>
      BY <1>2, <2>1
    <3> QED BY <1>2, <1>5, <2>1, <3>1 DEF e
  <2>2. CASE i # n + 1
    <3>1. i \in 1..n /\ i < Len(all) /\ i \in DOMAIN all
      BY <1>2, <2>2
    <3>2. a[i] = Loose(all[i])
      BY <3>1 DEF Loose, Bare, CommaWord
    <3>3. c[i] = Loose(t[i])
      BY <1>1, <1>2, <1>3, <1>5, <3>1
    <3> QED BY <1>2, <3>1, <3>2, <3>3
  <2> QED BY <2>1, <2>2
<1>7. DOMAIN a = 1..n + 1
  BY <1>2
<1>8. DOMAIN c = 1..n + 1 /\ c = [i \in DOMAIN c |-> c[i]]
  BY <1>2, <1>5, LenProperties, SeqDef
<1>9. a = c
  <2>1. a = [i \in 1..n + 1 |-> a[i]]
    BY <1>2
  <2> HIDE DEF a
  <2> QED BY <1>6, <1>8, <2>1
<1>10. Loosened(all) = FlattenSeq(a)
  BY DEF Loosened
<1> DEFINE u == FlattenSeq(m)
<1>11. FlattenSeq(c) = u \o e /\ u \in Y
  BY <1>3, <1>4, FlattenAppend DEF c
<1>12. u \o e = Append(u, w)
  <2>1. w \in AnyWord(M, B)
    BY PrintedWord
  <2> HIDE DEF u
  <2> QED BY <1>11, <2>1, AppendIsConcat DEF e
<1> QED BY <1>9, <1>10, <1>11, <1>12 DEF u, m, all

(* The parts of a sentence, at either kind of delimiter.                   *)
LEMMA PartsOf ==
    ASSUME NEW N, NEW A, NEW M, NEW B, Widens(N, A, M, B),
           NEW t \in Seq(AnyWord(N, A)), t # <<>>, NEW d \in {"attached", "word"}
    PROVE  /\ Parts(t, d) \in Seq(Voiced(M, B)) /\ Parts(t, d) # <<>>
           /\ Said(FlattenSeq(Parts(t, d))) = Said(t)
<1>1. CASE d = "attached"
  <2> DEFINE f == [w \in AnyWord(N, A) |-> Loose(w)]
             s == Front(t)
             w == Last(t)
             u == FlattenSeq(Map(f, s))
             x == Append(u, w)
  <2>1. s \in Seq(AnyWord(N, A)) /\ w \in AnyWord(N, A) /\ t = Append(s, w)
    BY AsAppend
  <2> HIDE DEF s, w
  <2>2. Loosened(Append(s, w)) = x
    <3> DEFINE g == f
    <3>1. g = [v \in AnyWord(N, A) |-> Loose(v)]
      OBVIOUS
    <3> HIDE DEF f
    <3> QED BY <2>1, <3>1, LoosenedOf
  <2>3. u \in Seq(AnyWord(M, B)) /\ Said(u) = Said(s) /\ Spread(CommaCut(u), M, B)
    <3> DEFINE g == f
    <3>1. g = [v \in AnyWord(N, A) |-> Loose(v)]
      OBVIOUS
    <3> HIDE DEF f
    <3> QED BY <2>1, <3>1, LooseText
  <2>4. w \in AnyWord(M, B) /\ w.name # Comma /\ w.at # 0
    BY <2>1, PrintedWord
  <2> HIDE DEF u
  <2>5. CommaCut(x) \in Seq(Voiced(M, B)) /\ CommaCut(x) # <<>>
    BY <2>3, <2>4, CommaCutNext
  <2>6. Said(x) = Said(t)
    <3>1. Said(Append(u, w)) = IF w.at = 0 THEN Said(u) ELSE Append(Said(u), <<w.name, w.at>>)
      BY <2>3, <2>4, SaidAppend
    <3>2. Said(Append(s, w)) = IF w.at = 0 THEN Said(s) ELSE Append(Said(s), <<w.name, w.at>>)
      BY <2>1, SaidAppend
    <3> QED BY <2>1, <2>3, <3>1, <3>2
  <2>7. x \in Seq(AnyWord(M, B))
    BY <2>3, <2>4, AppendProperties
  <2> HIDE DEF x
  <2>8. FlattenSeq(CommaCut(x)) = x
    BY <2>7, CutText DEF CommaCut
  <2>9. Parts(t, d) = CommaCut(x)
    <3>1. Loosened(t) = x
      BY <2>1, <2>2
    <3> QED BY <1>1, <3>1 DEF Parts, CommaCut, Commas
  <2> QED BY <2>5, <2>6, <2>8, <2>9
<1>2. CASE d = "word"
  <2> DEFINE cuts == {i \in 2..Len(t) - 1 : t[i].split = "word"}
             c == CutBefore(t, cuts)
  <2>1. Parts(t, d) = c
    BY <1>2 DEF Parts
  <2> HIDE DEF cuts
  <2>2. c \in Seq(Filled(AnyWord(N, A))) /\ FlattenSeq(c) = t /\ c # <<>>
    BY CutText
  <2>3. Filled(AnyWord(N, A)) \subseteq Voiced(M, B)
    <3>1. Filled(AnyWord(N, A)) \subseteq Voiced(N, A)
      BY VoicedFilled DEF Widens
    <3>2. Voiced(N, A) \subseteq Voiced(M, B)
      BY VoicedMonotonic DEF Widens
    <3> QED BY <3>1, <3>2
  <2> HIDE DEF c
  <2>4. c \in Seq(Voiced(M, B))
    BY <2>2, <2>3, SeqMonotonic
  <2> QED BY <2>1, <2>2, <2>4
<1> QED BY <1>1, <1>2

(* _split_long_sentence makes sentences that say the same.                 *)
LEMMA SplitText ==
    ASSUME NEW N, NEW A, NEW M, NEW B, Widens(N, A, M, B), NEW t \in Finished(N, A)
    PROVE  /\ SplitLong(t) \in Seq(Sentence(M, B))
           /\ Said(FlattenSeq(SplitLong(t))) = Said(t)
<1> DEFINE L == LongSentence
           R == Seq(Sentence(M, B))
           try(d) == Pack(Parts(t, d), L)
           small(d) == \A k \in DOMAIN try(d) : Bytes(try(d)[k]) <= L
           singles == [i \in DOMAIN t |-> <<t[i]>>]
<1>1. t \in Voiced(N, A) /\ Last(t).stop /\ t \in Seq(AnyWord(N, A)) /\ t # <<>>
  <2>1. t \in Voiced(N, A) /\ Last(t).stop
    BY DEF Finished
  <2> QED BY <2>1, VoicedOf
<1>2. ASSUME NEW d \in {"attached", "word"}
      PROVE  try(d) \in Seq(Finished(M, B)) /\ Said(FlattenSeq(try(d))) = Said(t)
  <2> DEFINE ps == Parts(t, d)
  <2>1. ps \in Seq(Voiced(M, B)) /\ ps # <<>> /\ Said(FlattenSeq(ps)) = Said(t)
    BY <1>1, PartsOf
  <2> HIDE DEF ps
  <2>2. Pack(ps, L) \in Seq(Finished(M, B)) /\ Said(FlattenSeq(Pack(ps, L))) = Said(FlattenSeq(ps))
    BY <2>1, PackText
  <2> QED BY <2>1, <2>2 DEF ps
<1>3. ASSUME NEW d \in {"attached", "word"}, small(d) PROVE try(d) \in R
  <2> DEFINE p == try(d)
  <2>1. p \in Seq(Finished(M, B)) /\ \A k \in DOMAIN p : Bytes(p[k]) <= L
    BY <1>2, <1>3
  <2> HIDE DEF p
  <2>2. Len(p) \in Nat /\ DOMAIN p = 1..Len(p) /\ \A k \in 1..Len(p) : p[k] \in Finished(M, B)
    BY <2>1, LenProperties, ElementOfSeq
  <2>3. ASSUME NEW k \in 1..Len(p) PROVE p[k] \in Sentence(M, B)
    <3> DEFINE q == p[k]
    <3>1. q \in Finished(M, B) /\ Bytes(q) <= L
      BY <2>1, <2>2
    <3>2. q \in Seq(AnyWord(M, B))
      BY <3>1 DEF Finished, Voiced
    <3> HIDE DEF q
    <3>3. Bytes(q) \in Nat
      BY <3>2, BytesOf
    <3>4. Bytes(q) <= L + 1
      BY <3>1, <3>3, TextAssumption
    <3>5. q \in Sentence(M, B)
      BY <3>1, <3>4 DEF Sentence, Short
    <3> QED BY <3>5 DEF q
  <2>4. p \in Seq(Sentence(M, B))
    BY <2>1, <2>2, <2>3, SeqDef
  <2> QED BY <2>4 DEF p
<1>4. /\ Pack(singles, L) \in R /\ Said(FlattenSeq(Pack(singles, L))) = Said(t)
  <2>1. singles \in Seq(Fit(N, A)) /\ singles # <<>> /\ FlattenSeq(singles) = t
    BY <1>1, Singles DEF Widens
  <2> HIDE DEF singles
  <2>2. singles \in Seq(Fit(M, B)) /\ singles \in Seq(Voiced(M, B))
    <3>1. Fit(N, A) \subseteq Fit(M, B) /\ Fit(N, A) \subseteq Voiced(M, B)
      BY VoicedMonotonic DEF Widens, Fit
    <3> QED BY <2>1, <3>1, SeqMonotonic
  <2>3. Pack(singles, L) \in R
    BY <2>1, <2>2, PackShort
  <2>4. Said(FlattenSeq(Pack(singles, L))) = Said(FlattenSeq(singles))
    BY <2>1, <2>2, PackText
  <2> QED BY <2>1, <2>3, <2>4
<1>5. CASE Bytes(t) <= L
  <2>1. SplitLong(t) = <<t>>
    BY <1>5 DEF SplitLong
  <2>2. Bytes(t) \in Nat
    BY <1>1, BytesOf
  <2>3. t \in Sentence(N, A)
    BY <1>5, <2>2, TextAssumption DEF Sentence, Short
  <2>4. t \in Sentence(M, B)
    BY <2>3, VoicedMonotonic DEF Widens
  <2>5. <<t>> \in R
    BY <2>4, Single
  <2>6. FlattenSeq(<<t>>) = t
    BY <1>1, FlattenSingle
  <2> QED BY <2>1, <2>5, <2>6
<1>6. CASE ~(Bytes(t) <= L)
  <2>1. \/ \E d \in {"attached", "word"} : small(d) /\ SplitLong(t) = try(d)
        \/ SplitLong(t) = Pack(singles, L)
    <3> DEFINE fits(d) == Len(Parts(t, d)) > 1 /\ small(d)
    <3>1. SplitLong(t) = IF fits("attached") THEN try("attached")
                         ELSE IF fits("word") THEN try("word") ELSE Pack(singles, L)
      BY <1>6 DEF SplitLong
    <3> HIDE DEF small, try, singles
    <3> QED BY <3>1
  <2> HIDE DEF small, try, singles
  <2> QED BY <1>2, <1>3, <1>4, <2>1
<1> QED BY <1>5, <1>6

(* split_into_sentences makes sentences that say the same.                 *)
LEMMA SentencesOf ==
    ASSUME NEW N, NEW A, NEW M, NEW B, Widens(N, A, M, B), NEW text \in Seq(AnyWord(N, A))
    PROVE  /\ Sentences(text) \in Seq(Sentence(M, B))
           /\ Said(FlattenSeq(Sentences(text))) = Said(text)
<1> DEFINE V == AnyWord(N, A)
           W == AnyWord(M, B)
           G == Sentence(M, B)
<1>1. CASE text = <<>>
  <2>1. Sentences(text) = <<>> /\ FlattenSeq(<<>>) = <<>>
    BY <1>1, FlattenAppend DEF Sentences
  <2> QED BY <1>1, <2>1, EmptySeq
<1>2. CASE text # <<>>
  <2> DEFINE runs == BreakLongRuns(text)
             raw == CutAfterStops(runs)
             F == Filled(V)
             f == [z \in F |-> SplitLong(Stopped(z))]
             ss == Map(f, raw)
  <2>1. runs \in Seq(V) /\ Said(runs) = Said(text)
    BY BreakText
  <2> HIDE DEF runs
  <2>2. raw \in Seq(F) /\ FlattenSeq(raw) = runs
    BY <2>1, CutText DEF CutAfterStops
  <2>3. ASSUME NEW z \in F
        PROVE  SplitLong(Stopped(z)) \in Seq(G) /\ Said(FlattenSeq(SplitLong(Stopped(z)))) = Said(z)
    <3> DEFINE t == Stopped(z)
    <3>1. z \in Voiced(N, A)
      BY VoicedFilled DEF Widens
    <3>2. t \in Finished(N, A) /\ Said(t) = Said(z)
      BY <3>1, VoicedOf
    <3> HIDE DEF t
    <3>3. SplitLong(t) \in Seq(G) /\ Said(FlattenSeq(SplitLong(t))) = Said(t)
      BY <3>2, SplitText
    <3> QED BY <3>2, <3>3 DEF t
  <2>4. f \in MapsTo(F, Seq(G)) /\ \A z \in F : f[z] = SplitLong(Stopped(z))
    BY <2>3 DEF MapsTo
  <2> HIDE DEF raw, f, F
  <2>5. /\ ss \in Seq(Seq(G)) /\ Len(ss) = Len(raw) /\ Len(raw) \in Nat
        /\ DOMAIN raw = 1..Len(raw) /\ \A k \in 1..Len(raw) : ss[k] = f[raw[k]] /\ raw[k] \in F
    <3>1. /\ ss \in Seq(Seq(G)) /\ Len(ss) = Len(raw) /\ DOMAIN raw = 1..Len(raw)
          /\ \A k \in 1..Len(raw) : ss[k] = f[raw[k]]
      <4> DEFINE Y == Seq(G)
      <4>1. f \in MapsTo(F, Y) /\ raw \in Seq(F)
        BY <2>2, <2>4
      <4> HIDE DEF Y, G, V, W
      <4>2. ss \in Seq(Y) /\ Len(ss) = Len(raw) /\ DOMAIN raw = 1..Len(raw)
        BY <4>1, MapOf
      <4>3. \A k \in 1..Len(raw) : Map(f, raw)[k] = f[raw[k]]
        BY <4>1, MapOf
      <4> QED BY <4>2, <4>3 DEF Y
    <3>2. Len(raw) \in Nat /\ \A k \in 1..Len(raw) : raw[k] \in F
      BY <2>2, ElementOfSeq, LenProperties
    <3> QED BY <3>1, <3>2
  <2>6. Sentences(text) = FlattenSeq(ss)
    <3>1. Sentences(text) = FlattenSeq([k \in DOMAIN raw |-> SplitLong(Stopped(raw[k]))])
      BY <1>2 DEF Sentences, raw, runs
    <3>2. ss = [k \in DOMAIN raw |-> SplitLong(Stopped(raw[k]))]
      BY <2>4, <2>5 DEF Map
    <3> QED BY <3>1, <3>2
  <2> HIDE DEF ss
  <2>7. FlattenSeq(ss) \in Seq(G)
    BY <2>5, FlattenAppend
  <2>8. Said(FlattenSeq(FlattenSeq(ss))) = Said(FlattenSeq(raw))
    <3>1. G \subseteq Seq(W)
      BY DEF Sentence, Finished, Voiced
    <3>2. Seq(G) \subseteq Seq(Seq(W))
      BY <3>1, SeqMonotonic
    <3>3. ss \in Seq(Seq(Seq(W)))
      BY <2>5, <3>2, SeqMonotonic
    <3>4. raw \in Seq(Seq(W))
      <4>1. F \subseteq Seq(W)
        BY WordMonotonic DEF F, Filled, Widens
      <4> QED BY <2>2, <4>1, SeqMonotonic
    <3>5. AlikeInPieces(ss, raw)
      BY <2>3, <2>4, <2>5 DEF AlikeInPieces
    <3> QED BY <3>3, <3>4, <3>5, SaidPieces
  <2> QED BY <2>1, <2>2, <2>6, <2>7, <2>8
<1> QED BY <1>1, <1>2

-----------------------------------------------------------------------------
(* The words of the prints.                                                *)

(* Printed words.                                                          *)
PrintOf(N) == [name : Seq(Letters), said : Seq(N), ends : {"none", "stop", "comma"}]

(* The words of a printed word have its place.                             *)
LEMMA WordsOfPrint ==
    ASSUME NEW N, N \subseteq DOMAIN Size, NEW print \in PrintOf(N), NEW at
    PROVE  Words(print, at) \in Seq(AnyWord(N, {at}))
<1> DEFINE n == Len(print.said)
           last(k) == k = n
           word(k) ==
             [name  |-> print.said[k],
              at    |-> at,
              size  |-> Size[print.said[k]] + (IF last(k) /\ print.ends # "none" THEN 1 ELSE 0),
              stop  |-> last(k) /\ print.ends = "stop",
              split |-> IF print.said = <<And>> /\ print.ends = "none" THEN "word"
                        ELSE IF last(k) /\ print.ends = "comma" THEN "attached" ELSE "no"]
<1>1. print.said \in Seq(N) /\ print.ends \in {"none", "stop", "comma"}
  BY DEF PrintOf
<1>2. n \in Nat /\ DOMAIN print.said = 1..n /\ \A k \in 1..n : print.said[k] \in N
  BY <1>1, LenProperties, ElementOfSeq
<1>3. ASSUME NEW k \in 1..n PROVE word(k) \in AnyWord(N, {at})
  <2> DEFINE x == print.said[k]
             one == IF last(k) /\ print.ends # "none" THEN 1 ELSE 0
             stop == last(k) /\ print.ends = "stop"
             split == IF print.said = <<And>> /\ print.ends = "none" THEN "word"
                      ELSE IF last(k) /\ print.ends = "comma" THEN "attached" ELSE "no"
  <2>1. x \in N /\ Size[x] \in Nat
    BY <1>2, TextAssumption
  <2>2. one \in {0, 1} /\ stop \in BOOLEAN /\ split \in {"no", "attached", "word"}
        /\ (split = "attached" => one = 1)
    OBVIOUS
  <2>3. word(k) = [name |-> x, at |-> at, size |-> Size[x] + one, stop |-> stop, split |-> split]
    OBVIOUS
  <2> HIDE DEF x, one, stop, split, word
  <2>4. Size[x] + one \in Nat /\ (split = "attached" => Size[x] + one > 0)
    BY <2>1, <2>2
  <2> DEFINE z == Size[x] + one
  <2> HIDE DEF z
  <2>5. [name |-> x, at |-> at, size |-> z, stop |-> stop, split |-> split] \in AnyWord(N, {at})
    BY <2>1, <2>2, <2>4 DEF AnyWord, z
  <2> QED BY <2>3, <2>5 DEF z
<1>4. Words(print, at) = [k \in 1..n |-> word(k)]
  BY <1>2 DEF Words
<1> HIDE DEF word
<1>5. Words(print, at) \in [1..n -> AnyWord(N, {at})]
  BY <1>3, <1>4
<1> QED BY <1>2, <1>5, SeqDef

Placed(prints, first) == [i \in DOMAIN prints |-> Words(prints[i], first + i - 1)]

(* The words of printed words have their places.                           *)
LEMMA PreprocessOf ==
    ASSUME NEW N, N \subseteq DOMAIN Size, NEW prints \in Seq(PrintOf(N)), NEW first \in Nat
    PROVE  LET V == AnyWord(N, first .. first + Len(prints) - 1) IN
           Placed(prints, first) \in Seq(Seq(V)) /\ Preprocess(prints, first) \in Seq(V)
<1> DEFINE n == Len(prints)
           I == first .. first + n - 1
           V == AnyWord(N, I)
<1>1. n \in Nat /\ DOMAIN prints = 1..n /\ \A i \in 1..n : prints[i] \in PrintOf(N)
  BY LenProperties, ElementOfSeq
<1> HIDE DEF n
<1>2. ASSUME NEW i \in 1..n PROVE Words(prints[i], first + i - 1) \in Seq(V)
  <2> DEFINE at == first + i - 1
             p == prints[i]
  <2>1. {at} \subseteq I
    BY <1>1
  <2>2. p \in PrintOf(N)
    BY <1>1
  <2> HIDE DEF at, p, I
  <2>3. Words(p, at) \in Seq(AnyWord(N, {at}))
    BY <2>2, WordsOfPrint
  <2>4. Seq(AnyWord(N, {at})) \subseteq Seq(V)
    BY <2>1, WordMonotonic
  <2> QED BY <2>3, <2>4 DEF at, p
<1>3. Placed(prints, first) = [i \in 1..n |-> Words(prints[i], first + i - 1)]
  BY <1>1 DEF Placed
<1> HIDE DEF V
<1>4. Placed(prints, first) \in [1..n -> Seq(V)]
  BY <1>2, <1>3
<1>5. Placed(prints, first) \in Seq(Seq(V))
  BY <1>1, <1>4, SeqDef
<1>6. Preprocess(prints, first) = FlattenSeq(Placed(prints, first))
  BY DEF Preprocess, Placed
<1>7. Preprocess(prints, first) \in Seq(V)
  BY <1>5, <1>6, FlattenAppend
<1> QED BY <1>5, <1>7 DEF V, n

(* Printed words are preprocessed one by one.                              *)
LEMMA PreprocessConcat ==
    ASSUME NEW N, N \subseteq DOMAIN Size, NEW s \in Seq(PrintOf(N)), NEW t \in Seq(PrintOf(N)),
           NEW first \in Nat
    PROVE  Preprocess(s \o t, first) = Preprocess(s, first) \o Preprocess(t, first + Len(s))
<1> DEFINE all == s \o t
           n == Len(s)
           m == Len(t)
           U == AnyWord(N, Nat)
           a == Placed(all, first)
           b == Placed(s, first)
           c == Placed(t, first + n)
           bc == b \o c
<1>1. /\ n \in Nat /\ m \in Nat /\ Len(all) = n + m /\ all \in Seq(PrintOf(N))
      /\ \A i \in 1..n + m : all[i] = IF i <= n THEN s[i] ELSE t[i - n]
  BY ConcatProperties, LenProperties
<1>2. DOMAIN s = 1..n /\ DOMAIN t = 1..m
  BY LenProperties
<1> HIDE DEF all, n, m
<1>3. DOMAIN all = 1..n + m
  BY <1>1, LenProperties
<1>4. ASSUME NEW p \in Seq(PrintOf(N)), NEW k \in Nat
      PROVE  /\ Placed(p, k) \in Seq(Seq(U)) /\ Len(Placed(p, k)) = Len(p)
             /\ \A i \in 1..Len(p) : Placed(p, k)[i] = Words(p[i], k + i - 1)
  <2> DEFINE I == k .. k + Len(p) - 1
             V == AnyWord(N, I)
  <2>1. Len(p) \in Nat /\ DOMAIN p = 1..Len(p)
    BY LenProperties
  <2>2. Placed(p, k) \in Seq(Seq(V))
    BY PreprocessOf
  <2>3. I \subseteq Nat
    BY <2>1
  <2> HIDE DEF I
  <2>4. Seq(V) \subseteq Seq(U)
    BY <2>3, WordMonotonic
  <2>5. Placed(p, k) \in Seq(Seq(U))
    BY <2>2, <2>4, SeqMonotonic
  <2>6. Placed(p, k) = [i \in 1..Len(p) |-> Words(p[i], k + i - 1)]
    BY <2>1 DEF Placed
  <2> QED BY <2>1, <2>5, <2>6
<1>5. a \in Seq(Seq(U)) /\ Len(a) = n + m /\ \A i \in 1..n + m : a[i] = Words(all[i], first + i - 1)
  BY <1>1, <1>4
<1>6. b \in Seq(Seq(U)) /\ Len(b) = n /\ \A i \in 1..n : b[i] = Words(s[i], first + i - 1)
  BY <1>4 DEF n
<1>7. c \in Seq(Seq(U)) /\ Len(c) = m /\ \A i \in 1..m : c[i] = Words(t[i], first + n + i - 1)
  <2>1. first + n \in Nat
    BY <1>1
  <2> QED BY <1>4, <2>1 DEF m
<1> HIDE DEF a, b, c
<1>8. /\ bc \in Seq(Seq(U)) /\ Len(bc) = n + m
      /\ \A i \in 1..n + m : bc[i] = IF i <= n THEN b[i] ELSE c[i - n]
  BY <1>6, <1>7, ConcatProperties
<1> HIDE DEF bc
<1>9. ASSUME NEW i \in 1..n + m PROVE a[i] = bc[i]
  <2>1. CASE i <= n
    <3>1. i \in 1..n
      BY <1>1, <2>1
    <3> QED BY <1>1, <1>5, <1>6, <1>8, <2>1, <3>1
  <2>2. CASE ~(i <= n)
    <3> DEFINE j == i - n
    <3>1. j \in 1..m /\ first + n + j - 1 = first + i - 1
      BY <1>1, <2>2
    <3>2. bc[i] = c[j] /\ all[i] = t[j]
      BY <1>1, <1>8, <2>2
    <3> HIDE DEF j
    <3>3. c[j] = Words(t[j], first + n + j - 1)
      BY <1>7, <3>1
    <3> QED BY <1>5, <3>1, <3>2, <3>3
  <2> QED BY <2>1, <2>2
<1>10. a = bc
  BY <1>5, <1>8, <1>9, SeqEqual
<1>11. FlattenSeq(b \o c) = FlattenSeq(b) \o FlattenSeq(c)
  BY <1>6, <1>7, FlattenConcat
<1> QED BY <1>10, <1>11 DEF Preprocess, Placed, a, b, c, bc, all, n

-----------------------------------------------------------------------------
(* The places of what is spoken.                                           *)

SpokenPlaces(t) == {Spoken(t)[i].at : i \in DOMAIN Spoken(t)}

(* The places of nothing.                                                  *)
LEMMA PlacesOfNone == SpokenPlaces(<<>>) = {}
<1>1. Spoken(<<>>) = <<>>
  <2>1. Spoken(<<>>) = <<>>
    BY SpokenOf
  <2> QED BY <2>1
<1>2. DOMAIN Spoken(<<>>) = {}
  BY <1>1
<1> QED BY <1>2 DEF SpokenPlaces

(* The places of one more word.                                            *)
LEMMA PlacesAppend ==
    ASSUME NEW N, NEW A, NEW t \in Seq(AnyWord(N, A)), NEW w \in AnyWord(N, A)
    PROVE  SpokenPlaces(Append(t, w)) = SpokenPlaces(t) \cup ({w.at} \ {0})
<1> DEFINE s == Spoken(t)
           u == Spoken(Append(t, w))
<1>1. s \in Seq(AnyWord(N, A))
  BY SpokenOf
<1>2. u = IF w.at = 0 THEN s ELSE Append(s, w)
  BY SpokenOf DEF Uttered
<1>3. SpokenPlaces(t) = {s[i].at : i \in DOMAIN s} /\ SpokenPlaces(Append(t, w)) = {u[i].at : i \in DOMAIN u}
  BY DEF SpokenPlaces
<1> HIDE DEF s, u
<1>4. CASE w.at = 0
  BY <1>2, <1>3, <1>4
<1>5. CASE w.at # 0
  <2> DEFINE n == Len(s)
  <2>1. /\ u \in Seq(AnyWord(N, A)) /\ Len(u) = n + 1 /\ (\A i \in 1..n : u[i] = s[i]) /\ u[n + 1] = w
    BY <1>1, <1>2, <1>5, AppendProperties
  <2>2. n \in Nat /\ DOMAIN s = 1..n
    BY <1>1, LenProperties
  <2> HIDE DEF n
  <2>3. DOMAIN u = 1..n + 1
    BY <2>1, LenProperties
  <2>4. 1..n + 1 = (1..n) \cup {n + 1}
    BY <2>2
  <2>5. {u[i].at : i \in DOMAIN u} = {u[i].at : i \in 1..n} \cup {w.at}
    BY <2>1, <2>3, <2>4
  <2>6. {u[i].at : i \in 1..n} = {s[i].at : i \in 1..n}
    BY <2>1
  <2> QED BY <1>3, <1>5, <2>2, <2>5, <2>6
<1> QED BY <1>4, <1>5

(* The places of two texts.                                                *)
LEMMA PlacesConcat ==
    ASSUME NEW N, NEW A, NEW s \in Seq(AnyWord(N, A)), NEW t \in Seq(AnyWord(N, A))
    PROVE  SpokenPlaces(s \o t) = SpokenPlaces(s) \cup SpokenPlaces(t)
<1> DEFINE V == AnyWord(N, A)
           P == {u \in Seq(V) : SpokenPlaces(s \o u) = SpokenPlaces(s) \cup SpokenPlaces(u)}
<1>1. <<>> \in P
  <2>1. s \o <<>> = s
    BY ConcatEmptySeq
  <2> QED BY <2>1, PlacesOfNone, EmptySeq
<1>2. ASSUME NEW u \in Seq(V), NEW w \in V, u \in P PROVE Append(u, w) \in P
  <2> DEFINE x == s \o u
  <2>1. s \o Append(u, w) = Append(x, w) /\ x \in Seq(V) /\ Append(u, w) \in Seq(V)
    BY ConcatAppend, ConcatProperties, AppendProperties
  <2>2. SpokenPlaces(x) = SpokenPlaces(s) \cup SpokenPlaces(u)
    BY <1>2
  <2> HIDE DEF x
  <2>3. SpokenPlaces(Append(x, w)) = SpokenPlaces(x) \cup ({w.at} \ {0})
    BY <2>1, PlacesAppend
  <2>4. SpokenPlaces(Append(u, w)) = SpokenPlaces(u) \cup ({w.at} \ {0})
    BY PlacesAppend
  <2>5. SpokenPlaces(s \o Append(u, w)) = SpokenPlaces(s) \cup SpokenPlaces(Append(u, w))
    BY <2>1, <2>2, <2>3, <2>4
  <2> QED BY <2>1, <2>5
<1> HIDE DEF P
<1>3. \A u \in Seq(V) : u \in P
  BY <1>1, <1>2, SequenceInduction
<1> QED BY <1>3 DEF P

(* The places of a text are those of its words, without 0.                 *)
LEMMA PlacesIn ==
    ASSUME NEW N, NEW A, NEW t \in Seq(AnyWord(N, A))
    PROVE  SpokenPlaces(t) \subseteq A \ {0}
<1> DEFINE V == AnyWord(N, A)
           P == {u \in Seq(V) : SpokenPlaces(u) \subseteq A \ {0}}
<1>1. <<>> \in P
  BY PlacesOfNone, EmptySeq
<1>2. ASSUME NEW u \in Seq(V), NEW w \in V, u \in P PROVE Append(u, w) \in P
  <2>1. SpokenPlaces(Append(u, w)) = SpokenPlaces(u) \cup ({w.at} \ {0})
    BY PlacesAppend
  <2>2. w.at \in A
    BY WordFacts
  <2>3. Append(u, w) \in Seq(V)
    BY AppendProperties
  <2>4. SpokenPlaces(Append(u, w)) \subseteq A \ {0}
    BY <1>2, <2>1, <2>2
  <2> QED BY <2>3, <2>4
<1> HIDE DEF P
<1>3. \A u \in Seq(V) : u \in P
  BY <1>1, <1>2, SequenceInduction
<1> QED BY <1>3 DEF P

(* A text that says something has a place.                                 *)
LEMMA VoicedPlaces ==
    ASSUME NEW N, NEW A, NEW t \in Voiced(N, A)
    PROVE  SpokenPlaces(t) # {}
<1> DEFINE s == Spoken(t)
<1>1. t \in Seq(AnyWord(N, A)) /\ NameAndPlace(s) # <<>>
  BY DEF Voiced, Said
<1>2. s \in Seq(AnyWord(N, A))
  BY <1>1, SpokenOf
<1>3. NameAndPlace(<<>>) = <<>>
  BY DEF NameAndPlace
<1>4. s # <<>>
  BY <1>1, <1>3
<1>5. SpokenPlaces(t) = {s[i].at : i \in DOMAIN s}
  BY DEF SpokenPlaces
<1> HIDE DEF s
<1>6. 1 \in DOMAIN s
  BY <1>2, <1>4, EmptySeq, LenProperties
<1> QED BY <1>5, <1>6

(* All is spoken but the commas that are split.                            *)
LEMMA SpokenAll ==
    ASSUME NEW N, NEW A, 0 \notin A, NEW t \in Seq(AnyWord(N, A))
    PROVE  Spoken(t) = t
<1> DEFINE V == AnyWord(N, A)
           P == {u \in Seq(V) : Spoken(u) = u}
<1>1. <<>> \in P
  BY SpokenOf, EmptySeq
<1>2. ASSUME NEW u \in Seq(V), NEW w \in V, u \in P PROVE Append(u, w) \in P
  <2>1. Spoken(Append(u, w)) = IF w.at = 0 THEN Spoken(u) ELSE Append(Spoken(u), w)
    BY SpokenOf DEF Uttered
  <2>2. w.at \in A
    BY WordFacts
  <2>3. Append(u, w) \in Seq(V)
    BY AppendProperties
  <2>4. w.at # 0 /\ Spoken(u) = u
    BY <1>2, <2>2
  <2>5. Spoken(Append(u, w)) = Append(u, w)
    BY <2>1, <2>4
  <2> QED BY <2>3, <2>5
<1> HIDE DEF P
<1>3. \A u \in Seq(V) : u \in P
  BY <1>1, <1>2, SequenceInduction
<1> QED BY <1>3 DEF P

(* The pages of a text, where pg is the page of a place.                   *)
Own(t, pg) == {pg[at] : at \in SpokenPlaces(t)}

(* The pages of nothing and of two texts.                                  *)
LEMMA OwnOf ==
    ASSUME NEW N, NEW A, NEW s \in Seq(AnyWord(N, A)), NEW t \in Seq(AnyWord(N, A)), NEW pg
    PROVE  Own(<<>>, pg) = {} /\ Own(s \o t, pg) = Own(s, pg) \cup Own(t, pg)
BY PlacesOfNone, PlacesConcat DEF Own

-----------------------------------------------------------------------------
(* What the pieces of a chunk weigh.                                       *)

Light(N, A) == {p \in Filled(AnyWord(N, A)) : Weight(p) <= LongSentence + 2}

(* One more sentence makes light pieces between full stops.                *)
LEMMA LightConcat ==
    ASSUME NEW N, NEW A, NEW s \in Seq(AnyWord(N, A)), s = <<>> \/ Last(s).stop,
           CutAfterStops(s) \in Seq(Light(N, A)),
           NEW t \in Seq(AnyWord(N, A)), Weight(t) <= LongSentence + 2
    PROVE  CutAfterStops(s \o t) \in Seq(Light(N, A))
<1> DEFINE V == AnyWord(N, A)
           G == Light(N, A)
           C(u) == CutAfterStops(s \o u)
           Good(u) == Weight(u) <= LongSentence + 2
                      => C(u) \in Seq(G) /\ (u # <<>> => C(u) # <<>> /\ Weight(Last(C(u))) <= Weight(u))
           P == {u \in Seq(V) : Good(u)}
<1>0. /\ LongSentence \in Nat /\ \A u \in Seq(V) : Weight(u) \in Nat
  BY WeightOf, TextAssumption
<1>1. <<>> \in P
  <2>1. s \o <<>> = s
    BY ConcatEmptySeq
  <2> QED BY <2>1, EmptySeq
<1>2. ASSUME NEW u \in Seq(V), NEW w \in V, u \in P PROVE Append(u, w) \in P
  <2> DEFINE x == s \o u
             all == Append(u, w)
             c == CutAfterStops(x)
             d == CutAfterStops(Append(x, w))
             begins == x # <<>> /\ Last(x).stop
  <2>1. s \o all = Append(x, w) /\ x \in Seq(V) /\ all \in Seq(V)
    BY ConcatAppend, ConcatProperties, AppendProperties
  <2>2. Weight(all) = Weight(u) + w.size + 1 /\ w.size \in Nat
    <3>1. Weight(Append(u, w)) = Weight(u) + w.size + 1
      BY WeightAppend
    <3>2. w.size \in Nat
      BY WordFacts
    <3> QED BY <3>1, <3>2
  <2>3. Good(u)
    BY <1>2
  <2>4. u = <<>> => x = s
    BY ConcatEmptySeq
  <2>5. d = Grown(c, w, begins)
    <3> HIDE DEF x
    <3> QED BY <2>1, StopsAppend
  <2>6. x = <<>> => c = <<>>
    <3> HIDE DEF x
    <3> SUFFICES ASSUME x = <<>> PROVE c = <<>>
      OBVIOUS
    <3>1. FlattenSeq(c) = x /\ c \in Seq(Filled(V))
      BY <2>1, CutText DEF CutAfterStops
    <3>2. Len(x) = 0
      BY EmptySeq
    <3> DEFINE cuts == {i \in 2..Len(x) : x[i - 1].stop}
    <3>3. c = CutBefore(x, cuts)
      BY DEF CutAfterStops
    <3> HIDE DEF cuts, c
    <3>4. CutBefore(x, cuts) = Cut(Numbers(Len(x)), x, cuts) /\ Cut(Numbers(0), x, cuts) = <<>>
      BY <2>1, CutNext
    <3> QED BY <3>2, <3>3, <3>4
  <2> SUFFICES ASSUME Weight(all) <= LongSentence + 2
               PROVE  d \in Seq(G) /\ d # <<>> /\ Weight(Last(d)) <= Weight(all)
    <3> DEFINE conclusion(y) == y \in Seq(G) /\ y # <<>> /\ Weight(Last(y)) <= Weight(all)
    <3>1. C(all) = d
      BY <2>1
    <3>2. ASSUME Weight(all) <= LongSentence + 2 => conclusion(C(all)) PROVE Good(all)
      BY <3>2
    <3>3. Good(all) => all \in P
      <4> HIDE DEF Good, all
      <4> QED BY <2>1
    <3> HIDE DEF all, d, C, Good, P
    <3>4. ASSUME Weight(all) <= LongSentence + 2 => conclusion(d) PROVE all \in P
      BY <3>1, <3>2, <3>3, <3>4
    <3> QED BY <3>4 DEF all
  <2>7. /\ Weight(u) <= LongSentence + 2 /\ Weight(u) \in Nat /\ w.size + 1 <= LongSentence + 2
        /\ w.size + 1 <= Weight(all)
    BY <1>0, <2>2
  <2>8. c \in Seq(G) /\ (u # <<>> => c # <<>> /\ Weight(Last(c)) <= Weight(u))
    BY <2>3, <2>7
  <2> HIDE DEF all, x, c, d
  <2>9. CASE c = <<>> \/ begins
    <3> DEFINE p == <<w>>
               none == <<>>
    <3>1. d = Append(c, p)
      BY <2>5, <2>9 DEF Grown
    <3>2. p = Append(none, w) /\ none \in Seq(V) /\ Weight(none) = 0 /\ p \in Seq(V) /\ p # <<>>
      BY Single, EmptySeq, WeightOf
    <3> HIDE DEF p, none
    <3>3. Weight(Append(none, w)) = Weight(none) + w.size + 1
      BY <3>2, WeightAppend
    <3>4. Weight(p) = w.size + 1
      BY <2>2, <3>2, <3>3
    <3>5. p \in G
      BY <2>7, <3>2, <3>4 DEF Light, Filled
    <3> HIDE DEF G
    <3>6. d \in Seq(G) /\ d # <<>> /\ Last(d) = p
      BY <2>8, <3>1, <3>5, FrontLast
    <3> QED BY <2>7, <3>4, <3>6
  <2>10. CASE ~(c = <<>> \/ begins)
    <3> DEFINE f == Front(c)
               l == Last(c)
               p == Append(l, w)
    <3>1. d = Append(f, p)
      BY <2>5, <2>10 DEF Grown
    <3>2. u # <<>>
      <4> SUFFICES ASSUME u = <<>> PROVE FALSE
        OBVIOUS
      <4>1. x = s
        BY <2>4
      <4>2. CASE s = <<>>
        BY <2>6, <2>10, <4>1, <4>2
      <4>3. CASE s # <<>>
        BY <2>10, <4>1, <4>3
      <4> QED BY <4>2, <4>3
    <3>3. f \in Seq(G) /\ l \in G
      <4>1. c \in Seq(G) /\ c # <<>>
        BY <2>8, <2>10
      <4> HIDE DEF G
      <4> QED BY <4>1, AsAppend, Zenon
    <3>4. l \in Seq(V) /\ Weight(l) <= Weight(u)
      BY <2>8, <3>2, <3>3 DEF Light, Filled
    <3> HIDE DEF f, l
    <3>5. Weight(Append(l, w)) = Weight(l) + w.size + 1 /\ Weight(l) \in Nat
      BY <3>4, WeightAppend, WeightOf
    <3>6. p \in Seq(V) /\ p # <<>>
      BY <3>4, AppendProperties
    <3> DEFINE heavy == Weight(p)
               before == Weight(l)
               whole == Weight(u)
               full == Weight(all)
    <3>b. /\ heavy = before + w.size + 1 /\ before \in Nat /\ before <= whole
          /\ whole \in Nat /\ full = whole + w.size + 1 /\ w.size \in Nat
          /\ full <= LongSentence + 2 /\ LongSentence \in Nat
      BY <1>0, <2>2, <2>7, <3>4, <3>5
    <3>7. heavy <= full /\ heavy <= LongSentence + 2
      <4> HIDE DEF heavy, before, whole, full, p, l, all
      <4> QED BY <3>b
    <3> HIDE DEF p
    <3>8. p \in G
      BY <3>6, <3>7 DEF Light, Filled
    <3> HIDE DEF G
    <3>9. d \in Seq(G) /\ d # <<>> /\ Last(d) = p
      BY <3>1, <3>3, <3>8, FrontLast
    <3> QED BY <3>7, <3>9
  <2> QED BY <2>9, <2>10
<1> HIDE DEF P
<1>3. t \in P
  <2>1. \A u \in Seq(V) : u \in P
    BY <1>1, <1>2, SequenceInduction
  <2> QED BY <2>1
<1> QED BY <1>3 DEF P

-----------------------------------------------------------------------------
(* Chunks.                                                                 *)

(* The text of a chunk: whole sentences, as long as allowed.               *)
ChunkText(N, A, limit) ==
    {t \in Finished(N, A) :
        \/ BigWord(t)
        \/ /\ Bytes(t) <= limit \/ Bytes(t) <= LongSentence + 1
           /\ CutAfterStops(t) \in Seq(Light(N, A))}

(* A sentence is spoken, ends with a full stop and is short.               *)
LEMMA SentenceOf ==
    ASSUME NEW N, NEW A, NEW t \in Sentence(N, A)
    PROVE  /\ t \in Finished(N, A) /\ t \in Voiced(N, A) /\ t \in Seq(AnyWord(N, A)) /\ t # <<>>
           /\ Last(t).stop
           /\ BigWord(t) \/ Bytes(t) <= LongSentence + 1
           /\ BigWord(t) \/ Weight(t) <= LongSentence + 2
<1>1. t \in Finished(N, A) /\ Short(t)
  BY DEF Sentence
<1>2. t \in Voiced(N, A) /\ Last(t).stop
  BY <1>1 DEF Finished
<1>3. t \in Seq(AnyWord(N, A)) /\ t # <<>>
  BY <1>2, VoicedOf
<1>4. Bytes(t) \in Nat /\ Weight(t) = Bytes(t) + 1
  BY <1>3, BytesOf
<1>5. BigWord(t) \/ Weight(t) <= LongSentence + 2
  BY <1>1, <1>4, TextAssumption DEF Short
<1> QED BY <1>1, <1>2, <1>3, <1>5 DEF Short

(* A text ends as its last sentence ends.                                  *)
LEMMA FinishedConcat ==
    ASSUME NEW N, NEW A, NEW s \in Seq(AnyWord(N, A)), NEW t \in Finished(N, A)
    PROVE  s \o t \in Finished(N, A)
<1> DEFINE f == Front(t)
           e == Last(t)
           x == s \o f
<1>1. t \in Voiced(N, A) /\ e.stop
  BY DEF Finished
<1>2. t \in Seq(AnyWord(N, A)) /\ t # <<>>
  BY <1>1, VoicedOf
<1>3. f \in Seq(AnyWord(N, A)) /\ e \in AnyWord(N, A) /\ t = Append(f, e)
  BY <1>2, AsAppend
<1>4. s \o t \in Voiced(N, A)
  BY <1>1, VoicedConcat
<1> HIDE DEF f, e
<1>5. s \o Append(f, e) = Append(x, e) /\ x \in Seq(AnyWord(N, A))
  BY <1>3, ConcatAppend, ConcatProperties
<1> HIDE DEF x
<1>6. Last(Append(x, e)) = e
  BY <1>3, <1>5, FrontLast
<1>7. Last(s \o t) = e
  BY <1>3, <1>5, <1>6
<1> DEFINE u == s \o t
<1> HIDE DEF u
<1>8. u \in Voiced(N, A) /\ Last(u).stop
  BY <1>1, <1>4, <1>7 DEF u, e
<1>9. u \in Finished(N, A)
  BY <1>8 DEF Finished
<1> QED BY <1>9 DEF u

(* Nothing has no pieces.                                                  *)
LEMMA NothingCut == CutAfterStops(<<>>) = <<>>
<1> DEFINE none == <<>>
           cuts == {i \in 2..Len(none) : none[i - 1].stop}
<1>1. none \in Seq({}) /\ Len(none) = 0
  BY EmptySeq
<1>2. CutAfterStops(none) = CutBefore(none, cuts)
  BY DEF CutAfterStops
<1> HIDE DEF none, cuts
<1>3. CutBefore(none, cuts) = Cut(Numbers(Len(none)), none, cuts) /\ Cut(Numbers(0), none, cuts) = <<>>
  BY <1>1, CutNext
<1>4. CutAfterStops(none) = <<>>
  BY <1>1, <1>2, <1>3
<1> QED BY <1>4 DEF none

(* The text of a chunk is spoken, ends with a full stop and is accepted.   *)
LEMMA ChunkTextOf ==
    ASSUME NEW N, NEW A, NEW limit, NEW t \in ChunkText(N, A, limit)
    PROVE  /\ t \in Finished(N, A) /\ t \in Voiced(N, A) /\ t \in Seq(AnyWord(N, A)) /\ t # <<>>
           /\ Last(t).stop
           /\ \/ BigWord(t)
              \/ /\ Bytes(t) <= limit \/ Bytes(t) <= LongSentence + 1
                 /\ CutAfterStops(t) \in Seq(Light(N, A))
<1>1. t \in Finished(N, A)
  BY DEF ChunkText
<1>2. t \in Voiced(N, A) /\ Last(t).stop
  BY <1>1 DEF Finished
<1>3. t \in Seq(AnyWord(N, A)) /\ t # <<>>
  BY <1>2, VoicedOf
<1> QED BY <1>1, <1>2, <1>3 DEF ChunkText

(* A sentence by itself is the text of a chunk.                            *)
LEMMA SentenceIsChunk ==
    ASSUME NEW N, NEW A, NEW limit, NEW t \in Sentence(N, A)
    PROVE  t \in ChunkText(N, A, limit)
<1>1. /\ t \in Finished(N, A) /\ t \in Seq(AnyWord(N, A))
      /\ BigWord(t) \/ (Bytes(t) <= LongSentence + 1 /\ Weight(t) <= LongSentence + 2)
  BY SentenceOf
<1>2. CASE BigWord(t)
  BY <1>1, <1>2 DEF ChunkText
<1>3. CASE ~BigWord(t)
  <2> DEFINE none == <<>>
             G == Light(N, A)
  <2>1. none \in Seq(AnyWord(N, A)) /\ CutAfterStops(none) \in Seq(G) /\ none \o t = t /\ none = <<>>
    <3>1. none \in Seq(AnyWord(N, A)) /\ none \o t = t
      BY <1>1, EmptySeq, ConcatEmptySeq
    <3>2. CutAfterStops(none) = none
      BY NothingCut
    <3>3. none \in Seq(G)
      BY EmptySeq
    <3> QED BY <3>1, <3>2, <3>3
  <2> HIDE DEF none
  <2>2. CutAfterStops(none \o t) \in Seq(G)
    BY <1>1, <1>3, <2>1, LightConcat
  <2>3. CutAfterStops(t) \in Seq(G)
    BY <2>1, <2>2
  <2> QED BY <1>1, <1>3, <2>3 DEF ChunkText
<1> QED BY <1>2, <1>3

(* And so is a chunk with a sentence that fits.                            *)
LEMMA JoinedChunk ==
    ASSUME NEW N, NEW A, NEW limit, NEW s \in ChunkText(N, A, limit), NEW t \in Sentence(N, A),
           Bytes(s \o t) <= limit
    PROVE  s \o t \in ChunkText(N, A, limit)
<1>1. /\ s \in Seq(AnyWord(N, A)) /\ Last(s).stop
      /\ BigWord(s) \/ CutAfterStops(s) \in Seq(Light(N, A))
  BY ChunkTextOf
<1>2. /\ t \in Finished(N, A) /\ t \in Seq(AnyWord(N, A))
      /\ BigWord(t) \/ Weight(t) <= LongSentence + 2
  BY SentenceOf
<1> DEFINE u == s \o t
<1>3. u \in Finished(N, A)
  BY <1>1, <1>2, FinishedConcat
<1>4. CASE BigWord(s) \/ BigWord(t)
  <2>1. BigWord(u)
    BY <1>1, <1>2, <1>4, BigConcat
  <2> HIDE DEF u
  <2>2. u \in ChunkText(N, A, limit)
    BY <1>3, <2>1 DEF ChunkText
  <2> QED BY <2>2 DEF u
<1>5. CASE ~(BigWord(s) \/ BigWord(t))
  <2>1. CutAfterStops(u) \in Seq(Light(N, A))
    BY <1>1, <1>2, <1>5, LightConcat
  <2>2. Bytes(u) <= limit
    OBVIOUS
  <2> HIDE DEF u
  <2>3. u \in ChunkText(N, A, limit)
    BY <1>3, <2>1, <2>2 DEF ChunkText
  <2> QED BY <2>3 DEF u
<1> QED BY <1>4, <1>5

(* The records of a sentence with its page, and of a chunk with its pages. *)
PageSentence(N, A, Q, pg) ==
    {s \in [page : Q, text : Sentence(N, A)] : Own(s.text, pg) = {s.page}}

ChunkOf(text, pg) == [text |-> text, pages |-> Ascending(Own(text, pg))]
AnyChunk(N, A, limit, pg) == {ChunkOf(t, pg) : t \in ChunkText(N, A, limit)}

(* The states of chunking: the pages are those of the open chunk.          *)
ChunkState(N, A, Q, pg, limit) ==
    {acc \in [out : Seq(AnyChunk(N, A, limit, pg)),
              current : ChunkText(N, A, limit) \cup {<<>>},
              pages : SUBSET Q] : acc.pages = Own(acc.current, pg)}

(* A chunk is closed with the pages of its words.                          *)
LEMMA ClosedOf ==
    ASSUME NEW N, NEW A, NEW Q, NEW pg, NEW limit, NEW acc \in ChunkState(N, A, Q, pg, limit)
    PROVE  /\ acc.out \in Seq(AnyChunk(N, A, limit, pg))
           /\ acc.current \in ChunkText(N, A, limit) \cup {<<>>}
           /\ acc.pages \in SUBSET Q /\ acc.pages = Own(acc.current, pg)
           /\ acc.current \in Seq(AnyWord(N, A))
           /\ Closed(acc) = IF acc.current = <<>> THEN acc.out
                            ELSE Append(acc.out, ChunkOf(acc.current, pg))
           /\ Closed(acc) \in Seq(AnyChunk(N, A, limit, pg))
<1> DEFINE H == AnyChunk(N, A, limit, pg)
<1>1. /\ acc.out \in Seq(H) /\ acc.current \in ChunkText(N, A, limit) \cup {<<>>}
      /\ acc.pages \in SUBSET Q /\ acc.pages = Own(acc.current, pg)
  BY DEF ChunkState
<1>2. acc.current \in Seq(AnyWord(N, A))
  BY <1>1, ChunkTextOf, EmptySeq
<1>3. Closed(acc) = IF acc.current = <<>> THEN acc.out
                    ELSE Append(acc.out, ChunkOf(acc.current, pg))
  BY <1>1 DEF Closed, Sorted, ChunkOf
<1>4. Closed(acc) \in Seq(H)
  <2>1. CASE acc.current = <<>>
    BY <1>1, <1>3, <2>1
  <2>2. CASE acc.current # <<>>
    <3> DEFINE c == ChunkOf(acc.current, pg)
               o == acc.out
    <3>1. c \in H
      BY <1>1, <2>2 DEF AnyChunk
    <3>2. Closed(acc) = Append(o, c) /\ o \in Seq(H)
      BY <1>1, <1>3, <2>2
    <3> HIDE DEF c, o, H
    <3> QED BY <3>1, <3>2, AppendProperties
  <2> QED BY <2>1, <2>2
<1> QED BY <1>1, <1>2, <1>3, <1>4

(* A sentence begins a chunk or joins the chunk before.                    *)
Joins(new, acc, text) ==
    \/ new.out = Closed(acc) /\ new.current = text
    \/ new.out = acc.out /\ new.current = acc.current \o text

(* One step of chunking.                                                   *)
LEMMA ChunkStepOf ==
    ASSUME NEW N, NEW A, NEW Q, NEW pg, NEW limit \in Nat, NEW acc \in ChunkState(N, A, Q, pg, limit),
           NEW s \in PageSentence(N, A, Q, pg)
    PROVE  /\ ChunkStep(acc, s, limit) \in ChunkState(N, A, Q, pg, limit)
           /\ s.text \in Seq(AnyWord(N, A))
           /\ Joins(ChunkStep(acc, s, limit), acc, s.text)
<1> DEFINE H == AnyChunk(N, A, limit, pg)
           T == ChunkText(N, A, limit)
           t == s.text
           c == acc.current
           new == ChunkStep(acc, s, limit)
<1>1. /\ s.page \in Q /\ t \in Sentence(N, A) /\ Own(t, pg) = {s.page}
  BY DEF PageSentence
<1>2. t \in Seq(AnyWord(N, A)) /\ t \in T
  BY <1>1, SentenceOf, SentenceIsChunk
<1>3. /\ acc.out \in Seq(H) /\ c \in T \cup {<<>>} /\ c \in Seq(AnyWord(N, A))
      /\ acc.pages \in SUBSET Q /\ acc.pages = Own(c, pg) /\ Closed(acc) \in Seq(H)
  BY ClosedOf
<1>4. acc = [out |-> acc.out, current |-> c, pages |-> acc.pages]
  <2>1. acc \in [out : Seq(H), current : T \cup {<<>>}, pages : SUBSET Q]
    BY DEF ChunkState
  <2> HIDE DEF H, T
  <2> QED BY <2>1
<1>5. CASE Bytes(c \o t) > limit
  <2>1. new = [out |-> Closed(acc), current |-> t, pages |-> {s.page}]
    BY <1>5 DEF ChunkStep
  <2> DEFINE o == Closed(acc)
  <2> HIDE DEF o, t, H, T, new
  <2>2. new.out = o /\ new.current = t /\ new.pages = Own(t, pg)
    BY <1>1, <2>1 DEF o
  <2>3. new \in [out : Seq(H), current : T \cup {<<>>}, pages : SUBSET Q]
    BY <1>1, <1>2, <1>3, <2>1 DEF o
  <2>4. new \in ChunkState(N, A, Q, pg, limit)
    BY <2>2, <2>3 DEF ChunkState, H, T
  <2>5. Joins(new, acc, t)
    BY <2>2 DEF Joins, o
  <2> QED BY <1>2, <2>4, <2>5 DEF t, new
<1>6. CASE ~(Bytes(c \o t) > limit)
  <2> DEFINE u == c \o t
  <2>1. new = [acc EXCEPT !.current = u, !.pages = acc.pages \cup {s.page}]
    BY <1>6 DEF ChunkStep
  <2>2. u \in T
    <3>1. CASE c = <<>>
      <4>1. u = t
        BY <1>2, <3>1, ConcatEmptySeq
      <4> QED BY <1>2, <4>1
    <3>2. CASE c # <<>>
      <4>1. c \in T
        BY <1>3, <3>2
      <4>2. u \in Seq(AnyWord(N, A))
        BY <1>2, <1>3, ConcatProperties
      <4> HIDE DEF u
      <4>3. Bytes(u) \in Nat
        BY <4>2, BytesOf
      <4>4. Bytes(c \o t) <= limit
        BY <1>6, <4>3 DEF u
      <4> HIDE DEF c, t
      <4> QED BY <1>1, <4>1, <4>4, JoinedChunk DEF u
    <3> QED BY <3>1, <3>2
  <2>3. Own(u, pg) = acc.pages \cup {s.page}
    BY <1>1, <1>2, <1>3, OwnOf
  <2> DEFINE q == acc.pages \cup {s.page}
             o == acc.out
             p == acc.pages
  <2> HIDE DEF u, t, H, T, new, c
  <2>4. acc = [out |-> o, current |-> c, pages |-> p] /\ new = [acc EXCEPT !.current = u, !.pages = q]
    BY <1>4, <2>1
  <2>5. q \in SUBSET Q
    BY <1>1, <1>3
  <2> HIDE DEF q, o, p
  <2>6. new = [out |-> o, current |-> u, pages |-> q]
    BY <2>4
  <2>7. new.out = o /\ new.current = u /\ new.pages = Own(u, pg)
    BY <2>3, <2>6 DEF q
  <2>8. new \in [out : Seq(H), current : T \cup {<<>>}, pages : SUBSET Q]
    BY <1>3, <2>2, <2>5, <2>6 DEF o
  <2>9. new \in ChunkState(N, A, Q, pg, limit)
    BY <2>7, <2>8 DEF ChunkState, H, T
  <2>10. Joins(new, acc, t)
    BY <2>7 DEF Joins, o, u, c
  <2> QED BY <1>2, <2>9, <2>10 DEF t, new
<1> QED BY <1>5, <1>6

(* Chunking before the last chunk is closed.                               *)
Chunked(sentences, limit) ==
    FoldLeft(LAMBDA acc, s : ChunkStep(acc, s, limit),
             [out |-> <<>>, current |-> <<>>, pages |-> {}], sentences)

(* What is shown of chunking.                                              *)
Chunking(N, A, Q, pg, limit) ==
    /\ Chunked(<<>>, limit) = [out |-> <<>>, current |-> <<>>, pages |-> {}]
    /\ \A seq \in Seq(PageSentence(N, A, Q, pg)) : Chunked(seq, limit) \in ChunkState(N, A, Q, pg, limit)
    /\ \A seq \in Seq(PageSentence(N, A, Q, pg)), e \in PageSentence(N, A, Q, pg) :
         Chunked(Append(seq, e), limit) = ChunkStep(Chunked(seq, limit), e, limit)

(* Chunking follows its step.                                              *)
LEMMA ChunkingHolds ==
    ASSUME NEW N, NEW A, NEW Q, NEW pg, NEW limit \in Nat
    PROVE  Chunking(N, A, Q, pg, limit)
<1> DEFINE S == ChunkState(N, A, Q, pg, limit)
           E == PageSentence(N, A, Q, pg)
           b == [out |-> <<>>, current |-> <<>>, pages |-> {}]
           h == [p \in S \X E |-> ChunkStep(p[1], p[2], limit)]
<1>0. b \in S /\ \A a \in S, e \in E : ChunkStep(a, e, limit) \in S
  <2>1. b \in S
    <3> DEFINE H == AnyChunk(N, A, limit, pg)
               T == ChunkText(N, A, limit)
    <3> HIDE DEF H, T
    <3>1. b \in [out : Seq(H), current : T \cup {<<>>}, pages : SUBSET Q]
      BY EmptySeq
    <3>2. b.pages = {} /\ b.current = <<>>
      OBVIOUS
    <3>3. Own(<<>>, pg) = {}
      BY PlacesOfNone DEF Own
    <3>4. b.pages = Own(b.current, pg)
      BY <3>2, <3>3
    <3> HIDE DEF b
    <3> QED BY <3>1, <3>4 DEF ChunkState, H, T
  <2> QED BY <2>1, ChunkStepOf
<1> HIDE DEF S, E
<1>1. b \in S /\ h \in StepsOn(S, E) /\ \A a \in S, e \in E : h[<<a, e>>] = ChunkStep(a, e, limit)
  BY <1>0 DEF StepsOn
<1>2. ASSUME NEW seq \in Seq(E) PROVE Chunked(seq, limit) = Outcome(h, b, seq)
  <2> DEFINE Table(it) == it = [s \in SUBSET DOMAIN seq |->
                                  IF s = {} THEN b ELSE ChunkStep(it[s \ {Max(s)}], seq[Max(s)], limit)]
  <2>1. Chunked(seq, limit) = (CHOOSE it : Table(it))[DOMAIN seq]
    BY DEF Chunked, FoldLeft, MapThenFoldSet
  <2> HIDE DEF b, h
  <2>2. PICK it \in [SUBSET DOMAIN seq -> S] : FoldTable(it, h, b, seq)
    BY <1>1, FoldTableOf
  <2>3. Table(it)
    <3>1. ASSUME NEW s \in SUBSET DOMAIN seq, s # {}
          PROVE  h[<<it[s \ {Max(s)}], seq[Max(s)]>>] = ChunkStep(it[s \ {Max(s)}], seq[Max(s)], limit)
      BY <1>1, <3>1, MaxOfDomain
    <3> QED BY <2>2, <3>1 DEF FoldTable
  <2> DEFINE jt == CHOOSE jt : Table(jt)
  <2>4. Table(jt)
    BY <2>3
  <2> HIDE DEF jt
  <2>5. Follows(jt, h, b, seq, S)
    <3>1. jt[{}] = b
      BY <2>4
    <3>2. ASSUME NEW s \in SUBSET DOMAIN seq, s # {}, jt[s \ {Max(s)}] \in S
          PROVE  jt[s] = h[<<jt[s \ {Max(s)}], seq[Max(s)]>>]
      <4>1. jt[s] = ChunkStep(jt[s \ {Max(s)}], seq[Max(s)], limit)
        BY <2>4, <3>2
      <4>2. seq[Max(s)] \in E
        BY <3>2, MaxOfDomain
      <4> QED BY <1>1, <3>2, <4>1, <4>2
    <3> QED BY <3>1, <3>2 DEF Follows
  <2> HIDE DEF Table
  <2>6. jt[DOMAIN seq] = Outcome(h, b, seq)
    BY <1>1, <2>5, FoldTableOutcome
  <2> QED BY <2>1, <2>6 DEF jt
<1> HIDE DEF h, b
<1>3. <<>> \in Seq(E) /\ \A seq \in Seq(E), e \in E : Append(seq, e) \in Seq(E)
  BY EmptySeq, AppendProperties
<1>4. Chunked(<<>>, limit) = b
  BY <1>2, <1>3, OutcomeOfNone
<1>5. ASSUME NEW seq \in Seq(E) PROVE Chunked(seq, limit) \in S
  BY <1>1, <1>2, OutcomeIn
<1>6. ASSUME NEW seq \in Seq(E), NEW e \in E
      PROVE  Chunked(Append(seq, e), limit) = ChunkStep(Chunked(seq, limit), e, limit)
  <2>1. Outcome(h, b, Append(seq, e)) = h[<<Outcome(h, b, seq), e>>]
    BY <1>1, OutcomeOfAppend
  <2> QED BY <2>1, <1>1, <1>2, <1>3, <1>5
<1> QED BY <1>4, <1>5, <1>6 DEF S, E, b, Chunking

(* Chunking keeps within its states.                                       *)
LEMMA ChunkedOf ==
    ASSUME NEW N, NEW A, NEW Q, NEW pg, NEW limit \in Nat
    PROVE  /\ Chunked(<<>>, limit) = [out |-> <<>>, current |-> <<>>, pages |-> {}]
           /\ \A ss \in Seq(PageSentence(N, A, Q, pg)) : Chunked(ss, limit) \in ChunkState(N, A, Q, pg, limit)
<1>1. Chunking(N, A, Q, pg, limit)
  BY ChunkingHolds
<1> QED BY <1>1 DEF Chunking

(* Chunking of one more sentence.                                          *)
LEMMA ChunkedNext ==
    ASSUME NEW N, NEW A, NEW Q, NEW pg, NEW limit \in Nat,
           NEW ss \in Seq(PageSentence(N, A, Q, pg)), NEW s \in PageSentence(N, A, Q, pg)
    PROVE  Chunked(Append(ss, s), limit) = ChunkStep(Chunked(ss, limit), s, limit)
<1>1. Chunking(N, A, Q, pg, limit)
  BY ChunkingHolds
<1> QED BY <1>1 DEF Chunking

(* The texts of records.                                                   *)
Texts(cs) == [k \in DOMAIN cs |-> cs[k].text]

HasText(X, Y) == \A x \in X : x.text \in Y

(* The texts of records, of nothing and of one more.                       *)
LEMMA TextsOf ==
    ASSUME NEW X, NEW Y, HasText(X, Y)
    PROVE  /\ Texts(<<>>) = <<>>
           /\ \A cs \in Seq(X) : Texts(cs) \in Seq(Y) /\ Len(Texts(cs)) = Len(cs)
           /\ \A cs \in Seq(X), c \in X : Texts(Append(cs, c)) = Append(Texts(cs), c.text)
<1> DEFINE f == [x \in X |-> x.text]
<1>1. f \in MapsTo(X, Y) /\ \A x \in X : f[x] = x.text
  BY DEF HasText, MapsTo
<1> HIDE DEF f
<1>2. \A cs \in Seq(X) : Texts(cs) = Map(f, cs)
  <2> SUFFICES ASSUME NEW cs \in Seq(X) PROVE Texts(cs) = Map(f, cs)
    OBVIOUS
  <2>1. \A k \in DOMAIN cs : cs[k] \in X
    BY LenProperties, ElementOfSeq
  <2> QED BY <1>1, <2>1 DEF Texts, Map
<1>3. Texts(<<>>) = <<>>
  BY DEF Texts
<1>4. ASSUME NEW cs \in Seq(X) PROVE Texts(cs) \in Seq(Y) /\ Len(Texts(cs)) = Len(cs)
  <2>1. Map(f, cs) \in Seq(Y) /\ Len(Map(f, cs)) = Len(cs)
    BY <1>1, MapOf
  <2> QED BY <1>2, <2>1
<1>5. ASSUME NEW cs \in Seq(X), NEW c \in X PROVE Texts(Append(cs, c)) = Append(Texts(cs), c.text)
  <2>1. Map(f, Append(cs, c)) = Append(Map(f, cs), f[c])
    BY <1>1, MapAppend
  <2>2. Texts(Append(cs, c)) = Map(f, Append(cs, c))
    <3> DEFINE all == Append(cs, c)
    <3>1. all \in Seq(X)
      BY AppendProperties
    <3> HIDE DEF all
    <3>2. Texts(all) = Map(f, all)
      BY <1>2, <3>1
    <3> QED BY <3>2 DEF all
  <2>3. Texts(cs) = Map(f, cs) /\ f[c] = c.text
    BY <1>1, <1>2
  <2> QED BY <2>1, <2>2, <2>3
<1> QED BY <1>3, <1>4, <1>5

(* What one more record says.                                              *)
LEMMA SaidTexts ==
    ASSUME NEW N, NEW A, NEW X, HasText(X, Seq(AnyWord(N, A))), NEW cs \in Seq(X), NEW c \in X
    PROVE  /\ FlattenSeq(Texts(cs)) \in Seq(AnyWord(N, A)) /\ c.text \in Seq(AnyWord(N, A))
           /\ Said(FlattenSeq(Texts(Append(cs, c)))) = Said(FlattenSeq(Texts(cs))) \o Said(c.text)
<1> DEFINE Y == Seq(AnyWord(N, A))
           tt == Texts(cs)
           t == c.text
           ft == FlattenSeq(tt)
<1>1. tt \in Seq(Y) /\ Texts(Append(cs, c)) = Append(tt, t)
  BY TextsOf
<1>2. t \in Y
  BY DEF HasText
<1> HIDE DEF tt, t
<1>3. ft \in Y /\ FlattenSeq(Append(tt, t)) = ft \o t
  BY <1>1, <1>2, FlattenAppend
<1> HIDE DEF ft
<1>4. Said(ft \o t) = Said(ft) \o Said(t)
  BY <1>2, <1>3, SaidConcat
<1>5. Said(FlattenSeq(Texts(Append(cs, c)))) = Said(ft) \o Said(t)
  BY <1>1, <1>3, <1>4
<1> QED BY <1>2, <1>3, <1>5 DEF ft, tt, t

(* Chunks and sentences have texts.                                        *)
LEMMA ChunksHaveText ==
    ASSUME NEW N, NEW A, NEW Q, NEW pg, NEW limit
    PROVE  /\ HasText(AnyChunk(N, A, limit, pg), Seq(AnyWord(N, A)))
           /\ HasText(PageSentence(N, A, Q, pg), Seq(AnyWord(N, A)))
<1>1. ASSUME NEW x \in AnyChunk(N, A, limit, pg) PROVE x.text \in Seq(AnyWord(N, A))
  <2>1. PICK t \in ChunkText(N, A, limit) : x = ChunkOf(t, pg)
    BY DEF AnyChunk
  <2>2. x.text = t
    BY <2>1 DEF ChunkOf
  <2> QED BY <2>2, ChunkTextOf
<1>2. ASSUME NEW x \in PageSentence(N, A, Q, pg) PROVE x.text \in Seq(AnyWord(N, A))
  <2>1. x.text \in Sentence(N, A)
    BY DEF PageSentence
  <2> QED BY <2>1, SentenceOf
<1> QED BY <1>1, <1>2 DEF HasText

(* What was said by the chunks and the open chunk.                         *)
Told(acc) == Said(FlattenSeq(Texts(acc.out))) \o Said(acc.current)

(* Closing a chunk says what was said.                                     *)
LEMMA ClosedTold ==
    ASSUME NEW N, NEW A, NEW Q, NEW pg, NEW limit, NEW acc \in ChunkState(N, A, Q, pg, limit)
    PROVE  /\ Said(FlattenSeq(Texts(Closed(acc)))) = Told(acc)
           /\ Said(FlattenSeq(Texts(acc.out))) \in Seq(Places(N, A))
           /\ Said(acc.current) \in Seq(Places(N, A))
<1> DEFINE H == AnyChunk(N, A, limit, pg)
           o == acc.out
           c == acc.current
           x == Said(FlattenSeq(Texts(o)))
<1>1. /\ o \in Seq(H) /\ c \in ChunkText(N, A, limit) \cup {<<>>} /\ c \in Seq(AnyWord(N, A))
      /\ Closed(acc) = IF c = <<>> THEN o ELSE Append(o, ChunkOf(c, pg))
  BY ClosedOf
<1>2. HasText(H, Seq(AnyWord(N, A)))
  BY ChunksHaveText
<1>3. x \in Seq(Places(N, A)) /\ Said(c) \in Seq(Places(N, A))
  <2> HIDE DEF o, c
  <2>1. Texts(o) \in Seq(Seq(AnyWord(N, A)))
    BY <1>1, <1>2, TextsOf
  <2>2. FlattenSeq(Texts(o)) \in Seq(AnyWord(N, A))
    BY <2>1, FlattenAppend
  <2> QED BY <1>1, <2>2, SaidOf
<1>4. CASE c = <<>>
  <2>1. Said(c) = <<>>
    BY <1>4, SaidOf
  <2>2. Closed(acc) = o
    BY <1>1, <1>4
  <2> HIDE DEF x
  <2>3. x \o <<>> = x
    BY <1>3, ConcatEmptySeq
  <2> QED BY <1>3, <2>1, <2>2, <2>3 DEF Told, x
<1>5. CASE c # <<>>
  <2> DEFINE r == ChunkOf(c, pg)
  <2>1. r \in H /\ r.text = c /\ Closed(acc) = Append(o, r)
    BY <1>1, <1>5 DEF AnyChunk, ChunkOf
  <2> HIDE DEF r, H, o
  <2>2. Said(FlattenSeq(Texts(Append(o, r)))) = Said(FlattenSeq(Texts(o))) \o Said(r.text)
    BY <1>1, <1>2, <2>1, SaidTexts
  <2> QED BY <1>3, <2>1, <2>2 DEF Told, o
<1> QED BY <1>4, <1>5

(* A step of chunking says one more sentence.                              *)
LEMMA ChunkStepTold ==
    ASSUME NEW N, NEW A, NEW Q, NEW pg, NEW limit \in Nat,
           NEW acc \in ChunkState(N, A, Q, pg, limit), NEW s \in PageSentence(N, A, Q, pg)
    PROVE  Told(ChunkStep(acc, s, limit)) = Told(acc) \o Said(s.text)
<1> DEFINE new == ChunkStep(acc, s, limit)
           t == s.text
           c == acc.current
           x == Said(FlattenSeq(Texts(acc.out)))
           y == Said(c)
           z == Said(t)
<1>0. t \in Seq(AnyWord(N, A))
  <2>1. t \in Sentence(N, A)
    BY DEF PageSentence
  <2> HIDE DEF t
  <2> QED BY <2>1, SentenceOf
<1>1. \/ new.out = Closed(acc) /\ new.current = t
      \/ new.out = acc.out /\ new.current = c \o t
  <2>1. Joins(ChunkStep(acc, s, limit), acc, s.text)
    BY ChunkStepOf
  <2> HIDE DEF new
  <2> QED BY <2>1 DEF Joins, new
<1>2. c \in Seq(AnyWord(N, A))
  BY ClosedOf
<1>3. x \in Seq(Places(N, A)) /\ y \in Seq(Places(N, A)) /\ z \in Seq(Places(N, A))
  <2>1. x \in Seq(Places(N, A)) /\ y \in Seq(Places(N, A))
    BY ClosedTold
  <2> QED BY <1>0, <2>1, SaidOf
<1>4. Said(FlattenSeq(Texts(Closed(acc)))) = x \o y
  BY ClosedTold DEF Told
<1> HIDE DEF new
<1>5. CASE new.out = Closed(acc) /\ new.current = t
  BY <1>4, <1>5 DEF Told, new
<1>6. CASE new.out = acc.out /\ new.current = c \o t
  <2> HIDE DEF c, t
  <2>1. Said(c \o t) = Said(c) \o Said(t)
    BY <1>0, <1>2, SaidConcat
  <2>2. Told(new) = x \o (y \o z)
    BY <1>6, <2>1 DEF Told
  <2> HIDE DEF x, y, z
  <2>3. (x \o y) \o z = x \o (y \o z)
    BY <1>3, ConcatAssociative
  <2> QED BY <2>2, <2>3 DEF Told, x, y, z, c, t, new
<1> QED BY <1>1, <1>5, <1>6 DEF new

(* Chunks say what their sentences say.                                    *)
LEMMA ChunksOf ==
    ASSUME NEW N, NEW A, NEW Q, NEW pg, NEW limit \in Nat,
           NEW sentences \in Seq(PageSentence(N, A, Q, pg))
    PROVE  /\ ChunksWithPages(sentences, limit) \in Seq(AnyChunk(N, A, limit, pg))
           /\ Said(FlattenSeq(Texts(ChunksWithPages(sentences, limit))))
                = Said(FlattenSeq(Texts(sentences)))
<1> DEFINE E == PageSentence(N, A, Q, pg)
           S == ChunkState(N, A, Q, pg, limit)
           P == {ss \in Seq(E) : Told(Chunked(ss, limit)) = Said(FlattenSeq(Texts(ss)))}
<1>1. ASSUME NEW ss \in Seq(E) PROVE Chunked(ss, limit) \in S
  BY ChunkedOf
<1>2. HasText(E, Seq(AnyWord(N, A)))
  BY ChunksHaveText
<1>3. <<>> \in P
  <2> DEFINE acc == Chunked(<<>>, limit)
             none == <<>>
  <2>1. acc = [out |-> none, current |-> none, pages |-> {}]
    BY ChunkedOf
  <2>2. acc.out = none /\ acc.current = none
    BY <2>1
  <2>3. Texts(none) = none /\ FlattenSeq(none) = none /\ Said(none) = none /\ none \o none = none
        /\ none \in Seq(E)
    <3>1. Texts(none) = none
      BY DEF Texts
    <3>2. FlattenSeq(none) = none
      BY FlattenAppend
    <3>3. Said(none) = none
      BY SaidOf
    <3>4. none \in Seq(E)
      BY EmptySeq
    <3>5. none \o none = none
      BY <3>4, ConcatEmptySeq
    <3> QED BY <3>1, <3>2, <3>3, <3>4, <3>5
  <2> HIDE DEF acc, none
  <2>4. Told(acc) = Said(FlattenSeq(Texts(none)))
    BY <2>2, <2>3 DEF Told
  <2>5. none \in P
    BY <2>3, <2>4 DEF acc, none
  <2> QED BY <2>5 DEF none
<1>4. ASSUME NEW ss \in Seq(E), NEW s \in E, ss \in P PROVE Append(ss, s) \in P
  <2> DEFINE acc == Chunked(ss, limit)
             all == Append(ss, s)
  <2>1. acc \in S /\ Told(acc) = Said(FlattenSeq(Texts(ss)))
    BY <1>1, <1>4
  <2>2. Chunked(Append(ss, s), limit) = ChunkStep(acc, s, limit)
    BY <1>4, ChunkedNext
  <2> HIDE DEF acc
  <2>3. Told(ChunkStep(acc, s, limit)) = Told(acc) \o Said(s.text)
    BY <2>1, ChunkStepTold
  <2>4. Said(FlattenSeq(Texts(Append(ss, s)))) = Said(FlattenSeq(Texts(ss))) \o Said(s.text)
    BY <1>2, SaidTexts
  <2>5. all \in Seq(E)
    <3> HIDE DEF E
    <3> QED BY AppendProperties
  <2>6. Told(Chunked(all, limit)) = Said(FlattenSeq(Texts(all)))
    BY <2>1, <2>2, <2>3, <2>4
  <2> HIDE DEF all
  <2>7. all \in P
    BY <2>5, <2>6
  <2> QED BY <2>7 DEF all
<1> HIDE DEF P
<1>5. sentences \in P
  <2>1. \A ss \in Seq(E) : ss \in P
    BY <1>3, <1>4, SequenceInduction
  <2> QED BY <2>1
<1> DEFINE acc == Chunked(sentences, limit)
<1>6. acc \in S /\ Told(acc) = Said(FlattenSeq(Texts(sentences)))
  BY <1>1, <1>5 DEF P
<1>7. ChunksWithPages(sentences, limit) = Closed(acc)
  BY DEF ChunksWithPages, Chunked
<1> HIDE DEF acc
<1>8. Closed(acc) \in Seq(AnyChunk(N, A, limit, pg)) /\ Said(FlattenSeq(Texts(Closed(acc)))) = Told(acc)
  BY <1>6, ClosedOf, ClosedTold
<1> QED BY <1>6, <1>7, <1>8

-----------------------------------------------------------------------------
(* Pages.                                                                  *)

(* The first k elements of a sequence.                                     *)
LEMMA PrefixNext ==
    ASSUME NEW X, NEW s \in Seq(X), NEW k \in 1..Len(s)
    PROVE  /\ k - 1 \in Nat /\ s[k] \in X /\ SubSeq(s, 1, k - 1) \in Seq(X)
           /\ SubSeq(s, 1, k) \in Seq(X)
           /\ SubSeq(s, 1, k) = Append(SubSeq(s, 1, k - 1), s[k])
<1>1. Len(s) \in Nat /\ DOMAIN s = 1..Len(s) /\ \A i \in 1..Len(s) : s[i] \in X
  BY LenProperties, ElementOfSeq
<1>2. SubSeq(s, 1, k) \in Seq(X) /\ SubSeq(s, 1, k - 1) \in Seq(X)
  BY <1>1, SubSeqProperties
<1> DEFINE a == SubSeq(s, 1, k - 1)
           e == s[k]
<1>3. SubSeq(s, 1, k) = a \o <<e>>
  <2>1. 1 \in 1..Len(s) /\ k \in 1..Len(s)
    BY <1>1
  <2> QED BY <2>1, SubSeqRecursiveSecond
<1>4. a \in Seq(X) /\ e \in X /\ k - 1 \in Nat
  BY <1>1, <1>2
<1> HIDE DEF a, e
<1>5. Append(a, e) = a \o <<e>>
  BY <1>4, AppendIsConcat
<1> QED BY <1>2, <1>3, <1>4, <1>5 DEF a, e

(* The first k pieces, joined.                                             *)
LEMMA FlattenPrefix ==
    ASSUME NEW X, NEW ss \in Seq(Seq(X)), NEW k \in 1..Len(ss)
    PROVE  /\ ss[k] \in Seq(X) /\ FlattenSeq(SubSeq(ss, 1, k - 1)) \in Seq(X)
           /\ FlattenSeq(SubSeq(ss, 1, k)) = FlattenSeq(SubSeq(ss, 1, k - 1)) \o ss[k]
<1> DEFINE a == SubSeq(ss, 1, k - 1)
           e == ss[k]
<1>1. a \in Seq(Seq(X)) /\ e \in Seq(X) /\ SubSeq(ss, 1, k) = Append(a, e)
  BY PrefixNext
<1> HIDE DEF a, e
<1>2. FlattenSeq(a) \in Seq(X) /\ FlattenSeq(Append(a, e)) = FlattenSeq(a) \o e
  BY <1>1, FlattenAppend
<1> QED BY <1>1, <1>2 DEF a, e

(* How many words are printed up to a page, and the places on a page.      *)
UpTo(pages, k) == Len(Printed(SubSeq(pages, 1, k)))
Start(pages, p) == UpTo(pages, p - 1) + 1
OnPage(pages, p) == Start(pages, p) .. UpTo(pages, p)

(* The words printed up to a page, page by page.                           *)
LEMMA UpToOf ==
    ASSUME NEW X, NEW pages \in Seq(Seq(X))
    PROVE  /\ UpTo(pages, 0) = 0 /\ UpTo(pages, Len(pages)) = Len(Printed(pages))
           /\ Printed(pages) \in Seq(X)
           /\ \A k \in 1..Len(pages) :
                /\ UpTo(pages, k) = UpTo(pages, k - 1) + Len(pages[k])
                /\ UpTo(pages, k) \in Nat /\ UpTo(pages, k - 1) \in Nat /\ Len(pages[k]) \in Nat
<1>1. UpTo(pages, 0) = 0
  <2>1. SubSeq(pages, 1, 0) = <<>>
    BY SubSeqEmpty
  <2>2. FlattenSeq(<<>>) = <<>>
    BY FlattenAppend
  <2>3. UpTo(pages, 0) = Len(<<>>)
    BY <2>1, <2>2, Zenon DEF UpTo, Printed
  <2> QED BY <2>3
<1>2. UpTo(pages, Len(pages)) = Len(Printed(pages)) /\ Printed(pages) \in Seq(X)
  BY SubSeqFull, FlattenAppend DEF UpTo, Printed
<1>3. ASSUME NEW k \in 1..Len(pages)
      PROVE  /\ UpTo(pages, k) = UpTo(pages, k - 1) + Len(pages[k])
             /\ UpTo(pages, k) \in Nat /\ UpTo(pages, k - 1) \in Nat /\ Len(pages[k]) \in Nat
  <2> DEFINE a == FlattenSeq(SubSeq(pages, 1, k - 1))
             b == pages[k]
  <2>1. a \in Seq(X) /\ b \in Seq(X) /\ FlattenSeq(SubSeq(pages, 1, k)) = a \o b
    BY FlattenPrefix
  <2> HIDE DEF a, b
  <2>2. Len(a \o b) = Len(a) + Len(b) /\ Len(a) \in Nat /\ Len(b) \in Nat
    BY <2>1, ConcatProperties, LenProperties
  <2>3. UpTo(pages, k) = Len(a \o b) /\ UpTo(pages, k - 1) = Len(a)
    BY <2>1, Zenon DEF UpTo, Printed, a
  <2> QED BY <2>2, <2>3 DEF b
<1> QED BY <1>1, <1>2, <1>3

(* And they are no fewer on a later page.                                  *)
LEMMA UpToGrows ==
    ASSUME NEW X, NEW pages \in Seq(Seq(X)), NEW m \in 0..Len(pages), NEW k \in 0..m
    PROVE  /\ UpTo(pages, k) \in Nat /\ UpTo(pages, m) \in Nat
           /\ UpTo(pages, k) <= UpTo(pages, m)
<1> DEFINE n == Len(pages)
           f == [i \in 0..n |-> UpTo(pages, i)]
           P == {i \in 0..n : f[i] \in Nat /\ \A j \in 0..i : f[j] \in Nat /\ f[j] <= f[i]}
<1>1. n \in Nat
  BY LenProperties
<1>2. f[0] = 0 /\ \A i \in 1..n : f[i] \in Nat /\ f[i - 1] \in Nat /\ f[i - 1] <= f[i]
  <2>1. UpTo(pages, 0) = 0
    BY UpToOf
  <2>2. ASSUME NEW i \in 1..n
        PROVE  /\ UpTo(pages, i) \in Nat /\ UpTo(pages, i - 1) \in Nat
               /\ UpTo(pages, i - 1) <= UpTo(pages, i)
    <3>1. /\ UpTo(pages, i) = UpTo(pages, i - 1) + Len(pages[i])
          /\ UpTo(pages, i) \in Nat /\ UpTo(pages, i - 1) \in Nat /\ Len(pages[i]) \in Nat
      BY UpToOf
    <3> QED BY <3>1
  <2>3. n \in Nat /\ f[0] = 0
    BY <1>1, <2>1
  <2>4. ASSUME NEW i \in 1..n PROVE f[i] = UpTo(pages, i) /\ f[i - 1] = UpTo(pages, i - 1)
    <3>1. i \in 0..n /\ i - 1 \in 0..n
      BY <2>3
    <3> QED BY <3>1
  <2> HIDE DEF f
  <2> QED BY <2>2, <2>3, <2>4
<1> HIDE DEF f
<1>3. 0 \in P
  BY <1>1, <1>2
<1>4. ASSUME NEW i \in 1..n, i - 1 \in P PROVE i \in P
  <2>1. f[i] \in Nat /\ f[i - 1] \in Nat /\ f[i - 1] <= f[i]
    BY <1>2
  <2>2. \A j \in 0..i - 1 : f[j] \in Nat /\ f[j] <= f[i - 1]
    BY <1>4
  <2>3. ASSUME NEW j \in 0..i PROVE f[j] \in Nat /\ f[j] <= f[i]
    <3>1. CASE j = i
      BY <2>1, <3>1
    <3>2. CASE j # i
      <4>1. j \in 0..i - 1
        BY <1>1, <3>2
      <4>2. f[j] \in Nat /\ f[j] <= f[i - 1]
        BY <2>2, <4>1
      <4> QED BY <2>1, <4>2
    <3> QED BY <3>1, <3>2
  <2>4. i \in 0..n
    BY <1>1
  <2> QED BY <2>1, <2>3, <2>4
<1> HIDE DEF P
<1>5. \A i \in 0..n : i \in P
  BY <1>1, <1>3, <1>4, InductionTo
<1>6. m \in P
  BY <1>1, <1>5
<1>7. m \in 0..n /\ k \in 0..n
  BY <1>1
<1>8. f[k] \in Nat /\ f[m] \in Nat /\ f[k] <= f[m]
  BY <1>6 DEF P
<1> QED BY <1>7, <1>8 DEF f

(* A place is on one page.                                                 *)
PageOfPlace(pages, at) == CHOOSE p \in DOMAIN pages : at \in OnPage(pages, p)

(* A place is on one page.                                                 *)
LEMMA OnOnePage ==
    ASSUME NEW X, NEW pages \in Seq(Seq(X)), NEW p \in DOMAIN pages, NEW at \in OnPage(pages, p)
    PROVE  /\ PageOfPlace(pages, at) = p
           /\ at \in 1..Len(Printed(pages))
<1> DEFINE n == Len(pages)
<1>1. n \in Nat /\ DOMAIN pages = 1..n
  BY LenProperties
<1>2. ASSUME NEW q \in 1..n, NEW r \in 1..n, at \in OnPage(pages, q), at \in OnPage(pages, r)
      PROVE  ~(q < r)
  <2> SUFFICES ASSUME q < r PROVE FALSE
    OBVIOUS
  <2>1. r - 1 \in 0..n /\ q \in 0..r - 1
    BY <1>1
  <2>2. UpTo(pages, q) <= UpTo(pages, r - 1) /\ UpTo(pages, q) \in Nat /\ UpTo(pages, r - 1) \in Nat
    BY <2>1, UpToGrows
  <2>3. at <= UpTo(pages, q) /\ at >= UpTo(pages, r - 1) + 1 /\ at \in Int
    BY <1>2 DEF OnPage, Start
  <2> QED BY <2>2, <2>3
<1>3. \A q \in DOMAIN pages : at \in OnPage(pages, q) => q = p
  <2> SUFFICES ASSUME NEW q \in 1..n, at \in OnPage(pages, q) PROVE q = p
    BY <1>1
  <2>1. ~(q < p) /\ ~(p < q)
    BY <1>1, <1>2
  <2> QED BY <1>1, <2>1
<1>4. PageOfPlace(pages, at) = p
  BY <1>3 DEF PageOfPlace
<1>5. at \in 1..Len(Printed(pages))
  <2>1. /\ p - 1 \in 0..n /\ p \in 0..n /\ n \in 0..n /\ 0 \in 0..p - 1
    BY <1>1
  <2>2. UpTo(pages, p - 1) \in Nat /\ UpTo(pages, p) \in Nat
    BY <1>1, UpToOf
  <2>3. UpTo(pages, p) <= UpTo(pages, n) /\ UpTo(pages, n) \in Nat
    BY <1>1, <2>1, UpToGrows
  <2>4. UpTo(pages, n) = Len(Printed(pages))
    BY UpToOf
  <2> QED BY <2>2, <2>3, <2>4 DEF OnPage, Start
<1> QED BY <1>4, <1>5

(* What is joined has a place for each element of each piece.              *)
LEMMA FlattenPlace ==
    ASSUME NEW X, NEW ss \in Seq(Seq(X)), NEW k \in 1..Len(ss), NEW i \in 1..Len(ss[k])
    PROVE  /\ UpTo(ss, k - 1) + i \in OnPage(ss, k)
           /\ UpTo(ss, k - 1) + i \in 1..Len(FlattenSeq(ss))
           /\ FlattenSeq(ss)[UpTo(ss, k - 1) + i] = ss[k][i]
<1> DEFINE n == Len(ss)
           at == UpTo(ss, k - 1) + i
           joined(m) == FlattenSeq(SubSeq(ss, 1, m))
           P == {m \in 0..n : m >= k => at \in 1..Len(joined(m)) /\ joined(m)[at] = ss[k][i]}
<1>1. n \in Nat /\ k - 1 \in 0..n /\ k \in 0..n
  BY LenProperties
<1>2. /\ UpTo(ss, k - 1) \in Nat /\ UpTo(ss, k) \in Nat /\ Len(ss[k]) \in Nat
      /\ UpTo(ss, k) = UpTo(ss, k - 1) + Len(ss[k])
  BY UpToOf
<1>3. at \in OnPage(ss, k) /\ at \in Nat /\ at >= 1
  BY <1>2 DEF OnPage, Start
<1>4. 0 \in P
  BY <1>1
<1>5. ASSUME NEW m \in 1..n, m - 1 \in P PROVE m \in P
  <2> SUFFICES ASSUME m >= k PROVE at \in 1..Len(joined(m)) /\ joined(m)[at] = ss[k][i]
    BY <1>1
  <2> DEFINE a == joined(m - 1)
             b == ss[m]
  <2>1. b \in Seq(X) /\ a \in Seq(X) /\ joined(m) = a \o b
    BY FlattenPrefix
  <2>2. Len(a) = UpTo(ss, m - 1)
    BY DEF UpTo, Printed
  <2>3. m >= k => (m = k \/ m - 1 >= k)
    BY <1>1
  <2>4. m - 1 >= k => at \in 1..Len(a) /\ a[at] = ss[k][i]
    BY <1>5
  <2> HIDE DEF a, b, joined
  <2>5. /\ Len(a) \in Nat /\ Len(b) \in Nat /\ Len(a \o b) = Len(a) + Len(b)
        /\ \A j \in 1..Len(a) : (a \o b)[j] = a[j]
        /\ \A j \in 1..Len(b) : (a \o b)[Len(a) + j] = b[j]
    BY <2>1, ConcatProperties, LenProperties
  <2>6. CASE m = k
    <3>1. at = Len(a) + i /\ i \in 1..Len(b) /\ b[i] = ss[k][i]
      BY <2>2, <2>6 DEF b
    <3> HIDE DEF at
    <3>2. at \in 1..Len(a \o b) /\ (a \o b)[at] = b[i]
      BY <2>5, <3>1
    <3> QED BY <2>1, <3>1, <3>2
  <2>7. CASE m - 1 >= k
    <3> HIDE DEF at
    <3>1. at \in 1..Len(a) /\ a[at] = ss[k][i]
      BY <2>4, <2>7
    <3>2. at \in 1..Len(a \o b) /\ (a \o b)[at] = a[at]
      BY <2>5, <3>1
    <3> QED BY <2>1, <3>1, <3>2
  <2> QED BY <2>3, <2>6, <2>7
<1> HIDE DEF P
<1>6. n \in P
  <2>1. \A m \in 0..n : m \in P
    BY <1>1, <1>4, <1>5, InductionTo
  <2> QED BY <1>1, <2>1
<1>7. at \in 1..Len(joined(n)) /\ joined(n)[at] = ss[k][i]
  BY <1>1, <1>6 DEF P
<1>8. joined(n) = FlattenSeq(ss)
  BY SubSeqFull
<1> QED BY <1>3, <1>7, <1>8

(* And there are no other places.                                          *)
LEMMA OnSomePage ==
    ASSUME NEW X, NEW pages \in Seq(Seq(X)), NEW at \in 1..Len(Printed(pages))
    PROVE  \E p \in 1..Len(pages) : at \in OnPage(pages, p)
<1> DEFINE m == Len(pages)
           P == {k \in 0..m : at <= UpTo(pages, k) => \E p \in 1..k : at \in OnPage(pages, p)}
<1>0. m \in Nat /\ DOMAIN pages = 1..m
  BY LenProperties
<1>1. 0 \in P
  BY <1>0, UpToOf
<1>2. ASSUME NEW k \in 1..m, k - 1 \in P PROVE k \in P
  <2>1. UpTo(pages, k) \in Nat /\ UpTo(pages, k - 1) \in Nat
    BY UpToOf
  <2>2. CASE at <= UpTo(pages, k - 1)
    <3>1. PICK p \in 1..k - 1 : at \in OnPage(pages, p)
      BY <1>2, <2>2
    <3>2. p \in 1..k
      BY <1>0
    <3> QED BY <1>0, <3>1, <3>2
  <2>3. CASE ~(at <= UpTo(pages, k - 1))
    <3>1. at <= UpTo(pages, k) => at \in OnPage(pages, k)
      BY <2>1, <2>3 DEF OnPage, Start
    <3>2. k \in 1..k
      BY <1>0
    <3> QED BY <1>0, <3>1, <3>2
  <2> QED BY <2>2, <2>3
<1>3. m \in P
  <2> HIDE DEF P
  <2>1. \A k \in 0..m : k \in P
    BY <1>0, <1>1, <1>2, InductionTo
  <2> QED BY <1>0, <2>1
<1>4. UpTo(pages, m) = Len(Printed(pages))
  BY UpToOf
<1> QED BY <1>0, <1>3, <1>4

(* So each of them is that of an element of a piece.                       *)
LEMMA FlattenFrom ==
    ASSUME NEW X, NEW ss \in Seq(Seq(X)), NEW at \in 1..Len(FlattenSeq(ss))
    PROVE  \E k \in 1..Len(ss) : \E i \in 1..Len(ss[k]) : at = UpTo(ss, k - 1) + i
<1>1. PICK k \in 1..Len(ss) : at \in OnPage(ss, k)
  BY OnSomePage DEF Printed
<1>2. /\ UpTo(ss, k - 1) \in Nat /\ UpTo(ss, k) \in Nat /\ Len(ss[k]) \in Nat
      /\ UpTo(ss, k) = UpTo(ss, k - 1) + Len(ss[k])
  BY UpToOf
<1> DEFINE i == at - UpTo(ss, k - 1)
<1>3. i \in 1..Len(ss[k]) /\ at = UpTo(ss, k - 1) + i
  BY <1>1, <1>2 DEF OnPage, Start
<1> QED BY <1>3

(* A later place is in a later piece, or later in the same one.            *)
LEMMA FlattenOrder ==
    ASSUME NEW X, NEW ss \in Seq(Seq(X)), NEW k \in 1..Len(ss), NEW i \in 1..Len(ss[k]),
           NEW l \in 1..Len(ss), NEW j \in 1..Len(ss[l])
    PROVE  UpTo(ss, k - 1) + i < UpTo(ss, l - 1) + j <=> (k < l \/ (k = l /\ i < j))
<1> DEFINE n == Len(ss)
<1>1. n \in Nat
  BY LenProperties
<1>2. ASSUME NEW p \in 1..n, NEW q \in 1..n, NEW x \in 1..Len(ss[p]), NEW y \in 1..Len(ss[q]), p < q
      PROVE  UpTo(ss, p - 1) + x < UpTo(ss, q - 1) + y
  <2>1. /\ UpTo(ss, p - 1) \in Nat /\ UpTo(ss, p) \in Nat /\ Len(ss[p]) \in Nat
        /\ UpTo(ss, p) = UpTo(ss, p - 1) + Len(ss[p])
        /\ UpTo(ss, q - 1) \in Nat /\ Len(ss[q]) \in Nat
    BY UpToOf
  <2>2. UpTo(ss, p) <= UpTo(ss, q - 1)
    <3>1. q - 1 \in 0..n /\ p \in 0..q - 1
      BY <1>1, <1>2
    <3> QED BY <3>1, UpToGrows
  <2>3. x \in Nat /\ x <= Len(ss[p]) /\ y \in Nat /\ y >= 1
    BY <2>1
  <2> DEFINE a == UpTo(ss, p - 1)
             b == UpTo(ss, p)
             c == UpTo(ss, q - 1)
             d == Len(ss[p])
  <2>4. a \in Nat /\ b \in Nat /\ c \in Nat /\ d \in Nat /\ b = a + d /\ b <= c /\ x <= d
    BY <2>1, <2>2, <2>3
  <2> HIDE DEF a, b, c, d
  <2>5. a + x < c + y
    BY <2>3, <2>4
  <2> QED BY <2>5 DEF a, c
<1>3. k < l => UpTo(ss, k - 1) + i < UpTo(ss, l - 1) + j
  BY <1>2
<1>4. l < k => UpTo(ss, l - 1) + j < UpTo(ss, k - 1) + i
  BY <1>2
<1>5. /\ UpTo(ss, k - 1) \in Nat /\ UpTo(ss, l - 1) \in Nat /\ Len(ss[k]) \in Nat /\ Len(ss[l]) \in Nat
  BY UpToOf
<1>6. k = l => (UpTo(ss, k - 1) + i < UpTo(ss, l - 1) + j <=> i < j)
  BY <1>5
<1>7. k < l \/ k = l \/ l < k
  BY <1>1
<1>8. k \in Int /\ l \in Int /\ i \in Int /\ j \in Int
  BY <1>1, <1>5
<1> DEFINE a == UpTo(ss, k - 1) + i
           b == UpTo(ss, l - 1) + j
<1>9. a \in Int /\ b \in Int
  BY <1>5, <1>8
<1> HIDE DEF a, b
<1>10. a < b <=> (k < l \/ (k = l /\ i < j))
  BY <1>3, <1>4, <1>6, <1>7, <1>8, <1>9 DEF a, b
<1> QED BY <1>10 DEF a, b

(* The sentences of a page, with their page.                               *)
Marked(p, ss) == [k \in DOMAIN ss |-> [page |-> p, text |-> ss[k]]]

(* One page for all places.                                                *)
Same(pg, C, p) == \A at \in C : at # 0 => pg[at] = p

(* Sentences of one page, with their page.                                 *)
LEMMA MarkedOf ==
    ASSUME NEW M, NEW C, NEW Q, NEW pg, NEW p \in Q, Same(pg, C, p),
           NEW ss \in Seq(Sentence(M, C))
    PROVE  /\ Marked(p, ss) \in Seq(PageSentence(M, C, Q, pg))
           /\ Texts(Marked(p, ss)) = ss
<1> DEFINE n == Len(ss)
           m == Marked(p, ss)
<1>1. n \in Nat /\ DOMAIN ss = 1..n /\ \A k \in 1..n : ss[k] \in Sentence(M, C)
  BY LenProperties, ElementOfSeq
<1>2. ASSUME NEW t \in Sentence(M, C) PROVE [page |-> p, text |-> t] \in PageSentence(M, C, Q, pg)
  <2>1. t \in Seq(AnyWord(M, C)) /\ t \in Voiced(M, C)
    BY SentenceOf
  <2>2. SpokenPlaces(t) # {}
    BY <2>1, VoicedPlaces
  <2>3. SpokenPlaces(t) \subseteq C \ {0}
    BY <2>1, PlacesIn
  <2>4. Own(t, pg) = {p}
    BY <2>2, <2>3 DEF Own, Same
  <2> QED BY <2>4 DEF PageSentence
<1>3. m = [k \in 1..n |-> [page |-> p, text |-> ss[k]]]
  BY <1>1 DEF Marked
<1> HIDE DEF m, n
<1>4. m \in [1..n -> PageSentence(M, C, Q, pg)]
  BY <1>1, <1>2, <1>3
<1>5. m \in Seq(PageSentence(M, C, Q, pg))
  BY <1>1, <1>4, SeqDef
<1>6. Texts(m) = [k \in 1..n |-> ss[k]]
  BY <1>3 DEF Texts
<1>7. Texts(m) = ss
  <2>1. ss \in [1..n -> Sentence(M, C)]
    BY <1>1, LenProperties DEF n
  <2> QED BY <1>6, <2>1
<1> QED BY <1>5, <1>7 DEF m

(* What is known of sentences marked with their page.                      *)
MarkedWell(M, C, Q, pg, p, ss) ==
    /\ Marked(p, ss) \in Seq(PageSentence(M, C, Q, pg))
    /\ Texts(Marked(p, ss)) = ss

(* The same, as one fact.                                                  *)
LEMMA MarkedHolds ==
    ASSUME NEW M, NEW C, NEW Q, NEW pg, NEW p \in Q, Same(pg, C, p),
           NEW ss \in Seq(Sentence(M, C))
    PROVE  MarkedWell(M, C, Q, pg, p, ss)
BY MarkedOf DEF MarkedWell

(* The texts of two sequences of records.                                  *)
LEMMA TextsConcat ==
    ASSUME NEW X, NEW Y, HasText(X, Y), NEW a \in Seq(X), NEW b \in Seq(X)
    PROVE  /\ Texts(a \o b) = Texts(a) \o Texts(b)
           /\ Texts(a) \in Seq(Y) /\ Texts(b) \in Seq(Y)
<1> DEFINE c == a \o b
           ta == Texts(a)
           tb == Texts(b)
           tc == Texts(c)
           td == ta \o tb
           n == Len(a)
           m == Len(b)
<1>1. /\ n \in Nat /\ m \in Nat /\ Len(c) = n + m /\ c \in Seq(X)
      /\ \A i \in 1..n + m : c[i] = IF i <= n THEN a[i] ELSE b[i - n]
  BY ConcatProperties, LenProperties
<1>2. DOMAIN a = 1..n /\ DOMAIN b = 1..m
  BY LenProperties
<1> HIDE DEF c, n, m
<1>3. DOMAIN c = 1..n + m
  BY <1>1, LenProperties
<1>4. /\ ta \in Seq(Y) /\ Len(ta) = n /\ tb \in Seq(Y) /\ Len(tb) = m /\ tc \in Seq(Y) /\ Len(tc) = n + m
  BY <1>1, TextsOf DEF n, m
<1>5. /\ \A i \in 1..n : ta[i] = a[i].text
      /\ \A i \in 1..m : tb[i] = b[i].text
      /\ \A i \in 1..n + m : tc[i] = c[i].text
  BY <1>2, <1>3 DEF Texts
<1> HIDE DEF ta, tb, tc
<1>6. /\ td \in Seq(Y) /\ Len(td) = n + m
      /\ \A i \in 1..n + m : td[i] = IF i <= n THEN ta[i] ELSE tb[i - n]
  BY <1>4, ConcatProperties
<1> HIDE DEF td
<1>7. ASSUME NEW i \in 1..n + m PROVE tc[i] = td[i]
  <2>1. CASE i <= n
    <3>1. i \in 1..n
      BY <1>1, <2>1
    <3> QED BY <1>1, <1>5, <1>6, <2>1, <3>1
  <2>2. CASE ~(i <= n)
    <3> DEFINE j == i - n
    <3>1. j \in 1..m
      BY <1>1, <2>2
    <3>2. td[i] = tb[j] /\ c[i] = b[j]
      BY <1>1, <1>6, <2>2
    <3> HIDE DEF j
    <3> QED BY <1>5, <3>1, <3>2
  <2> QED BY <2>1, <2>2
<1>8. tc = td
  BY <1>4, <1>6, <1>7, SeqEqual
<1> QED BY <1>4, <1>8 DEF tc, td, ta, tb, c

-----------------------------------------------------------------------------
(* The sentences of a document, page by page.                              *)
OfPage(pages, p) == Sentences(Preprocess(pages[p], Start(pages, p)))
ByPage(pages) == [p \in DOMAIN pages |-> Marked(p, OfPage(pages, p))]

(* The page of each place.                                                 *)
PagesOf(pages) == [at \in 1..Len(Printed(pages)) |-> PageOfPlace(pages, at)]

(* The words that are said for printed words.                              *)
Named(N) == N \subseteq DOMAIN Size /\ Comma \notin N

(* split_into_sentences_by_page goes page by page.                         *)
LEMMA PageSentencesBy ==
    ASSUME NEW pages
    PROVE  PageSentences(pages) = FlattenSeq(ByPage(pages))
BY DEF PageSentences, ByPage, Marked, OfPage, Start, UpTo

(* The sentences of a page have its page and say its words.                *)
LEMMA OfPageOf ==
    ASSUME NEW N, Named(N), NEW pages \in Seq(Seq(PrintOf(N))), NEW p \in DOMAIN pages
    PROVE  LET M == N \cup {Comma}
               B == 0..Len(Printed(pages))
           IN  /\ Marked(p, OfPage(pages, p))
                    \in Seq(PageSentence(M, B, DOMAIN pages, PagesOf(pages)))
               /\ Said(FlattenSeq(Texts(Marked(p, OfPage(pages, p)))))
                    = Said(Preprocess(pages[p], Start(pages, p)))
               /\ Preprocess(pages[p], Start(pages, p)) \in Seq(AnyWord(N, OnPage(pages, p)))
<1> DEFINE M == N \cup {Comma}
           B == 0..Len(Printed(pages))
           Q == DOMAIN pages
           pg == PagesOf(pages)
           A == OnPage(pages, p)
           C == A \cup {0}
           prints == pages[p]
           first == Start(pages, p)
           text == Preprocess(prints, first)
           ss == Sentences(text)
<1>1. Q = 1..Len(pages) /\ prints \in Seq(PrintOf(N))
  BY LenProperties, ElementOfSeq
<1>2. /\ UpTo(pages, p) = UpTo(pages, p - 1) + Len(prints)
      /\ UpTo(pages, p) \in Nat /\ UpTo(pages, p - 1) \in Nat /\ Len(prints) \in Nat
  BY <1>1, UpToOf
<1>3. first \in Nat /\ A = first .. first + Len(prints) - 1 /\ 0 \notin A
  BY <1>2 DEF Start, OnPage
<1>4. \A at \in A : PageOfPlace(pages, at) = p /\ at \in 1..Len(Printed(pages))
  BY OnOnePage
<1>5. Same(pg, C, p)
  BY <1>4 DEF PagesOf, Same
<1>6. C \subseteq B
  <2>1. Len(Printed(pages)) \in Nat
    BY UpToOf, LenProperties
  <2> QED BY <1>4, <2>1
<1> HIDE DEF pg, prints, first, A, B, Q, M
<1>7. text \in Seq(AnyWord(N, A))
  <2> DEFINE I == first .. first + Len(prints) - 1
  <2>1. Preprocess(prints, first) \in Seq(AnyWord(N, I))
    BY <1>1, <1>3, PreprocessOf DEF Named
  <2> QED BY <1>3, <2>1
<1>8. Widens(N, A, M, C)
  BY <1>3 DEF Widens, Named, M
<1> HIDE DEF text, C
<1>9. ss \in Seq(Sentence(M, C)) /\ Said(FlattenSeq(ss)) = Said(text)
  BY <1>7, <1>8, SentencesOf
<1> HIDE DEF ss
<1>10. p \in Q
  BY DEF Q
<1>11. Marked(p, ss) \in Seq(PageSentence(M, C, Q, pg)) /\ Texts(Marked(p, ss)) = ss
  <2>1. ss \in Seq(Sentence(M, C))
    BY <1>9
  <2>2. MarkedWell(M, C, Q, pg, p, ss)
    BY <1>5, <1>10, <2>1, MarkedHolds
  <2> QED BY <2>2 DEF MarkedWell
<1>12. PageSentence(M, C, Q, pg) \subseteq PageSentence(M, B, Q, pg)
  <2>1. Sentence(M, C) \subseteq Sentence(M, B)
    BY <1>6, VoicedMonotonic
  <2> QED BY <2>1 DEF PageSentence
<1>13. Marked(p, ss) \in Seq(PageSentence(M, B, Q, pg))
  BY <1>11, <1>12, SeqMonotonic
<1> QED BY <1>7, <1>9, <1>11, <1>13 DEF OfPage, ss, text, pg, prints, first, A, B, Q, M

(* The sentences of all pages have their pages and say the document.       *)
LEMMA PageSentencesOf ==
    ASSUME NEW N, Named(N), NEW pages \in Seq(Seq(PrintOf(N)))
    PROVE  LET M == N \cup {Comma}
               B == 0..Len(Printed(pages))
           IN  /\ PageSentences(pages) \in Seq(PageSentence(M, B, DOMAIN pages, PagesOf(pages)))
               /\ Said(FlattenSeq(Texts(PageSentences(pages)))) = Said(Preprocess(Printed(pages), 1))
<1> DEFINE M == N \cup {Comma}
           B == 0..Len(Printed(pages))
           Q == DOMAIN pages
           pg == PagesOf(pages)
           E == PageSentence(M, B, Q, pg)
           n == Len(pages)
           by == ByPage(pages)
           s(k) == FlattenSeq(SubSeq(by, 1, k))
           d(k) == Printed(SubSeq(pages, 1, k))
           P == {k \in 0..n : Said(FlattenSeq(Texts(s(k)))) = Said(Preprocess(d(k), 1))}
<1>1. n \in Nat /\ Q = 1..n
  BY LenProperties
<1>2. ASSUME NEW p \in Q
      PROVE  /\ Marked(p, OfPage(pages, p)) \in Seq(E)
             /\ Said(FlattenSeq(Texts(Marked(p, OfPage(pages, p))))) = Said(Preprocess(pages[p], Start(pages, p)))
  BY OfPageOf
<1> HIDE DEF E
<1>3. by \in Seq(Seq(E)) /\ Len(by) = n /\ \A p \in Q : by[p] = Marked(p, OfPage(pages, p))
  <2>1. by = [p \in 1..n |-> Marked(p, OfPage(pages, p))]
    BY <1>1 DEF ByPage
  <2>2. by \in [1..n -> Seq(E)]
    BY <1>1, <1>2, <2>1
  <2>3. by \in Seq(Seq(E))
    <3> HIDE DEF by, n
    <3> QED BY <1>1, <2>2, SeqDef
  <2>4. Len(by) = n
    BY <1>1, <2>2, <2>3, LenProperties
  <2> QED BY <1>1, <2>1, <2>3, <2>4
<1>4. HasText(E, Seq(AnyWord(M, B)))
  BY ChunksHaveText DEF E
<1> HIDE DEF by, Q, pg, B
<1>5. 0 \in P
  <2> DEFINE none == <<>>
  <2>1. SubSeq(by, 1, 0) = none /\ SubSeq(pages, 1, 0) = none
    BY SubSeqEmpty
  <2>2. FlattenSeq(none) = none
    BY FlattenAppend
  <2>3. Texts(none) = none
    BY DEF Texts
  <2>4. Preprocess(none, 1) = none
    <3>1. Preprocess(none, 1) = FlattenSeq([i \in DOMAIN none |-> Words(none[i], 1 + i - 1)])
      BY DEF Preprocess
    <3>2. [i \in DOMAIN none |-> Words(none[i], 1 + i - 1)] = none
      OBVIOUS
    <3> QED BY <2>2, <3>1, <3>2
  <2> HIDE DEF none
  <2>5. s(0) = none /\ d(0) = none
    BY <2>1, <2>2 DEF Printed
  <2>6. Said(FlattenSeq(Texts(s(0)))) = Said(Preprocess(d(0), 1))
    BY <2>2, <2>3, <2>4, <2>5
  <2> QED BY <1>1, <2>6
<1>6. ASSUME NEW k \in 1..n, k - 1 \in P PROVE k \in P
  <2> DEFINE a == s(k - 1)
             b == by[k]
             u == d(k - 1)
             v == pages[k]
             V == AnyWord(N, Nat)
  <2>1. a \in Seq(E) /\ b \in Seq(E) /\ s(k) = a \o b
    BY <1>3, FlattenPrefix
  <2>2. u \in Seq(PrintOf(N)) /\ v \in Seq(PrintOf(N)) /\ d(k) = u \o v
    BY FlattenPrefix DEF Printed
  <2>3. Said(FlattenSeq(Texts(a))) = Said(Preprocess(u, 1))
    BY <1>6
  <2>4. Said(FlattenSeq(Texts(b))) = Said(Preprocess(v, 1 + Len(u)))
    <3>1. Start(pages, k) = Len(u) + 1 /\ Len(u) \in Nat
      BY <2>2, LenProperties DEF Start, UpTo
    <3>2. Start(pages, k) = 1 + Len(u)
      BY <3>1
    <3>3. k \in Q
      BY <1>1
    <3> QED BY <1>2, <1>3, <3>2, <3>3
  <2> HIDE DEF a, b, u, v
  <2>5. Preprocess(u \o v, 1) = Preprocess(u, 1) \o Preprocess(v, 1 + Len(u))
    BY <2>2, PreprocessConcat DEF Named
  <2>6. Preprocess(u, 1) \in Seq(V) /\ Preprocess(v, 1 + Len(u)) \in Seq(V)
    <3>1. ASSUME NEW x \in Seq(PrintOf(N)), NEW first \in Nat PROVE Preprocess(x, first) \in Seq(V)
      <4> DEFINE I == first .. first + Len(x) - 1
      <4>1. Preprocess(x, first) \in Seq(AnyWord(N, I))
        BY PreprocessOf DEF Named
      <4>2. I \subseteq Nat
        OBVIOUS
      <4> HIDE DEF I
      <4>3. Seq(AnyWord(N, I)) \subseteq Seq(AnyWord(N, Nat))
        BY <4>2, WordMonotonic
      <4> QED BY <4>1, <4>3
    <3>2. 1 + Len(u) \in Nat
      BY <2>2, LenProperties
    <3> QED BY <2>2, <3>1, <3>2
  <2>7. Said(Preprocess(u \o v, 1)) = Said(Preprocess(u, 1)) \o Said(Preprocess(v, 1 + Len(u)))
    <3> DEFINE x == Preprocess(u, 1)
               y == Preprocess(v, 1 + Len(u))
    <3> HIDE DEF x, y
    <3>1. Said(x \o y) = Said(x) \o Said(y)
      BY <2>6, SaidConcat DEF x, y
    <3> QED BY <2>5, <3>1 DEF x, y
  <2>8. Said(FlattenSeq(Texts(a \o b))) = Said(FlattenSeq(Texts(a))) \o Said(FlattenSeq(Texts(b)))
    <3> DEFINE Y == Seq(AnyWord(M, B))
               ta == Texts(a)
               tb == Texts(b)
               fa == FlattenSeq(ta)
               fb == FlattenSeq(tb)
    <3>1. Texts(a \o b) = ta \o tb /\ ta \in Seq(Y) /\ tb \in Seq(Y)
      BY <1>4, <2>1, TextsConcat
    <3> HIDE DEF ta, tb
    <3>2. FlattenSeq(ta \o tb) = fa \o fb
      BY <3>1, FlattenConcat
    <3>3. fa \in Y /\ fb \in Y
      BY <3>1, FlattenAppend
    <3> HIDE DEF fa, fb
    <3>4. Said(fa \o fb) = Said(fa) \o Said(fb)
      BY <3>3, SaidConcat
    <3> QED BY <3>1, <3>2, <3>4 DEF fa, fb, ta, tb
  <2>9. Said(FlattenSeq(Texts(s(k)))) = Said(Preprocess(d(k), 1))
    BY <2>1, <2>2, <2>3, <2>4, <2>7, <2>8
  <2>10. k \in 0..n
    BY <1>1
  <2> HIDE DEF s, d
  <2> QED BY <2>9, <2>10
<1>7. n \in P
  <2> HIDE DEF P
  <2>1. \A k \in 0..n : k \in P
    BY <1>1, <1>5, <1>6, InductionTo
  <2> QED BY <1>1, <2>1
<1>8. s(n) = PageSentences(pages) /\ d(n) = Printed(pages) /\ FlattenSeq(by) \in Seq(E)
  <2>1. SubSeq(by, 1, n) = by
    BY <1>3, SubSeqFull
  <2>2. SubSeq(pages, 1, n) = pages
    BY SubSeqFull
  <2>3. FlattenSeq(by) \in Seq(E)
    BY <1>3, FlattenAppend
  <2> QED BY <2>1, <2>2, <2>3, PageSentencesBy DEF by
<1>9. PageSentences(pages) \in Seq(E)
  BY <1>8, PageSentencesBy DEF by
<1>10. Said(FlattenSeq(Texts(PageSentences(pages)))) = Said(Preprocess(Printed(pages), 1))
  BY <1>7, <1>8
<1> QED BY <1>9, <1>10 DEF E, B, Q, pg

-----------------------------------------------------------------------------
(* The numbers of a set in their order.                                    *)

Climbing(s) == \A i, j \in DOMAIN s : i < j => s[i] < s[j]

(* Some numbers up to n have a greatest one.                               *)
LEMMA Greatest ==
    ASSUME NEW n \in Nat, NEW S \in SUBSET (0..n), S # {}
    PROVE  \E m \in S : \A y \in S : m >= y
<1> DEFINE T == {n - y : y \in S}
<1>1. T \subseteq Nat /\ T # {}
  <2>1. \A y \in S : n - y \in Nat
    OBVIOUS
  <2> QED BY <2>1
<1>2. PICK x \in T : \A y \in T : x <= y
  <2> HIDE DEF T
  <2> QED BY <1>1, Least
<1>3. PICK m \in S : x = n - m
  OBVIOUS
<1>4. ASSUME NEW y \in S PROVE m >= y
  <2>1. n - y \in T
    OBVIOUS
  <2>2. n - m <= n - y
    BY <1>2, <1>3, <2>1
  <2>3. m \in Nat /\ y \in Nat
    OBVIOUS
  <2> QED BY <2>2, <2>3
<1>5. m \in S /\ \A y \in S : m >= y
  BY <1>4
<1> HIDE DEF T
<1> QED BY <1>5

(* The numbers of a finite set can be put in order.                        *)
LEMMA AscendingExists ==
    ASSUME NEW n \in Nat, NEW S \in SUBSET (0..n)
    PROVE  \E s \in [1..Cardinality(S) -> S] : Climbing(s)
<1> DEFINE Good(c) == \A T \in SUBSET (0..n) :
                        Cardinality(T) = c => \E s \in [1..c -> T] : Climbing(s)
           P == {c \in Nat : Good(c)}
<1>1. \A T \in SUBSET (0..n) : IsFiniteSet(T) /\ Cardinality(T) \in Nat
  <2>1. IsFiniteSet(0..n)
    BY FS_Interval
  <2> QED BY <2>1, FS_Subset, FS_CardinalityType
<1>2. 0 \in P
  <2> SUFFICES ASSUME NEW T \in SUBSET (0..n) PROVE \E s \in [1..0 -> T] : Climbing(s)
    OBVIOUS
  <2> DEFINE s == [i \in 1..0 |-> i]
  <2>1. s \in [1..0 -> T] /\ DOMAIN s = {}
    OBVIOUS
  <2> HIDE DEF s
  <2> QED BY <2>1 DEF Climbing
<1>3. ASSUME NEW c \in Nat, c \in P PROVE c + 1 \in P
  <2> SUFFICES ASSUME NEW T \in SUBSET (0..n), Cardinality(T) = c + 1
               PROVE  \E s \in [1..c + 1 -> T] : Climbing(s)
    OBVIOUS
    <2>1. T # {}
    BY <1>1, FS_EmptySet
  <2>2. PICK m \in T : \A y \in T : m >= y
    BY <2>1, Greatest
  <2> DEFINE R == T \ {m}
  <2>3. Cardinality(R) = c
    <3>1. IsFiniteSet(T)
      BY <1>1
    <3>2. Cardinality(T \ {m}) = IF m \in T THEN Cardinality(T) - 1 ELSE Cardinality(T)
      BY <3>1, FS_RemoveElement
    <3> QED BY <2>2, <3>2
  <2>4. PICK s \in [1..c -> R] : Climbing(s)
    BY <1>3, <2>3
  <2> DEFINE t == [i \in 1..c + 1 |-> IF i = c + 1 THEN m ELSE s[i]]
  <2>5. t \in [1..c + 1 -> T]
    <3>1. ASSUME NEW i \in 1..c + 1, i # c + 1 PROVE s[i] \in T
      <4>1. i \in 1..c
        BY <3>1
      <4> QED BY <4>1
    <3> QED BY <2>2, <3>1
  <2>6. ASSUME NEW i \in 1..c + 1, NEW j \in 1..c + 1, i < j PROVE t[i] < t[j]
    <3>1. i \in 1..c /\ s[i] \in R
      BY <2>6
    <3>2. CASE j = c + 1
      <4>1. t[i] = s[i] /\ t[j] = m
        BY <3>1, <3>2
      <4>2. s[i] \in Nat /\ m \in Nat /\ s[i] # m /\ m >= s[i]
        <5> DEFINE x == s[i]
        <5>1. x \in T /\ x # m
          BY <3>1
        <5> HIDE DEF x
        <5>2. x \in Nat /\ m \in Nat /\ m >= x
          BY <2>2, <5>1
        <5> QED BY <5>1, <5>2 DEF x
      <4> QED BY <4>1, <4>2
    <3>3. CASE j # c + 1
      <4>1. j \in 1..c
        BY <3>3
      <4>2. t[i] = s[i] /\ t[j] = s[j]
        BY <3>1, <3>3
      <4> QED BY <2>4, <2>6, <3>1, <4>1, <4>2 DEF Climbing
    <3> QED BY <3>2, <3>3
  <2>7. DOMAIN t = 1..c + 1
    OBVIOUS
  <2> HIDE DEF t
  <2> QED BY <2>5, <2>6, <2>7 DEF Climbing
<1> HIDE DEF P
<1>4. \A c \in Nat : c \in P
  BY <1>2, <1>3, Induction
<1>5. Cardinality(S) \in P
  BY <1>1, <1>4
<1> QED BY <1>5 DEF P

(* Ascending puts them in order, each of them and no other.                *)
LEMMA AscendingOf ==
    ASSUME NEW n \in Nat, NEW S \in SUBSET (0..n)
    PROVE  /\ Ascending(S) \in Seq(S) /\ ToSet(Ascending(S)) = S
           /\ Climbing(Ascending(S))
<1> DEFINE c == Cardinality(S)
           s == Ascending(S)
<1>1. IsFiniteSet(S) /\ c \in Nat
  <2>1. IsFiniteSet(0..n)
    BY FS_Interval
  <2> QED BY <2>1, FS_Subset, FS_CardinalityType
<1>2. s \in [1..c -> S] /\ Climbing(s)
  BY AscendingExists DEF Ascending, Climbing
<1> HIDE DEF s
<1>3. \A i, j \in 1..c : i # j => s[i] # s[j]
  <2> SUFFICES ASSUME NEW i \in 1..c, NEW j \in 1..c, i # j PROVE s[i] # s[j]
    OBVIOUS
  <2>1. s[i] \in Nat /\ s[j] \in Nat /\ i \in Nat /\ j \in Nat
    <3>1. s[i] \in S /\ s[j] \in S
      BY <1>2
    <3>2. \A x \in S : x \in Nat
      OBVIOUS
    <3>3. s[i] \in Nat /\ s[j] \in Nat
      BY <3>1, <3>2
    <3> HIDE DEF c
    <3> QED BY <1>1, <3>3
  <2>2. i < j \/ j < i
    BY <2>1
  <2>3. s[i] < s[j] \/ s[j] < s[i]
    BY <1>2, <2>2 DEF Climbing
  <2> QED BY <2>1, <2>3
<1>4. \A y \in S : \E i \in 1..c : s[i] = y
  <2>1. IsFiniteSet(1..c) /\ Cardinality(1..c) = c
    BY <1>1, FS_Interval
  <2>2. s \in Injection(1..c, S)
    BY <1>2, <1>3 DEF Injection, IsInjective
  <2>3. s \in Surjection(1..c, S)
    BY <1>1, <2>1, <2>2, FS_Injection
  <2> QED BY <2>3 DEF Surjection
<1>5. s \in Seq(S)
  BY <1>1, <1>2, SeqDef
<1>6. ToSet(s) = S
  BY <1>2, <1>4 DEF ToSet
<1> QED BY <1>2, <1>5, <1>6 DEF s

(* A sequence that climbs through all numbers up to n counts them.         *)
LEMMA ClimbingCounts ==
    ASSUME NEW n \in Nat, NEW s \in Seq(1..n), Climbing(s), ToSet(s) = 1..n
    PROVE  s = Numbers(n)
<1> DEFINE m == Len(s)
           P == {i \in 0..m : \A j \in 1..i : s[j] = j}
<1>1. m \in Nat /\ DOMAIN s = 1..m /\ \A i \in 1..m : s[i] \in 1..n
  BY LenProperties, ElementOfSeq
<1>2. \A x \in 1..n : \E j \in 1..m : s[j] = x
  BY <1>1 DEF ToSet
<1> HIDE DEF m
<1>3. 0 \in P
  BY <1>1
<1>4. ASSUME NEW i \in 1..m, i - 1 \in P PROVE i \in P
  <2>1. \A j \in 1..i - 1 : s[j] = j
    BY <1>4
  <2>2. s[i] \in 1..n /\ s[i] >= i
    <3>1. CASE i = 1
      BY <1>1, <3>1
    <3>2. CASE i # 1
      <4>1. i - 1 \in 1..i - 1 /\ i - 1 \in 1..m /\ i - 1 < i
        BY <1>1, <3>2
      <4>2. s[i - 1] = i - 1 /\ s[i - 1] < s[i]
        BY <1>1, <2>1, <4>1 DEF Climbing
      <4> QED BY <1>1, <4>1, <4>2
    <3> QED BY <3>1, <3>2
  <2>3. i \in 1..n
    BY <1>1, <2>2
  <2>4. PICK j \in 1..m : s[j] = i
    BY <1>2, <2>3
  <2>5. ~(j < i)
    <3> SUFFICES ASSUME j < i PROVE FALSE
      OBVIOUS
    <3>1. j \in 1..i - 1
      BY <1>1
    <3> QED BY <1>1, <2>1, <2>4, <3>1
  <2>6. ~(i < j)
    <3> SUFFICES ASSUME i < j PROVE FALSE
      OBVIOUS
    <3>1. s[i] < s[j]
      BY <1>1 DEF Climbing
    <3> QED BY <1>1, <2>2, <2>4, <3>1
  <2>7. s[i] = i
    BY <1>1, <2>4, <2>5, <2>6
  <2>8. \A k \in 1..i : k \in 1..i - 1 \/ k = i
    BY <1>1
  <2>9. \A k \in 1..i : s[k] = k
    BY <2>1, <2>7, <2>8
  <2> QED BY <1>1, <2>9
<1> HIDE DEF P
<1>5. m \in P
  <2>1. \A i \in 0..m : i \in P
    BY <1>1, <1>3, <1>4, InductionTo
  <2> QED BY <1>1, <2>1
<1>6. \A j \in 1..m : s[j] = j
  BY <1>5 DEF P
<1>7. m = n
  <2>1. m <= n
    <3>1. CASE m = 0
      BY <3>1
    <3>2. CASE m # 0
      <4>1. m \in 1..m
        BY <1>1, <3>2
      <4>2. m \in 1..n
        BY <1>1, <1>6, <4>1
      <4> QED BY <4>2
    <3> QED BY <3>1, <3>2
  <2>2. n <= m
    <3>1. CASE n = 0
      BY <1>1, <3>1
    <3>2. CASE n # 0
      <4>1. n \in 1..n
        BY <3>2
      <4>2. PICK j \in 1..m : s[j] = n
        BY <1>2, <4>1
      <4> QED BY <1>1, <1>6, <4>2
    <3> QED BY <3>1, <3>2
  <2> QED BY <1>1, <2>1, <2>2
<1>8. s = [i \in 1..m |-> s[i]]
  BY <1>1
<1>9. [i \in 1..m |-> s[i]] = [i \in 1..m |-> i]
  BY <1>6
<1> QED BY <1>7, <1>8, <1>9 DEF Numbers

-----------------------------------------------------------------------------
(* What is accepted.                                                       *)

(* The text of a chunk is accepted by validate_chunk.                      *)
LEMMA ChunkIsValid ==
    ASSUME NEW N, NEW A, NEW limit \in Nat, NEW t \in ChunkText(N, A, limit)
    PROVE  Valid(t, Limits(limit)) \/ BigWord(t)
<1> SUFFICES ASSUME ~BigWord(t) PROVE Valid(t, Limits(limit))
  OBVIOUS
<1> DEFINE c == CutAfterStops(t)
           b == Bytes(t)
           x == Limits(limit).chunk
           y == Limits(limit).sentence
<1>1. /\ b <= limit \/ b <= LongSentence + 1
      /\ c \in Seq(Light(N, A)) /\ t \in Seq(AnyWord(N, A))
  BY ChunkTextOf
<1>2. b \in Nat
  BY <1>1, BytesOf
<1>3. /\ x \in Nat /\ y \in Nat /\ limit <= x /\ LongSentence + 2 <= y /\ LongSentence + 2 <= x
      /\ LongSentence \in Nat
  BY TextAssumption DEF Limits
<1>4. DOMAIN c = 1..Len(c) /\ \A k \in DOMAIN c : c[k] \in Light(N, A)
  BY <1>1, LenProperties, ElementOfSeq
<1> HIDE DEF b, x, y, c
<1>5. b <= x
  BY <1>1, <1>2, <1>3
<1>6. ASSUME NEW p \in Light(N, A) PROVE Bytes(p) <= y /\ Bytes(p) + 1 <= y
  <2>1. p \in Seq(AnyWord(N, A)) /\ p # <<>> /\ Weight(p) <= LongSentence + 2
    BY DEF Light, Filled
  <2>2. Bytes(p) \in Nat /\ Weight(p) = Bytes(p) + 1
    BY <2>1, BytesOf
  <2> QED BY <1>3, <2>1, <2>2
<1>7. \A k \in DOMAIN c : Bytes(c[k]) <= y /\ (Last(c[k]).stop => Bytes(c[k]) + 1 <= y)
  BY <1>4, <1>6
<1> QED BY <1>5, <1>7 DEF Valid, b, x, y, c

-----------------------------------------------------------------------------
(* The chunks of a document.                                               *)

(* Chunks speak a document; they are accepted; one has the pages of its    *)
(* words.                                                                  *)
Speaks(cs, pages) == Said(FlattenSeq(Texts(cs))) = NameAndPlace(Preprocess(Printed(pages), 1))

Accepted(cs, limit) ==
    \A k \in DOMAIN cs : Valid(cs[k].text, Limits(limit)) \/ BigWord(cs[k].text)

HasItsPages(c, pages) ==
    /\ c.pages \in Seq(DOMAIN pages) /\ c.pages # <<>> /\ Climbing(c.pages)
    /\ ToSet(c.pages) = {PageOfPlace(pages, at) : at \in SpokenPlaces(c.text)}

(* The records of chunks.                                                  *)
ChunkRecord(N, A, T) == [text : Seq(AnyWord(N, A)), pages : Seq(T)]

(* All words of a document are spoken.                                     *)
LEMMA AllIsSaid ==
    ASSUME NEW N, Named(N), NEW pages \in Seq(Seq(PrintOf(N)))
    PROVE  Said(Preprocess(Printed(pages), 1)) = NameAndPlace(Preprocess(Printed(pages), 1))
<1> DEFINE prints == Printed(pages)
           first == 1
           A == first .. first + Len(prints) - 1
           text == Preprocess(prints, first)
<1>1. prints \in Seq(PrintOf(N))
  BY FlattenAppend DEF Printed
<1>2. 0 \notin A /\ first \in Nat
  BY <1>1, LenProperties
<1> HIDE DEF prints, first
<1>3. text \in Seq(AnyWord(N, A))
  BY <1>1, <1>2, PreprocessOf DEF Named
<1> HIDE DEF text, A
<1>4. Spoken(text) = text
  BY <1>2, <1>3, SpokenAll
<1> QED BY <1>4 DEF Said, text, prints, first

(* A chunk has the pages of its words.                                     *)
LEMMA ChunkHasItsPages ==
    ASSUME NEW N, Named(N), NEW pages \in Seq(Seq(PrintOf(N))), NEW limit,
           NEW c \in AnyChunk(N \cup {Comma}, 0..Len(Printed(pages)), limit, PagesOf(pages))
    PROVE  /\ c.text \in ChunkText(N \cup {Comma}, 0..Len(Printed(pages)), limit)
           /\ c \in ChunkRecord(N \cup {Comma}, 0..Len(Printed(pages)), DOMAIN pages)
           /\ HasItsPages(c, pages)
<1> DEFINE M == N \cup {Comma}
           n == Len(Printed(pages))
           B == 0..n
           pg == PagesOf(pages)
           own == {PageOfPlace(pages, at) : at \in SpokenPlaces(c.text)}
<1>1. PICK t \in ChunkText(M, B, limit) : c = ChunkOf(t, pg)
  BY DEF AnyChunk
<1>2. c = [text |-> t, pages |-> Ascending(Own(t, pg))]
  BY <1>1 DEF ChunkOf
<1>3. t \in Seq(AnyWord(M, B))
  BY ChunkTextOf
<1>4. SpokenPlaces(t) \subseteq B \ {0} /\ n \in Nat /\ Len(pages) \in Nat /\ DOMAIN pages = 1..Len(pages)
  BY <1>3, PlacesIn, UpToOf, LenProperties
<1>5. ASSUME NEW at \in 1..n PROVE PageOfPlace(pages, at) \in DOMAIN pages
  <2>1. \E p \in DOMAIN pages : at \in OnPage(pages, p)
    BY <1>4, OnSomePage
  <2> QED BY <2>1 DEF PageOfPlace
<1>6. Own(t, pg) = own
  <2>1. \A at \in SpokenPlaces(t) : pg[at] = PageOfPlace(pages, at)
    BY <1>4 DEF PagesOf
  <2>2. Own(t, pg) = {PageOfPlace(pages, at) : at \in SpokenPlaces(t)}
    BY <2>1 DEF Own
  <2>3. c.text = t
    BY <1>2
  <2> QED BY <2>2, <2>3
<1>7. own \in SUBSET (0..Len(pages)) /\ own \subseteq DOMAIN pages /\ own # {}
  <2>1. c.text = t /\ SpokenPlaces(t) # {}
    BY <1>2, ChunkTextOf, VoicedPlaces
  <2>2. \A at \in SpokenPlaces(c.text) : PageOfPlace(pages, at) \in 1..Len(pages)
    BY <1>4, <1>5, <2>1
  <2>3. own \subseteq 1..Len(pages) /\ own # {}
    BY <2>1, <2>2
  <2> HIDE DEF own
  <2> QED BY <1>4, <2>3
<1> HIDE DEF own
<1>8. Ascending(own) \in Seq(own) /\ ToSet(Ascending(own)) = own /\ Climbing(Ascending(own))
  BY <1>4, <1>7, AscendingOf
<1>9. Ascending(own) \in Seq(DOMAIN pages)
  <2>1. own \subseteq DOMAIN pages
    BY <1>7
  <2> QED BY <1>8, <2>1, SeqMonotonic
<1>10. c.text = t /\ c.pages = Ascending(own) /\ c = [text |-> t, pages |-> Ascending(own)]
  BY <1>2, <1>6
<1> HIDE DEF M, B
<1>11. c \in ChunkRecord(M, B, DOMAIN pages)
  BY <1>3, <1>9, <1>10 DEF ChunkRecord
<1>12. c.pages # <<>>
  <2>1. ToSet(<<>>) = {}
    BY DEF ToSet
  <2> QED BY <1>7, <1>8, <1>10, <2>1
<1> QED BY <1>8, <1>9, <1>10, <1>11, <1>12 DEF HasItsPages, own, M, B

(* extract_and_chunk_paged: the chunks of a document with pages speak its  *)
(* words, have their pages and no others, and are accepted.                *)
THEOREM PagedChunksOf ==
    ASSUME NEW N, Named(N), NEW pages \in Seq(Seq(PrintOf(N))), NEW limit \in Nat
    PROVE  LET cs == PagedChunks(pages, limit) IN
           /\ cs \in Seq(ChunkRecord(N \cup {Comma}, 0..Len(Printed(pages)), DOMAIN pages))
           /\ Speaks(cs, pages) /\ Accepted(cs, limit)
           /\ \A k \in DOMAIN cs : HasItsPages(cs[k], pages)
<1> DEFINE M == N \cup {Comma}
           B == 0..Len(Printed(pages))
           Q == DOMAIN pages
           pg == PagesOf(pages)
           ss == PageSentences(pages)
           cs == ChunksWithPages(ss, limit)
<1>1. ss \in Seq(PageSentence(M, B, Q, pg)) /\ Said(FlattenSeq(Texts(ss))) = Said(Preprocess(Printed(pages), 1))
  BY PageSentencesOf
<1> HIDE DEF ss
<1>2. cs \in Seq(AnyChunk(M, B, limit, pg)) /\ Said(FlattenSeq(Texts(cs))) = Said(FlattenSeq(Texts(ss)))
  <2> HIDE DEF M, B, Q, pg
  <2> QED BY <1>1, ChunksOf
<1>3. PagedChunks(pages, limit) = cs
  BY DEF PagedChunks, ss
<1> HIDE DEF cs
<1>4. Speaks(cs, pages)
  BY <1>1, <1>2, AllIsSaid DEF Speaks
<1>5. ASSUME NEW c \in AnyChunk(M, B, limit, pg)
      PROVE  /\ c \in ChunkRecord(M, B, Q) /\ HasItsPages(c, pages)
             /\ Valid(c.text, Limits(limit)) \/ BigWord(c.text)
  <2>1. c \in ChunkRecord(M, B, Q) /\ HasItsPages(c, pages) /\ c.text \in ChunkText(M, B, limit)
    BY ChunkHasItsPages
  <2> DEFINE t == c.text
  <2> HIDE DEF t, M, B
  <2>2. t \in ChunkText(M, B, limit)
    BY <2>1 DEF t
  <2>3. Valid(t, Limits(limit)) \/ BigWord(t)
    BY <2>2, ChunkIsValid
  <2> QED BY <2>1, <2>3 DEF t
<1> HIDE DEF M, B, pg, Q
<1>6. \A k \in DOMAIN cs : cs[k] \in AnyChunk(M, B, limit, pg)
  BY <1>2, LenProperties, ElementOfSeq
<1>7. cs \in Seq(ChunkRecord(M, B, Q))
  <2>1. AnyChunk(M, B, limit, pg) \subseteq ChunkRecord(M, B, Q)
    BY <1>5
  <2> QED BY <1>2, <2>1, SeqMonotonic
<1>8. Accepted(cs, limit) /\ \A k \in DOMAIN cs : HasItsPages(cs[k], pages)
  BY <1>5, <1>6 DEF Accepted
<1> QED BY <1>3, <1>4, <1>7, <1>8 DEF M, B, Q

(* extract_and_chunk: the chunks of a document without pages speak its     *)
(* words, have no pages, and are accepted.                                 *)
THEOREM PlainChunksOf ==
    ASSUME NEW N, Named(N), NEW pages \in Seq(Seq(PrintOf(N))), NEW limit \in Nat
    PROVE  LET cs == PlainChunks(pages, limit) IN
           /\ cs \in Seq(ChunkRecord(N \cup {Comma}, 0..Len(Printed(pages)), DOMAIN pages))
           /\ Speaks(cs, pages) /\ Accepted(cs, limit)
           /\ \A k \in DOMAIN cs : cs[k].pages = <<>>
<1> DEFINE M == N \cup {Comma}
           B == 0..Len(Printed(pages))
           A == 1..Len(Printed(pages))
           pg == [at \in B |-> 0]
           prints == Printed(pages)
           text == Preprocess(prints, 1)
           ss == Sentences(text)
           marked == Marked(0, ss)
           cp == ChunksWithPages(marked, limit)
           cs == PlainChunks(pages, limit)
           R == ChunkRecord(M, B, DOMAIN pages)
<1>1. prints \in Seq(PrintOf(N)) /\ Len(prints) \in Nat
  BY UpToOf, LenProperties
<1>2. text \in Seq(AnyWord(N, A))
  <2> DEFINE first == 1
             I == first .. first + Len(prints) - 1
  <2>1. first \in Nat /\ I = A
    BY <1>1
  <2> HIDE DEF first, prints, A
  <2>2. Preprocess(prints, first) \in Seq(AnyWord(N, I))
    BY <1>1, <2>1, PreprocessOf DEF Named
  <2> QED BY <2>1, <2>2 DEF first
<1>3. Widens(N, A, M, B)
  BY <1>1 DEF Widens, Named
<1>4. Said(text) = NameAndPlace(text)
  BY AllIsSaid
<1>5. Same(pg, B, 0)
  BY DEF Same
<1> HIDE DEF text, A, M, B, pg, R
<1>6. ss \in Seq(Sentence(M, B)) /\ Said(FlattenSeq(ss)) = Said(text)
  BY <1>2, <1>3, SentencesOf
<1> HIDE DEF ss
<1>7. marked \in Seq(PageSentence(M, B, {0}, pg)) /\ Texts(marked) = ss
  <2> DEFINE zero == 0
             Q == {0}
  <2>1. Same(pg, B, zero) /\ zero \in Q
    BY <1>5
  <2> HIDE DEF zero, Q
  <2>2. Marked(zero, ss) \in Seq(PageSentence(M, B, Q, pg)) /\ Texts(Marked(zero, ss)) = ss
    BY <1>6, <2>1, MarkedOf
  <2> QED BY <2>2 DEF zero, Q
<1> HIDE DEF marked
<1>8. cp \in Seq(AnyChunk(M, B, limit, pg)) /\ Said(FlattenSeq(Texts(cp))) = Said(FlattenSeq(Texts(marked)))
  BY <1>7, ChunksOf
<1> HIDE DEF cp
<1>9. cs = [k \in DOMAIN cp |-> [text |-> cp[k].text, pages |-> <<>>]]
  <2>1. Chunks(ss, limit) = [k \in DOMAIN cp |-> cp[k].text]
    BY DEF Chunks, Marked, marked, cp
  <2>2. cs = [k \in DOMAIN Chunks(ss, limit) |-> [text |-> Chunks(ss, limit)[k], pages |-> <<>>]]
    BY DEF PlainChunks, ss, text
  <2> QED BY <2>1, <2>2
<1> HIDE DEF cs
<1>10. ASSUME NEW k \in DOMAIN cp
       PROVE  cp[k].text \in ChunkText(M, B, limit) /\ cp[k].text \in Seq(AnyWord(M, B))
  <2>1. cp[k] \in AnyChunk(M, B, limit, pg)
    BY <1>8, LenProperties, ElementOfSeq
  <2>2. PICK t \in ChunkText(M, B, limit) : cp[k] = ChunkOf(t, pg)
    BY <2>1 DEF AnyChunk
  <2>3. cp[k].text = t
    BY <2>2 DEF ChunkOf
  <2> QED BY <2>3, ChunkTextOf
<1>11. cs \in Seq(R)
  <2>1. DOMAIN cp = 1..Len(cp) /\ Len(cp) \in Nat
    BY <1>8, LenProperties
  <2>2. ASSUME NEW k \in DOMAIN cp PROVE [text |-> cp[k].text, pages |-> <<>>] \in R
    <3>1. <<>> \in Seq(DOMAIN pages) /\ cp[k].text \in Seq(AnyWord(M, B))
      BY <1>10, EmptySeq
    <3> QED BY <3>1 DEF R, ChunkRecord
  <2>3. cs \in [1..Len(cp) -> R]
    BY <1>9, <2>1, <2>2
  <2> QED BY <2>1, <2>3, SeqDef
<1>12. Texts(cs) = Texts(cp) /\ \A k \in DOMAIN cs : cs[k].pages = <<>>
  BY <1>9 DEF Texts
<1>13. Speaks(cs, pages)
  BY <1>4, <1>6, <1>7, <1>8, <1>12 DEF Speaks, text
<1>14. Accepted(cs, limit)
  <2> SUFFICES ASSUME NEW k \in DOMAIN cp
               PROVE  Valid(cs[k].text, Limits(limit)) \/ BigWord(cs[k].text)
    BY <1>9 DEF Accepted
  <2> DEFINE t == cp[k].text
  <2>1. t \in ChunkText(M, B, limit) /\ cs[k].text = t
    BY <1>9, <1>10
  <2> HIDE DEF t
  <2> QED BY <2>1, ChunkIsValid
<1> QED BY <1>11, <1>12, <1>13, <1>14 DEF R, M, B, cs
=============================================================================
