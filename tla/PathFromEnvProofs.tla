------------------------- MODULE PathFromEnvProofs -------------------------
(***************************************************************************)
(* normalizePath(), and getPathFromEnv() and getPathFromEnvOrDefault()     *)
(* over it, for paths of any length and buffers of any size.               *)
(*                                                                         *)
(* 1. Induction over sequences, from the least number principle, and from  *)
(*    it what a fold computes: of the functions of NormalizePath that are  *)
(*    folds, the equations for the empty sequence and for Append.          *)
(* 2. Paths: names that alternate with separators, what removing double    *)
(*    separators keeps, what joining names gives, and lengths.             *)
(* 3. The invariant of normalizePath(): the entries left of the index      *)
(*    array are the stack of the walk over the names before the position.  *)
(* 4. The invariant of the two functions: what the buffer holds is what    *)
(*    normalizePath() has made of the variable or the default so far.      *)
(* 5. The loop of normalizePath() implements the walk of PathWalk.         *)
(***************************************************************************)
EXTENDS PathFromEnv, SequenceTheorems, WellFoundedInduction, TLAPS

-----------------------------------------------------------------------------
(* Induction, and what a fold over a sequence is.                          *)

(* A set of numbers that is not empty has a least one. *)
LEMMA LeastNumber ==
  ASSUME NEW N \in SUBSET Nat, N # {}
  PROVE  \E n \in N : \A m \in N : n <= m
<1>1. PICK n \in N : \A m \in N : ~ (<<m, n>> \in OpToRel(<, Nat))
  BY NatLessThanWellFounded, WFMin
<1>2. \A m \in N : n <= m
  <2> TAKE m \in N
  <2>1. m < n => <<m, n>> \in OpToRel(<, Nat)
    BY DEF OpToRel
  <2>2. m \in Nat /\ n \in Nat
    OBVIOUS
  <2>3. ~ (m < n)
    BY <1>1, <2>1
  <2> QED
    BY <2>2, <2>3
<1> QED
  BY <1>2

(* A set of positions that is not empty has a greatest one, which is Max. *)
LEMMA MaxOfSet ==
  ASSUME NEW n \in Nat, NEW u \in SUBSET (1..n), u # {}
  PROVE  Max(u) \in u /\ \A k \in u : k <= Max(u)
<1> DEFINE N == {m \in Nat : m <= n /\ n - m \in u}
<1>1. PICK k \in u : TRUE
  OBVIOUS
<1>2. n - k \in N
  BY <1>1
<1>3. PICK m \in N : \A l \in N : m <= l
  <2> N \in SUBSET Nat /\ N # {}
    BY <1>2
  <2> HIDE DEF N
  <2> QED
    BY LeastNumber
<1>4. n - m \in u /\ \A l \in u : l <= n - m
  <2>1. \A l \in u : n - l \in N
    OBVIOUS
  <2> QED
    BY <1>3, <2>1
<1>5. \E l \in u : \A j \in u : l >= j
  BY <1>4
<1> QED
  BY <1>5 DEF Max

(* What holds of the empty sequence and is kept by Append holds of all. *)
LEMMA SeqInduction ==
  ASSUME NEW T, NEW P, <<>> \in P,
         \A s \in Seq(T), t \in T : s \in P => Append(s, t) \in P
  PROVE  Seq(T) \subseteq P
<1> SUFFICES ASSUME NEW w \in Seq(T), w \notin P
             PROVE  FALSE
  OBVIOUS
<1> DEFINE N == {n \in Nat : \E s \in Seq(T) : s \notin P /\ Len(s) = n}
<1>1. Len(w) \in N /\ N \in SUBSET Nat
  BY LenProperties
<1>2. PICK n \in N : \A m \in N : n <= m
  <2> HIDE DEF N
  <2> QED
    BY <1>1, LeastNumber
<1>3. PICK s \in Seq(T) : s \notin P /\ Len(s) = n
  BY <1>2
<1>4. PICK r \in Seq(T), e \in T : s = Append(r, e)
  BY <1>3, SequenceEmptyOrAppend
<1>5. Len(r) \in Nat /\ n = Len(r) + 1
  BY <1>3, <1>4, LenProperties, AppendProperties
<1>6. r \notin P
  BY <1>3, <1>4
<1>7. Len(r) \in N
  BY <1>5, <1>6
<1> QED
  BY SMTT(30), <1>2, <1>5, <1>7

(* h folds F over the elements of s whose places are in a set, from the    *)
(* first place to the last.                                                *)
IsFold(h, n, D, F, b, s) ==
  /\ h \in [SUBSET (1..n) -> D]
  /\ h = [u \in SUBSET (1..n) |->
            IF u = {} THEN b ELSE F[<<h[u \ {Max(u)}], s[Max(u)]>>]]

Folds(F, D, T) == F \in [D \X T -> D]

(* g and h start alike and go on alike. *)
Follows(g, h, n) ==
  /\ g[{}] = h[{}]
  /\ \A u \in SUBSET (1..n) :
       u # {} /\ g[u \ {Max(u)}] = h[u \ {Max(u)}] => g[u] = h[u]

(* Two functions that start alike and go on alike are the same. *)
LEMMA FoldUnique ==
  ASSUME NEW n \in Nat, NEW g, NEW h, Follows(g, h, n)
  PROVE  \A u \in SUBSET (1..n) : g[u] = h[u]
<1> SUFFICES ASSUME NEW v \in SUBSET (1..n), g[v] # h[v]
             PROVE  FALSE
  OBVIOUS
<1> DEFINE N == {m \in Nat : m <= n /\ \E u \in SUBSET (1..m) : g[u] # h[u]}
<1>1. n \in N /\ N \in SUBSET Nat
  OBVIOUS
<1>2. PICK m \in N : \A l \in N : m <= l
  <2> HIDE DEF N
  <2> QED
    BY <1>1, LeastNumber
<1>3. PICK u \in SUBSET (1..m) : g[u] # h[u]
  BY <1>2
<1>4. u # {} /\ u \in SUBSET (1..n)
  <2>4. u # {}
    BY <1>3 DEF Follows
  <2>5. m \in Nat /\ m <= n
    BY <1>2
  <2>6. 1..m \subseteq 1..n
    BY <2>5
  <2> QED
    BY <2>4, <2>6
<1>5. Max(u) \in u /\ \A k \in u : k <= Max(u)
  BY <1>2, <1>4, MaxOfSet
<1>6. m - 1 \in Nat /\ u \ {Max(u)} \in SUBSET (1..(m - 1))
  <2>1. m \in Nat /\ \A k \in u : k \in 1..m
    BY <1>2
  <2>2. Max(u) \in 1..m /\ \A k \in u \ {Max(u)} : k \in 1..m /\ k <= Max(u) /\ k # Max(u)
    BY <1>5, <2>1
  <2>3. \A k \in u \ {Max(u)} : k \in 1..(m - 1)
    BY <2>1, <2>2
  <2>4. m >= 1 /\ m - 1 \in Nat
    BY <2>1, <2>2
  <2> QED
    BY <2>3, <2>4
<1>7. g[u \ {Max(u)}] # h[u \ {Max(u)}]
  BY <1>3, <1>4 DEF Follows
<1>8. m \in Nat /\ m <= n
  BY <1>2
<1>9. m - 1 \in N
  BY <1>6, <1>7, <1>8
<1> HIDE DEF N
<1> QED
  BY <1>2, <1>8, <1>9

(* The fold of a sequence extends to one element more, and takes that      *)
(* element last.                                                           *)
LEMMA FoldAppend ==
  ASSUME NEW D, NEW T, NEW F, Folds(F, D, T), NEW b \in D,
         NEW s \in Seq(T), NEW t \in T, NEW n \in Nat, Len(s) = n,
         NEW h, IsFold(h, n, D, F, b, s)
  PROVE  \E g : /\ IsFold(g, n + 1, D, F, b, Append(s, t))
                /\ g[1..(n + 1)] = F[<<h[1..n], t>>]
<1> DEFINE g == [u \in SUBSET (1..(n + 1)) |->
                   IF n + 1 \in u THEN F[<<h[u \ {n + 1}], t>>] ELSE h[u]]
<1>1. /\ \A k \in 1..n : Append(s, t)[k] = s[k]
      /\ Append(s, t)[n + 1] = t
      /\ s \in [1..n -> T]
  BY LenProperties, AppendProperties
<1>2. \A u \in SUBSET (1..(n + 1)) : n + 1 \notin u => u \in SUBSET (1..n)
  OBVIOUS
<1>3. \A u \in SUBSET (1..(n + 1)) : u \ {n + 1} \in SUBSET (1..n)
  <2>1. \A k \in 1..(n + 1) : k # n + 1 => k \in 1..n
    OBVIOUS
  <2> QED
    BY <2>1
<1>4. g \in [SUBSET (1..(n + 1)) -> D]
  BY <1>2, <1>3 DEF IsFold, Folds
<1>5. ASSUME NEW u \in SUBSET (1..(n + 1))
      PROVE  g[u] = IF u = {} THEN b ELSE F[<<g[u \ {Max(u)}], Append(s, t)[Max(u)]>>]
  <2>1. CASE u = {}
    BY <2>1 DEF IsFold
  <2>2. CASE n + 1 \in u
    <3>1. Max(u) = n + 1
      <4> HIDE DEF g
      <4>0. n + 1 \in Nat /\ u # {}
        BY <2>2
      <4>1. Max(u) \in u /\ n + 1 <= Max(u)
        BY <2>2, <4>0, MaxOfSet
      <4>2. Max(u) \in 1..(n + 1)
        BY <4>1
      <4> QED
        BY <4>1, <4>2
    <3>2. g[u \ {n + 1}] = h[u \ {n + 1}]
      BY <1>3
    <3> QED
      BY <1>1, <2>2, <3>1, <3>2
  <2>3. CASE u # {} /\ n + 1 \notin u
    <3>1. u \in SUBSET (1..n) /\ Max(u) \in u /\ Max(u) \in 1..n
      BY ZenonT(40), <1>2, <2>3, MaxOfSet
    <3>2. g[u] = h[u] /\ g[u \ {Max(u)}] = h[u \ {Max(u)}]
      BY <2>3
    <3>3. h[u] = F[<<h[u \ {Max(u)}], s[Max(u)]>>]
      BY <2>3, <3>1 DEF IsFold
    <3> QED
      BY <1>1, <2>3, <3>1, <3>2, <3>3
  <2> QED
    BY <2>1, <2>2, <2>3
<1>6. g[1..(n + 1)] = F[<<h[1..n], t>>]
  <2>1. (1..(n + 1)) \ {n + 1} = 1..n /\ n + 1 \in 1..(n + 1)
    OBVIOUS
  <2> QED
    BY <2>1
<1>7. IsFold(g, n + 1, D, F, b, Append(s, t))
  <2> DEFINE G == [u \in SUBSET (1..(n + 1)) |->
                     IF u = {} THEN b ELSE F[<<g[u \ {Max(u)}], Append(s, t)[Max(u)]>>]]
  <2>1. \A u \in SUBSET (1..(n + 1)) : g[u] = G[u]
    BY <1>5
  <2>2. g = G
    <3> g = [u \in SUBSET (1..(n + 1)) |-> g[u]] /\ G = [u \in SUBSET (1..(n + 1)) |-> G[u]]
      OBVIOUS
    <3> HIDE DEF g, G
    <3> QED
      BY <2>1
  <2> QED
    BY <1>4, <2>2 DEF IsFold
<1> HIDE DEF g
<1> QED
  BY <1>6, <1>7

(* The empty sequence has a fold, which is the base. *)
LEMMA FoldOfEmpty ==
  ASSUME NEW D, NEW F, NEW b \in D
  PROVE  \E h : IsFold(h, 0, D, F, b, <<>>) /\ h[1..0] = b
<1> DEFINE h == [u \in SUBSET (1..0) |-> b]
<1>1. SUBSET (1..0) = {{}} /\ 1..0 \in SUBSET (1..0)
  OBVIOUS
<1>2. h \in [SUBSET (1..0) -> D]
  OBVIOUS
<1>3. h = [u \in SUBSET (1..0) |->
             IF u = {} THEN b ELSE F[<<h[u \ {Max(u)}], <<>>[Max(u)]>>]]
  BY <1>1
<1>4. IsFold(h, 0, D, F, b, <<>>)
  BY <1>2, <1>3 DEF IsFold
<1>5. h[1..0] = b
  BY <1>1
<1> HIDE DEF h
<1> QED
  BY <1>4, <1>5

(* Every sequence has a fold: the CHOOSE of the community module finds     *)
(* one.                                                                    *)
LEMMA FoldExists ==
  ASSUME NEW D, NEW T, NEW F, Folds(F, D, T), NEW b \in D, NEW s \in Seq(T)
  PROVE  \E h : IsFold(h, Len(s), D, F, b, s)
<1> DEFINE Solvable(w) == \E h : IsFold(h, Len(w), D, F, b, w)
           P == {w \in Seq(T) : Solvable(w)}
<1>1. <<>> \in P
  <2>1. Len(<<>>) = 0 /\ <<>> \in Seq(T)
    OBVIOUS
  <2> QED
    BY <2>1, FoldOfEmpty
<1>2. ASSUME NEW w \in Seq(T), NEW t \in T, w \in P
      PROVE  Append(w, t) \in P
  <2>1. PICK h : IsFold(h, Len(w), D, F, b, w)
    BY <1>2
  <2>2. /\ Len(w) \in Nat /\ Len(Append(w, t)) = Len(w) + 1
        /\ Append(w, t) \in Seq(T)
    BY LenProperties, AppendProperties
  <2>3. \E g : IsFold(g, Len(w) + 1, D, F, b, Append(w, t))
    BY <2>1, <2>2, FoldAppend
  <2> QED
    BY <2>2, <2>3
<1>3. Seq(T) \subseteq P
  <2> HIDE DEF P
  <2> QED
    BY <1>1, <1>2, SeqInduction
<1> QED
  BY <1>3

(* The fold of F over s. *)
Folded(D, F, b, s) == (CHOOSE h : IsFold(h, Len(s), D, F, b, s))[1..Len(s)]

(* The fold is the value of any function that computes it. *)
LEMMA FoldedValue ==
  ASSUME NEW D, NEW F, NEW b, NEW n \in Nat, NEW s, Len(s) = n,
         NEW h, IsFold(h, n, D, F, b, s)
  PROVE  Folded(D, F, b, s) = h[1..n]
<1> DEFINE g == CHOOSE g : IsFold(g, n, D, F, b, s)
<1>1. IsFold(g, n, D, F, b, s)
  OBVIOUS
<1> HIDE DEF g
<1>2. g[{}] = h[{}]
  <2>1. {} \in SUBSET (1..n)
    OBVIOUS
  <2>2. g[{}] = b
    BY <1>1, <2>1 DEF IsFold
  <2>3. h[{}] = b
    BY <2>1 DEF IsFold
  <2> QED
    BY <2>2, <2>3
<1>3. ASSUME NEW u \in SUBSET (1..n), u # {}, g[u \ {Max(u)}] = h[u \ {Max(u)}]
      PROVE  g[u] = h[u]
  <2>1. g[u] = F[<<g[u \ {Max(u)}], s[Max(u)]>>]
    BY <1>1, <1>3 DEF IsFold
  <2>2. h[u] = F[<<h[u \ {Max(u)}], s[Max(u)]>>]
    BY <1>3 DEF IsFold
  <2> QED
    BY <1>3, <2>1, <2>2
<1>4. \A u \in SUBSET (1..n) : g[u] = h[u]
  <2>1. Follows(g, h, n)
    BY <1>2, <1>3 DEF Follows
  <2> QED
    BY <2>1, FoldUnique
<1>5. g[1..n] = h[1..n]
  BY <1>4
<1> QED
  BY <1>5 DEF Folded, g

(* What a fold computes: the base for the empty sequence, and the elements *)
(* taken in turn.                                                          *)
LEMMA FoldedStep ==
  ASSUME NEW D, NEW T, NEW F, Folds(F, D, T), NEW b \in D
  PROVE  /\ Folded(D, F, b, <<>>) = b
         /\ \A s \in Seq(T) :
              /\ Folded(D, F, b, s) \in D
              /\ \A t \in T : Folded(D, F, b, Append(s, t)) = F[<<Folded(D, F, b, s), t>>]
<1>1. Folded(D, F, b, <<>>) = b
  <2>1. PICK h : IsFold(h, 0, D, F, b, <<>>) /\ h[1..0] = b
    BY FoldOfEmpty
  <2>2. Len(<<>>) = 0
    OBVIOUS
  <2>3. Folded(D, F, b, <<>>) = h[1..0]
    BY <2>1, <2>2, FoldedValue
  <2> QED
    BY <2>1, <2>3
<1>2. ASSUME NEW s \in Seq(T)
      PROVE  /\ Folded(D, F, b, s) \in D
             /\ \A t \in T : Folded(D, F, b, Append(s, t)) = F[<<Folded(D, F, b, s), t>>]
  <2>2. PICK n \in Nat : Len(s) = n
    BY LenProperties
  <2>1. PICK h : IsFold(h, n, D, F, b, s)
    BY <2>2, FoldExists
  <2>3. Folded(D, F, b, s) = h[1..n]
    BY <2>1, <2>2, FoldedValue
  <2>4. h[1..n] \in D
    BY <2>1, <2>2 DEF IsFold
  <2>5. ASSUME NEW t \in T
        PROVE  Folded(D, F, b, Append(s, t)) = F[<<h[1..n], t>>]
    <3>1. PICK g : /\ IsFold(g, n + 1, D, F, b, Append(s, t))
                   /\ g[1..(n + 1)] = F[<<h[1..n], t>>]
      BY <2>1, <2>2, FoldAppend
    <3>2. PICK m \in Nat : m = n + 1
      OBVIOUS
    <3>3. PICK w : w = Append(s, t)
      OBVIOUS
    <3>4. Len(w) = m /\ IsFold(g, m, D, F, b, w)
      BY <2>2, <3>1, <3>2, <3>3, AppendProperties
    <3>5. Folded(D, F, b, w) = g[1..m]
      BY <3>4, FoldedValue
    <3> QED
      BY <3>1, <3>2, <3>3, <3>5
  <2> QED
    BY <2>3, <2>4, <2>5
<1> QED
  BY <1>1, <1>2

-----------------------------------------------------------------------------
(* The folds of normalizePath().                                           *)

(* Without() takes the elements in turn. *)
TakesInTurn(T, x) ==
  \A s \in Seq(T) :
    /\ Without(s, x) \in Seq(T)
    /\ \A t \in T : Without(Append(s, t), x) =
         IF t = x THEN Without(s, x) ELSE Append(Without(s, x), t)

(* Without() keeps what is not x, in order. *)
LEMMA WithoutStep ==
  ASSUME NEW T, NEW x
  PROVE  Without(<<>>, x) = <<>> /\ TakesInTurn(T, x)
<1> DEFINE F == [p \in Seq(T) \X T |-> IF p[2] = x THEN p[1] ELSE Append(p[1], p[2])]
<1>1. Folds(F, Seq(T), T) /\ <<>> \in Seq(T)
  <2>1. \A p \in Seq(T) \X T : p[1] \in Seq(T) /\ Append(p[1], p[2]) \in Seq(T)
    BY AppendProperties
  <2> QED
    BY <2>1 DEF Folds
<1>2. \A o \in Seq(T), t \in T : F[<<o, t>>] = IF t = x THEN o ELSE Append(o, t)
  OBVIOUS
<1>3. ASSUME NEW s \in Seq(T)
      PROVE  Without(s, x) = Folded(Seq(T), F, <<>>, s)
  <2> DEFINE Solves(h) ==
        h = [u \in SUBSET DOMAIN s |->
               IF u = {} THEN <<>>
               ELSE LET k == Max(u) IN IF s[k] = x THEN h[u \ {k}] ELSE Append(h[u \ {k}], s[k])]
  <2>1. PICK n \in Nat : Len(s) = n /\ DOMAIN s = 1..n
    BY LenProperties
  <2>2. PICK h : IsFold(h, n, Seq(T), F, <<>>, s)
    <3> HIDE DEF F
    <3>1. PICK D, b : D = Seq(T) /\ b = <<>>
      OBVIOUS
    <3>2. \E h : IsFold(h, n, D, F, b, s)
      BY <1>1, <2>1, <3>1, FoldExists
    <3> QED
      BY <3>1, <3>2
  <2>3. Solves(h)
    <3>1. ASSUME NEW u \in SUBSET (1..n), u # {}
          PROVE  F[<<h[u \ {Max(u)}], s[Max(u)]>>] =
                   IF s[Max(u)] = x THEN h[u \ {Max(u)}] ELSE Append(h[u \ {Max(u)}], s[Max(u)])
      <4>1. Max(u) \in 1..n
        BY <3>1, MaxOfSet
      <4>2. h[u \ {Max(u)}] \in Seq(T)
        BY <2>2 DEF IsFold
      <4>3. s[Max(u)] \in T
        BY <2>1, <4>1, ElementOfSeq
      <4> HIDE DEF F
      <4> QED
        BY <1>2, <4>2, <4>3
    <3> HIDE DEF F
    <3> QED
      BY <2>1, <2>2, <3>1 DEF IsFold
  <2>4. Without(s, x) = (CHOOSE g : Solves(g))[DOMAIN s]
    BY Zenon DEF Without, FoldLeft, MapThenFoldSet, Max
  <2>5. PICK g : Solves(g) /\ Without(s, x) = g[1..n]
    <3> HIDE DEF Solves
    <3> QED
      BY <2>1, <2>3, <2>4
  <2>6. Follows(g, h, n)
    <3>1. \A k \in {g, h} : k[{}] = <<>>
      BY <2>1, <2>3, <2>5
    <3>2. \A k \in {g, h} : \A u \in SUBSET (1..n) : u # {} =>
            k[u] = IF s[Max(u)] = x THEN k[u \ {Max(u)}] ELSE Append(k[u \ {Max(u)}], s[Max(u)])
      BY ZenonT(40), <2>1, <2>3, <2>5
    <3> HIDE DEF Solves
    <3> QED
      BY <3>1, <3>2 DEF Follows
  <2>7. g[1..n] = h[1..n]
    BY <2>6, FoldUnique
  <2>8. Folded(Seq(T), F, <<>>, s) = h[1..n]
    <3> HIDE DEF F
    <3>1. PICK D, b : D = Seq(T) /\ b = <<>>
      OBVIOUS
    <3>2. Folded(D, F, b, s) = h[1..n]
      BY <2>1, <2>2, <3>1, FoldedValue
    <3> QED
      BY <3>1, <3>2
  <2> QED
    BY <2>5, <2>7, <2>8
<1>4. /\ Folded(Seq(T), F, <<>>, <<>>) = <<>>
      /\ \A s \in Seq(T) :
           /\ Folded(Seq(T), F, <<>>, s) \in Seq(T)
           /\ \A t \in T : Folded(Seq(T), F, <<>>, Append(s, t))
                            = F[<<Folded(Seq(T), F, <<>>, s), t>>]
  <2> HIDE DEF F
  <2>1. PICK D, b : D = Seq(T) /\ b = <<>>
    OBVIOUS
  <2>2. Folds(F, D, T) /\ b \in D
    BY <1>1, <2>1
  <2>3. /\ Folded(D, F, b, <<>>) = b
        /\ \A s \in Seq(T) :
             /\ Folded(D, F, b, s) \in D
             /\ \A t \in T : Folded(D, F, b, Append(s, t)) = F[<<Folded(D, F, b, s), t>>]
    BY <2>2, FoldedStep
  <2> QED
    BY <2>1, <2>3
<1> HIDE DEF F
<1>5. Without(<<>>, x) = <<>>
  <2>1. <<>> \in Seq(T)
    OBVIOUS
  <2> QED
    BY <1>3, <1>4, <2>1
<1>6. ASSUME NEW s \in Seq(T), NEW t \in T
      PROVE  Without(Append(s, t), x) = IF t = x THEN Without(s, x) ELSE Append(Without(s, x), t)
  <2>1. PICK w \in Seq(T) : w = Append(s, t)
    BY AppendProperties
  <2>2. Without(w, x) = F[<<Without(s, x), t>>]
    BY <1>3, <1>4, <2>1
  <2>3. Without(s, x) \in Seq(T)
    BY <1>3, <1>4
  <2> QED
    BY <1>2, <2>1, <2>2, <2>3
<1> QED
  BY <1>3, <1>4, <1>5, <1>6 DEF TakesInTurn

(* Length() counts the bytes of the tokens in turn. *)
LEMMA LengthStep ==
         /\ Length(<<>>) = 0
         /\ \A s \in Seq(Tokens) :
              /\ Length(s) \in Nat
              /\ \A t \in Tokens : Length(Append(s, t)) =
                   Length(s) + Bytes[t]
<1> DEFINE F == [p \in Nat \X Tokens |-> p[1] + Bytes[p[2]]]
<1>1. Folds(F, Nat, Tokens) /\ 0 \in Nat
  <2>1. \A t \in Tokens : Bytes[t] \in Nat
    BY TokensAssumption
  <2> QED
    BY <2>1 DEF Folds
<1>2. \A o \in Nat, t \in Tokens : F[<<o, t>>] = o + Bytes[t]
  OBVIOUS
<1>3. ASSUME NEW s \in Seq(Tokens)
      PROVE  Length(s) = Folded(Nat, F, 0, s)
  <2> DEFINE Solves(h) ==
        h = [u \in SUBSET DOMAIN s |->
               IF u = {} THEN 0
               ELSE LET k == Max(u) IN h[u \ {k}] + Bytes[s[k]]]
  <2>1. PICK n \in Nat : Len(s) = n /\ DOMAIN s = 1..n
    BY LenProperties
  <2>2. PICK h : IsFold(h, n, Nat, F, 0, s)
    <3> HIDE DEF F
    <3>1. PICK D, b : D = Nat /\ b = 0
      OBVIOUS
    <3>2. \E h : IsFold(h, n, D, F, b, s)
      BY <1>1, <2>1, <3>1, FoldExists
    <3> QED
      BY <3>1, <3>2
  <2>3. Solves(h)
    <3>1. ASSUME NEW u \in SUBSET (1..n), u # {}
          PROVE  F[<<h[u \ {Max(u)}], s[Max(u)]>>] =
                   h[u \ {Max(u)}] + Bytes[s[Max(u)]]
      <4>1. Max(u) \in 1..n
        BY <3>1, MaxOfSet
      <4>2. h[u \ {Max(u)}] \in Nat
        BY <2>2 DEF IsFold
      <4>3. s[Max(u)] \in Tokens
        BY <2>1, <4>1, ElementOfSeq
      <4> HIDE DEF F
      <4> QED
        BY <1>2, <4>2, <4>3
    <3> HIDE DEF F
    <3> QED
      BY <2>1, <2>2, <3>1 DEF IsFold
  <2>4. Length(s) = (CHOOSE g : Solves(g))[DOMAIN s]
    BY Zenon DEF Length, FoldLeft, MapThenFoldSet, Max
  <2>5. PICK g : Solves(g) /\ Length(s) = g[1..n]
    <3> HIDE DEF Solves
    <3> QED
      BY <2>1, <2>3, <2>4
  <2>6. Follows(g, h, n)
    <3>1. \A k \in {g, h} : k[{}] = 0
      BY <2>1, <2>3, <2>5
    <3>2. \A k \in {g, h} : \A u \in SUBSET (1..n) : u # {} =>
            k[u] = k[u \ {Max(u)}] + Bytes[s[Max(u)]]
      BY <2>1, <2>3, <2>5
    <3> HIDE DEF Solves
    <3> QED
      BY <3>1, <3>2 DEF Follows
  <2>7. g[1..n] = h[1..n]
    BY <2>6, FoldUnique
  <2>8. Folded(Nat, F, 0, s) = h[1..n]
    <3> HIDE DEF F
    <3>1. PICK D, b : D = Nat /\ b = 0
      OBVIOUS
    <3>2. Folded(D, F, b, s) = h[1..n]
      BY <2>1, <2>2, <3>1, FoldedValue
    <3> QED
      BY <3>1, <3>2
  <2> QED
    BY <2>5, <2>7, <2>8
<1>4. /\ Folded(Nat, F, 0, <<>>) = 0
      /\ \A s \in Seq(Tokens) :
           /\ Folded(Nat, F, 0, s) \in Nat
           /\ \A t \in Tokens : Folded(Nat, F, 0, Append(s, t))
                            = F[<<Folded(Nat, F, 0, s), t>>]
  <2> HIDE DEF F
  <2>1. PICK D, b : D = Nat /\ b = 0
    OBVIOUS
  <2>2. Folds(F, D, Tokens) /\ b \in D
    BY <1>1, <2>1
  <2>3. /\ Folded(D, F, b, <<>>) = b
        /\ \A s \in Seq(Tokens) :
             /\ Folded(D, F, b, s) \in D
             /\ \A t \in Tokens : Folded(D, F, b, Append(s, t)) = F[<<Folded(D, F, b, s), t>>]
    BY <2>2, FoldedStep
  <2> QED
    BY <2>1, <2>3
<1> HIDE DEF F
<1>5. Length(<<>>) = 0
  <2>1. <<>> \in Seq(Tokens)
    OBVIOUS
  <2> QED
    BY <1>3, <1>4, <2>1
<1>6. ASSUME NEW s \in Seq(Tokens), NEW t \in Tokens
      PROVE  Length(Append(s, t)) = Length(s) + Bytes[t]
  <2>1. PICK w \in Seq(Tokens) : w = Append(s, t)
    BY AppendProperties
  <2>2. Length(w) = F[<<Length(s), t>>]
    BY <1>3, <1>4, <2>1
  <2>3. Length(s) \in Nat
    BY <1>3, <1>4
  <2> QED
    BY <1>2, <2>1, <2>2, <2>3
<1> QED
  BY <1>3, <1>4, <1>5, <1>6

(* removeDupSeparator(path, true) takes the tokens in turn. *)
LEMMA OnceStep ==
         /\ RemoveDupSeparator(<<>>, TRUE) = <<>>
         /\ \A s \in Seq(Tokens) :
              /\ RemoveDupSeparator(s, TRUE) \in Seq(Tokens)
              /\ \A t \in Tokens : RemoveDupSeparator(Append(s, t), TRUE) =
                   IF t = Slash /\ EndsWithSeparator(RemoveDupSeparator(s, TRUE))
                   THEN RemoveDupSeparator(s, TRUE) ELSE Append(RemoveDupSeparator(s, TRUE), t)
<1> DEFINE F == [p \in Seq(Tokens) \X Tokens |-> IF p[2] = Slash /\ EndsWithSeparator(p[1]) THEN p[1] ELSE Append(p[1], p[2])]
<1>1. Folds(F, Seq(Tokens), Tokens) /\ <<>> \in Seq(Tokens)
  <2>1. \A p \in Seq(Tokens) \X Tokens :
          p[1] \in Seq(Tokens) /\ Append(p[1], p[2]) \in Seq(Tokens)
    BY AppendProperties
  <2> QED
    BY <2>1 DEF Folds
<1>2. \A o \in Seq(Tokens), t \in Tokens : F[<<o, t>>] =
      IF t = Slash /\ EndsWithSeparator(o) THEN o ELSE Append(o, t)
  OBVIOUS
<1>3. ASSUME NEW s \in Seq(Tokens)
      PROVE  RemoveDupSeparator(s, TRUE) = Folded(Seq(Tokens), F, <<>>, s)
  <2> DEFINE Solves(h) ==
        h = [u \in SUBSET DOMAIN s |->
               IF u = {} THEN <<>>
               ELSE LET k == Max(u) IN IF s[k] = Slash /\ EndsWithSeparator(h[u \ {k}]) THEN h[u \ {k}] ELSE Append(h[u \ {k}], s[k])]
  <2>1. PICK n \in Nat : Len(s) = n /\ DOMAIN s = 1..n
    BY LenProperties
  <2>2. PICK h : IsFold(h, n, Seq(Tokens), F, <<>>, s)
    <3> HIDE DEF F
    <3>1. PICK D, b : D = Seq(Tokens) /\ b = <<>>
      OBVIOUS
    <3>2. \E h : IsFold(h, n, D, F, b, s)
      BY <1>1, <2>1, <3>1, FoldExists
    <3> QED
      BY <3>1, <3>2
  <2>3. Solves(h)
    <3>1. ASSUME NEW u \in SUBSET (1..n), u # {}
          PROVE  F[<<h[u \ {Max(u)}], s[Max(u)]>>] =
                   IF s[Max(u)] = Slash /\ EndsWithSeparator(h[u \ {Max(u)}])
                   THEN h[u \ {Max(u)}] ELSE Append(h[u \ {Max(u)}], s[Max(u)])
      <4>1. Max(u) \in 1..n
        BY <3>1, MaxOfSet
      <4>2. h[u \ {Max(u)}] \in Seq(Tokens)
        BY <2>2 DEF IsFold
      <4>3. s[Max(u)] \in Tokens
        BY <2>1, <4>1, ElementOfSeq
      <4> HIDE DEF F
      <4> QED
        BY <1>2, <4>2, <4>3
    <3> HIDE DEF F
    <3> QED
      BY <2>1, <2>2, <3>1 DEF IsFold
  <2>4. RemoveDupSeparator(s, TRUE) = (CHOOSE g : Solves(g))[DOMAIN s]
    BY Zenon DEF RemoveDupSeparator, FoldLeft, MapThenFoldSet, Max
  <2>5. PICK g : Solves(g) /\ RemoveDupSeparator(s, TRUE) = g[1..n]
    <3> HIDE DEF Solves
    <3> QED
      BY <2>1, <2>3, <2>4
  <2>6. Follows(g, h, n)
    <3>1. \A k \in {g, h} : k[{}] = <<>>
      BY <2>1, <2>3, <2>5
    <3>2. \A k \in {g, h} : \A u \in SUBSET (1..n) : u # {} =>
            k[u] = IF s[Max(u)] = Slash /\ EndsWithSeparator(k[u \ {Max(u)}])
                   THEN k[u \ {Max(u)}] ELSE Append(k[u \ {Max(u)}], s[Max(u)])
      BY <2>1, <2>3, <2>5
    <3> HIDE DEF Solves
    <3> QED
      BY <3>1, <3>2 DEF Follows
  <2>7. g[1..n] = h[1..n]
    BY <2>6, FoldUnique
  <2>8. Folded(Seq(Tokens), F, <<>>, s) = h[1..n]
    <3> HIDE DEF F
    <3>1. PICK D, b : D = Seq(Tokens) /\ b = <<>>
      OBVIOUS
    <3>2. Folded(D, F, b, s) = h[1..n]
      BY <2>1, <2>2, <3>1, FoldedValue
    <3> QED
      BY <3>1, <3>2
  <2> QED
    BY <2>5, <2>7, <2>8
<1>4. /\ Folded(Seq(Tokens), F, <<>>, <<>>) = <<>>
      /\ \A s \in Seq(Tokens) :
           /\ Folded(Seq(Tokens), F, <<>>, s) \in Seq(Tokens)
           /\ \A t \in Tokens : Folded(Seq(Tokens), F, <<>>, Append(s, t))
                            = F[<<Folded(Seq(Tokens), F, <<>>, s), t>>]
  <2> HIDE DEF F
  <2>1. PICK D, b : D = Seq(Tokens) /\ b = <<>>
    OBVIOUS
  <2>2. Folds(F, D, Tokens) /\ b \in D
    BY <1>1, <2>1
  <2>3. /\ Folded(D, F, b, <<>>) = b
        /\ \A s \in Seq(Tokens) :
             /\ Folded(D, F, b, s) \in D
             /\ \A t \in Tokens : Folded(D, F, b, Append(s, t)) = F[<<Folded(D, F, b, s), t>>]
    BY <2>2, FoldedStep
  <2> QED
    BY <2>1, <2>3
<1> HIDE DEF F
<1>5. RemoveDupSeparator(<<>>, TRUE) = <<>>
  <2>1. <<>> \in Seq(Tokens)
    OBVIOUS
  <2> QED
    BY <1>3, <1>4, <2>1
<1>6. ASSUME NEW s \in Seq(Tokens), NEW t \in Tokens
      PROVE  RemoveDupSeparator(Append(s, t), TRUE) =
            IF t = Slash /\ EndsWithSeparator(RemoveDupSeparator(s, TRUE))
            THEN RemoveDupSeparator(s, TRUE) ELSE Append(RemoveDupSeparator(s, TRUE), t)
  <2>1. PICK w \in Seq(Tokens) : w = Append(s, t)
    BY AppendProperties
  <2>2. RemoveDupSeparator(w, TRUE) = F[<<RemoveDupSeparator(s, TRUE), t>>]
    BY <1>3, <1>4, <2>1
  <2>3. RemoveDupSeparator(s, TRUE) \in Seq(Tokens)
    BY <1>3, <1>4
  <2> QED
    BY <1>2, <2>1, <2>2, <2>3
<1> QED
  BY <1>3, <1>4, <1>5, <1>6

-----------------------------------------------------------------------------
(* The walk that the result is compared with.                              *)

Origin == [stack |-> <<>>, lost |-> FALSE]
WalkStates == [stack: Seq(Names), lost: BOOLEAN]
WalkedOver(s) == FoldLeft(WalkOn, Origin, s)

(* A step of the walk, without EXCEPT. *)
LEMMA WalkOnIs ==
  ASSUME NEW here \in WalkStates, NEW name \in Names
  PROVE  /\ WalkOn(here, name) \in WalkStates
         /\ WalkOn(here, name) =
              IF here.lost \/ name = Dot THEN here
              ELSE IF name # DotDot \/ ~ removeDD
              THEN [stack |-> Append(here.stack, name), lost |-> FALSE]
              ELSE IF Len(here.stack) > Floor
              THEN [stack |-> DropEnd(here.stack), lost |-> FALSE]
              ELSE [stack |-> here.stack, lost |-> ~ IsAbsolute(input)]
<1> DEFINE W == WalkOn(here, name)
<1>1. PICK st \in Seq(Names), lo \in BOOLEAN :
        here = [stack |-> st, lost |-> lo] /\ here.stack = st /\ here.lost = lo
  BY DEF WalkStates
<1>2. \A new : [[stack |-> st, lost |-> lo] EXCEPT !.stack = new] = [stack |-> new, lost |-> lo]
  OBVIOUS
<1>3. \A new : [[stack |-> st, lost |-> lo] EXCEPT !.lost = new] = [stack |-> st, lost |-> new]
  OBVIOUS
<1>4. CASE lo \/ name = Dot
  <2>1. W = here
    BY <1>1, <1>4, Zenon DEF WalkOn
  <2> HIDE DEF W
  <2> QED
    BY <1>1, <1>4, <2>1 DEF W
<1>5. CASE ~ (lo \/ name = Dot) /\ (name # DotDot \/ ~ removeDD)
  <2>1. W = [here EXCEPT !.stack = Append(here.stack, name)]
    BY <1>1, <1>5, Zenon DEF WalkOn
  <2>2. W = [stack |-> Append(st, name), lost |-> FALSE]
    BY <1>1, <1>2, <1>5, <2>1
  <2>3. W \in WalkStates
    <3> HIDE DEF W
    <3>1. Append(st, name) \in Seq(Names)
      BY AppendProperties
    <3> QED
      BY <2>2, <3>1 DEF WalkStates
  <2> QED
    BY <1>1, <1>5, <2>2, <2>3, Zenon
<1>6. CASE ~ (lo \/ name = Dot) /\ ~ (name # DotDot \/ ~ removeDD) /\ Len(st) > Floor
  <2>1. W = [here EXCEPT !.stack = DropEnd(here.stack)]
    BY <1>1, <1>6, Zenon DEF WalkOn
  <2>2. W = [stack |-> DropEnd(st), lost |-> FALSE]
    BY <1>1, <1>2, <1>6, <2>1
  <2>3. W \in WalkStates
    <3> HIDE DEF W
    <3>1. DropEnd(st) \in Seq(Names)
      BY <1>1 DEF DropEnd
    <3> QED
      BY <2>2, <3>1 DEF WalkStates
  <2> QED
    BY <1>1, <1>6, <2>2, <2>3, Zenon
<1>7. CASE ~ (lo \/ name = Dot) /\ ~ (name # DotDot \/ ~ removeDD) /\ ~ (Len(st) > Floor)
  <2>1. W = [here EXCEPT !.lost = ~ IsAbsolute(input)]
    BY <1>1, <1>7, Zenon DEF WalkOn
  <2>2. W = [stack |-> st, lost |-> ~ IsAbsolute(input)]
    BY <1>1, <1>3, <1>7, <2>1
  <2>3. W \in WalkStates
    <3> HIDE DEF W
    <3> QED
      BY <2>2 DEF WalkStates, IsAbsolute
  <2> QED
    BY <1>1, <1>7, <2>2, <2>3, Zenon
<1> QED
  BY <1>4, <1>5, <1>6, <1>7

(* The walk takes the names in turn. *)
LEMMA WalkedOverStep ==
         /\ WalkedOver(<<>>) = Origin
         /\ \A s \in Seq(Names) :
              /\ WalkedOver(s) \in WalkStates
              /\ \A t \in Names : WalkedOver(Append(s, t)) =
                   WalkOn(WalkedOver(s), t)
<1> DEFINE F == [p \in WalkStates \X Names |-> WalkOn(p[1], p[2])]
<1>1. Folds(F, WalkStates, Names) /\ Origin \in WalkStates
  <2>1. \A p \in WalkStates \X Names : WalkOn(p[1], p[2]) \in WalkStates
    BY WalkOnIs
  <2> HIDE DEF Origin
  <2>2. Origin \in WalkStates
    BY DEF Origin, WalkStates
  <2> QED
    BY <2>1, <2>2 DEF Folds
<1>2. \A o \in WalkStates, t \in Names : F[<<o, t>>] = WalkOn(o, t)
  OBVIOUS
<1>3. ASSUME NEW s \in Seq(Names)
      PROVE  WalkedOver(s) = Folded(WalkStates, F, Origin, s)
  <2> DEFINE Solves(h) ==
        h = [u \in SUBSET DOMAIN s |->
               IF u = {} THEN Origin
               ELSE LET k == Max(u) IN WalkOn(h[u \ {k}], s[k])]
  <2>1. PICK n \in Nat : Len(s) = n /\ DOMAIN s = 1..n
    BY LenProperties
  <2>2. PICK h : IsFold(h, n, WalkStates, F, Origin, s)
    <3> HIDE DEF F
    <3>1. PICK D, b : D = WalkStates /\ b = Origin
      OBVIOUS
    <3>2. \E h : IsFold(h, n, D, F, b, s)
      BY <1>1, <2>1, <3>1, FoldExists
    <3> QED
      BY <3>1, <3>2
  <2>3. Solves(h)
    <3>1. ASSUME NEW u \in SUBSET (1..n), u # {}
          PROVE  F[<<h[u \ {Max(u)}], s[Max(u)]>>] =
                   WalkOn(h[u \ {Max(u)}], s[Max(u)])
      <4>1. Max(u) \in 1..n
        BY <3>1, MaxOfSet
      <4>2. h[u \ {Max(u)}] \in WalkStates
        BY <2>2 DEF IsFold
      <4>3. s[Max(u)] \in Names
        BY <2>1, <4>1, ElementOfSeq
      <4> HIDE DEF F
      <4> QED
        BY <1>2, <4>2, <4>3
    <3> HIDE DEF F
    <3> QED
      BY <2>1, <2>2, <3>1 DEF IsFold
  <2>4. WalkedOver(s) = (CHOOSE g : Solves(g))[DOMAIN s]
    BY Zenon DEF WalkedOver, FoldLeft, MapThenFoldSet, Max
  <2>5. PICK g : Solves(g) /\ WalkedOver(s) = g[1..n]
    <3> HIDE DEF Solves
    <3> QED
      BY <2>1, <2>3, <2>4
  <2>6. Follows(g, h, n)
    <3>1. \A k \in {g, h} : k[{}] = Origin
      BY <2>1, <2>3, <2>5
    <3>2. \A k \in {g, h} : \A u \in SUBSET (1..n) : u # {} =>
            k[u] = WalkOn(k[u \ {Max(u)}], s[Max(u)])
      BY <2>1, <2>3, <2>5
    <3> HIDE DEF Solves
    <3> QED
      BY <3>1, <3>2 DEF Follows
  <2>7. g[1..n] = h[1..n]
    BY <2>6, FoldUnique
  <2>8. Folded(WalkStates, F, Origin, s) = h[1..n]
    <3> HIDE DEF F
    <3>1. PICK D, b : D = WalkStates /\ b = Origin
      OBVIOUS
    <3>2. Folded(D, F, b, s) = h[1..n]
      BY <2>1, <2>2, <3>1, FoldedValue
    <3> QED
      BY <3>1, <3>2
  <2> QED
    BY <2>5, <2>7, <2>8
<1>4. /\ Folded(WalkStates, F, Origin, <<>>) = Origin
      /\ \A s \in Seq(Names) :
           /\ Folded(WalkStates, F, Origin, s) \in WalkStates
           /\ \A t \in Names : Folded(WalkStates, F, Origin, Append(s, t))
                            = F[<<Folded(WalkStates, F, Origin, s), t>>]
  <2> HIDE DEF F
  <2>1. PICK D, b : D = WalkStates /\ b = Origin
    OBVIOUS
  <2>2. Folds(F, D, Names) /\ b \in D
    BY <1>1, <2>1
  <2>3. /\ Folded(D, F, b, <<>>) = b
        /\ \A s \in Seq(Names) :
             /\ Folded(D, F, b, s) \in D
             /\ \A t \in Names : Folded(D, F, b, Append(s, t)) = F[<<Folded(D, F, b, s), t>>]
    BY <2>2, FoldedStep
  <2> QED
    BY <2>1, <2>3
<1> HIDE DEF F
<1>5. WalkedOver(<<>>) = Origin
  <2>1. <<>> \in Seq(Names)
    OBVIOUS
  <2> QED
    BY <1>3, <1>4, <2>1
<1>6. ASSUME NEW s \in Seq(Names), NEW t \in Names
      PROVE  WalkedOver(Append(s, t)) = WalkOn(WalkedOver(s), t)
  <2>1. PICK w \in Seq(Names) : w = Append(s, t)
    BY AppendProperties
  <2>2. WalkedOver(w) = F[<<WalkedOver(s), t>>]
    BY <1>3, <1>4, <2>1
  <2>3. WalkedOver(s) \in WalkStates
    BY <1>3, <1>4
  <2> QED
    BY <1>2, <2>1, <2>2, <2>3
<1> QED
  BY <1>3, <1>4, <1>5, <1>6

-----------------------------------------------------------------------------
(* Tokens, names and separators.                                           *)

(* What the assumptions say of tokens. *)
LEMMA TokenFacts ==
  /\ Tokens = Names \cup {Slash}
  /\ Slash \notin Names /\ Gone \notin Tokens /\ Gone \notin Names
  /\ Dot \in Names /\ DotDot \in Names /\ Dot # DotDot
  /\ Dot \notin TildeNames /\ DotDot \notin TildeNames
  /\ Bytes[Slash] = 1
  /\ \A t \in Tokens : Bytes[t] \in Nat \ {0}
  /\ Null \notin Seq(Tokens)
BY TokensAssumption DEF Names, Tokens

(* The ends of a path with a token more. *)
LEMMA EndsOfAppend ==
  ASSUME NEW s \in Seq(Tokens), NEW t \in Tokens
  PROVE  /\ EndsWithSeparator(Append(s, t)) <=> t = Slash
         /\ IsAbsolute(Append(s, t)) <=>
              IF s = <<>> THEN t = Slash ELSE IsAbsolute(s)
<1>1. /\ Append(s, t) # <<>> /\ Len(s) \in Nat /\ Len(Append(s, t)) = Len(s) + 1
      /\ Append(s, t)[Len(s) + 1] = t
      /\ s # <<>> => Len(s) >= 1 /\ Append(s, t)[1] = s[1]
      /\ s = <<>> => Len(s) = 0
  BY AppendProperties, LenProperties, EmptySeq
<1> QED
  BY <1>1 DEF EndsWithSeparator, IsAbsolute

(* Nothing is left of nothing. *)
LEMMA WithoutOfEmpty == \A x : Without(<<>>, x) = <<>>
<1> TAKE x
<1>1. PICK T : TRUE
  OBVIOUS
<1> QED
  BY WithoutStep, Zenon

(* Without() of a sequence with an element more. *)
LEMMA WithoutOfAppend ==
  ASSUME NEW T, NEW x, NEW s \in Seq(T), NEW t \in T
  PROVE  /\ Without(s, x) \in Seq(T)
         /\ Without(Append(s, t), x) =
              IF t = x THEN Without(s, x) ELSE Append(Without(s, x), t)
<1>1. TakesInTurn(T, x)
  BY WithoutStep
<1> QED
  BY <1>1 DEF TakesInTurn

(* What is left without x has no x. *)
LEMMA WithoutHasNone ==
  ASSUME NEW T, NEW x, NEW s \in Seq(T)
  PROVE  Without(s, x) \in Seq(T \ {x})
<1> DEFINE P == {w \in Seq(T) : Without(w, x) \in Seq(T \ {x})}
<1>1. <<>> \in P
  <2>1. <<>> \in Seq(T) /\ <<>> \in Seq(T \ {x})
    OBVIOUS
  <2> QED
    BY <2>1, WithoutOfEmpty, Zenon
<1>2. ASSUME NEW w \in Seq(T), NEW t \in T, w \in P
      PROVE  Append(w, t) \in P
  <2>1. Without(Append(w, t), x) =
          IF t = x THEN Without(w, x) ELSE Append(Without(w, x), t)
    BY WithoutOfAppend
  <2>2. Append(w, t) \in Seq(T)
    BY AppendProperties
  <2>3. t # x => Append(Without(w, x), t) \in Seq(T \ {x})
    BY <1>2, AppendProperties
  <2> QED
    BY <1>2, <2>1, <2>2, <2>3
<1>3. Seq(T) \subseteq P
  <2> HIDE DEF P
  <2> QED
    BY <1>1, <1>2, SeqInduction
<1> QED
  BY <1>3

(* The names of a path with a token more. *)
LEMMA NamesOfStep ==
  /\ NamesOf(<<>>) = <<>>
  /\ \A s \in Seq(Tokens) :
       /\ NamesOf(s) \in Seq(Names)
       /\ \A t \in Tokens : NamesOf(Append(s, t)) =
            IF t = Slash THEN NamesOf(s) ELSE Append(NamesOf(s), t)
<1>1. Tokens \ {Slash} = Names
  BY TokenFacts
<1>2. \A s \in Seq(Tokens) : Without(s, Slash) \in Seq(Tokens \ {Slash})
  BY WithoutHasNone
<1> QED
  BY <1>1, <1>2, WithoutOfEmpty, WithoutOfAppend DEF NamesOf

(* An index array: names, and entries that are gone. *)
Entries == Names \cup {Gone}

(* What is kept of an index array with an entry more. *)
LEMMA KeptStep ==
  /\ Kept(<<>>) = <<>>
  /\ \A s \in Seq(Entries) :
       /\ Kept(s) \in Seq(Names)
       /\ \A t \in Entries : Kept(Append(s, t)) =
            IF t = Gone THEN Kept(s) ELSE Append(Kept(s), t)
<1>1. Entries \ {Gone} = Names
  BY TokenFacts DEF Entries
<1>2. \A s \in Seq(Entries) : Without(s, Gone) \in Seq(Entries \ {Gone})
  BY WithoutHasNone
<1>3. \A s \in Seq(Entries), t \in Entries : Without(Append(s, t), Gone) =
         IF t = Gone THEN Without(s, Gone) ELSE Append(Without(s, Gone), t)
  BY WithoutOfAppend
<1> QED
  BY <1>1, <1>2, <1>3, WithoutOfEmpty DEF Kept

(* The bytes of a path are those of its names and one for each separator. *)
LEMMA LengthOfPath ==
  ASSUME NEW s \in Seq(Tokens)
  PROVE  /\ Length(s) \in Nat
         /\ Len(NamesOf(s)) <= Len(s)
         /\ Length(s) = Length(NamesOf(s)) + Len(s) - Len(NamesOf(s))
         /\ Length(NamesOf(s)) >= Len(NamesOf(s))
<1> DEFINE Holds(w) ==
      /\ Len(NamesOf(w)) <= Len(w)
      /\ Length(w) = Length(NamesOf(w)) + Len(w) - Len(NamesOf(w))
      /\ Length(NamesOf(w)) >= Len(NamesOf(w))
    P == {w \in Seq(Tokens) : Holds(w)}
<1>0. Seq(Names) \subseteq Seq(Tokens)
  BY TokenFacts, SeqMonotonic
<1>1. <<>> \in P
  BY NamesOfStep, LengthStep
<1>2. ASSUME NEW w \in Seq(Tokens), NEW t \in Tokens, w \in P
      PROVE  Append(w, t) \in P
  <2>1. PICK n : n = NamesOf(w)
    OBVIOUS
  <2>2. n \in Seq(Names) /\ n \in Seq(Tokens)
    BY <1>0, <2>1, NamesOfStep
  <2>3. /\ Len(n) \in Nat /\ Len(w) \in Nat
        /\ Length(n) \in Nat /\ Length(w) \in Nat
        /\ Bytes[t] \in Nat /\ Bytes[t] >= 1 /\ (t = Slash => Bytes[t] = 1)
    BY <2>2, LenProperties, LengthStep, TokenFacts
  <2>4. /\ Append(w, t) \in Seq(Tokens)
        /\ Len(Append(w, t)) = Len(w) + 1 /\ Len(Append(n, t)) = Len(n) + 1
    BY <2>2, AppendProperties
  <2>5. /\ Length(Append(w, t)) = Length(w) + Bytes[t]
        /\ Length(Append(n, t)) = Length(n) + Bytes[t]
    BY <2>2, LengthStep
  <2>6. Len(n) <= Len(w) /\ Length(w) = Length(n) + Len(w) - Len(n)
        /\ Length(n) >= Len(n)
    BY <1>2, <2>1
  <2>7. CASE t = Slash
    <3>1. NamesOf(Append(w, t)) = n
      BY <2>1, <2>7, NamesOfStep
    <3>2. Length(w) + Bytes[t] = Length(n) + (Len(w) + 1) - Len(n)
          /\ Len(n) <= Len(w) + 1
      BY <2>3, <2>6, <2>7
    <3>3. Holds(Append(w, t))
      BY <2>4, <2>5, <2>6, <3>1, <3>2
    <3> HIDE DEF Holds
    <3> QED
      BY <2>4, <3>3
  <2>8. CASE t # Slash
    <3>1. NamesOf(Append(w, t)) = Append(n, t)
      BY <2>1, <2>8, NamesOfStep
    <3>2. /\ Length(w) + Bytes[t] =
               (Length(n) + Bytes[t]) + (Len(w) + 1) - (Len(n) + 1)
          /\ Len(n) + 1 <= Len(w) + 1
          /\ Length(n) + Bytes[t] >= Len(n) + 1
      BY <2>3, <2>6
    <3>3. Holds(Append(w, t))
      BY <2>4, <2>5, <3>1, <3>2
    <3> HIDE DEF Holds
    <3> QED
      BY <2>4, <3>3
  <2> QED
    BY <2>7, <2>8
<1>3. Seq(Tokens) \subseteq P
  <2> HIDE DEF P
  <2> QED
    BY <1>1, <1>2, SeqInduction
<1>4. Holds(s)
  <2> HIDE DEF Holds
  <2> QED
    BY <1>3
<1> QED
  BY <1>4, LengthStep

-----------------------------------------------------------------------------
(* Paths without two names, or two separators, side by side.               *)

Apart(p) == \A k \in 1..(Len(p) - 1) : Slash \in {p[k], p[k + 1]}
Alternates(p) == \A k \in 1..(Len(p) - 1) : (p[k] = Slash) <=> (p[k + 1] # Slash)
Lead(p) == IF IsAbsolute(p) THEN 1 ELSE 0

(* A path whose names are apart, or that alternates, does so without its   *)
(* last token.                                                             *)
LEMMA PrefixIsLikeIt ==
  ASSUME NEW s \in Seq(Tokens), NEW t \in Tokens
  PROVE  /\ Apart(Append(s, t)) =>
              Apart(s) /\ (s # <<>> => EndsWithSeparator(s) \/ t = Slash)
         /\ Alternates(Append(s, t)) <=>
              /\ Alternates(s)
              /\ s # <<>> => (EndsWithSeparator(s) <=> t # Slash)
<1>1. PICK w : w = Append(s, t)
  OBVIOUS
<1>2. PICK n \in Nat : n = Len(s)
  BY LenProperties
<1>3. /\ Len(w) = n + 1 /\ w[n + 1] = t /\ (\A k \in 1..n : w[k] = s[k])
      /\ (s # <<>> <=> n >= 1)
  BY <1>1, <1>2, AppendProperties, EmptySeq, LenProperties
<1>4. \A k \in 1..(n - 1) : k \in 1..n /\ k + 1 \in 1..n
  OBVIOUS
<1>5. s # <<>> => (EndsWithSeparator(s) <=> w[n] = Slash)
  BY <1>2, <1>3 DEF EndsWithSeparator
<1>6. (\A k \in 1..(n - 1) : Slash \in {w[k], w[k + 1]}) <=> Apart(s)
  BY <1>2, <1>3, <1>4 DEF Apart
<1>7. (\A k \in 1..(n - 1) : (w[k] = Slash) <=> (w[k + 1] # Slash)) <=> Alternates(s)
  BY <1>2, <1>3, <1>4 DEF Alternates
<1>8. (n + 1) - 1 = n /\ \A k \in 1..n : k \in 1..(n - 1) \/ (k = n /\ n >= 1)
  OBVIOUS
<1>9. \A k \in 1..(n - 1) : k \in 1..n
  OBVIOUS
<1>10. n >= 1 => n \in 1..n
  OBVIOUS
<1>11. Apart(w) => Apart(s) /\ (s # <<>> => EndsWithSeparator(s) \/ t = Slash)
  <2>1. Apart(w) <=> \A k \in 1..n : Slash \in {w[k], w[k + 1]}
    BY <1>3, <1>8 DEF Apart
  <2> QED
    BY <1>3, <1>5, <1>6, <1>9, <1>10, <2>1
<1>12. Alternates(w) <=> Alternates(s) /\ (s # <<>> => (EndsWithSeparator(s) <=> t # Slash))
  <2>1. Alternates(w) <=> \A k \in 1..n : (w[k] = Slash) <=> (w[k + 1] # Slash)
    BY <1>3, <1>8 DEF Alternates
  <2>2. n >= 1 => (Alternates(w) <=> Alternates(s) /\ ((w[n] = Slash) <=> (w[n + 1] # Slash)))
    BY <1>7, <1>8, <1>9, <1>10, <2>1
  <2>3. ~ (n >= 1) => 1..n = {} /\ 1..(n - 1) = {}
    OBVIOUS
  <2> QED
    BY <1>3, <1>5, <1>7, <2>1, <2>2, <2>3
<1> QED
  BY <1>1, <1>11, <1>12

(* Even and odd numbers. *)
LEMMA Parity ==
  ASSUME NEW y \in Nat
  PROVE  (2 * y) % 2 = 0 /\ (2 * y + 1) % 2 = 1
<1>1. (2 * y) % 2 = 0
  OBVIOUS
<1>2. (2 * y + 1) % 2 = 1
  OBVIOUS
<1> QED
  BY <1>1, <1>2

(* Where the names of such a path are. *)
LEMMA NamesAlternate ==
  ASSUME NEW s \in Seq(Tokens), Alternates(s)
  PROVE  LET n == NamesOf(s)
             l == Lead(s)
         IN  /\ 2 * Len(n) \in {Len(s) - l, Len(s) - l + 1}
             /\ EndsWithSeparator(s) /\ s # <<>> <=> s # <<>> /\ 2 * Len(n) = Len(s) - l
             /\ \A k \in 1..Len(n) : 2 * k - 1 + l \in 1..Len(s) /\ n[k] = s[2 * k - 1 + l]
             /\ \A k \in 1..Len(s) : s[k] = Slash <=> (k + l) % 2 = 0
<1> DEFINE Shape(n, l, w) ==
      /\ 2 * Len(n) \in {Len(w) - l, Len(w) - l + 1}
      /\ w # <<>> => (EndsWithSeparator(w) <=> 2 * Len(n) = Len(w) - l)
      /\ \A k \in 1..Len(n) : 2 * k - 1 + l \in 1..Len(w) /\ n[k] = w[2 * k - 1 + l]
      /\ \A k \in 1..Len(w) : w[k] = Slash <=> (k + l) % 2 = 0
    P == {w \in Seq(Tokens) : Alternates(w) => Shape(NamesOf(w), Lead(w), w)}
<1>1. <<>> \in P
  BY NamesOfStep DEF Lead, IsAbsolute
<1>2. ASSUME NEW w \in Seq(Tokens), NEW t \in Tokens, w \in P,
             Alternates(Append(w, t))
      PROVE  Shape(NamesOf(Append(w, t)), Lead(Append(w, t)), Append(w, t))
  <2>1. PICK n \in Seq(Names), v \in Seq(Tokens) :
          n = NamesOf(w) /\ v = Append(w, t)
    BY NamesOfStep, AppendProperties
  <2>2. PICK l \in {0, 1} : l = Lead(v)
    BY DEF Lead
  <2>3. PICK a \in Nat, m \in Nat : a = Len(w) /\ m = Len(n)
    BY LenProperties
  <2>4. Len(v) = a + 1 /\ v[a + 1] = t /\ (\A k \in 1..a : v[k] = w[k]) /\ v # <<>>
    BY <2>1, <2>3, AppendProperties
  <2>5. EndsWithSeparator(v) <=> t = Slash
    BY <2>1, EndsOfAppend
  <2>6. NamesOf(v) = IF t = Slash THEN n ELSE Append(n, t)
    BY <2>1, NamesOfStep
  <2>7. CASE w = <<>>
    <3>1. a = 0 /\ n = <<>> /\ m = 0
      BY <2>1, <2>3, <2>7, NamesOfStep
    <3>2. l = 1 <=> t = Slash
      <4>1. IsAbsolute(v) <=> t = Slash
        BY <2>1, <2>7, EndsOfAppend
      <4> QED
        BY <2>2, <4>1 DEF Lead
    <3>3. v[1] = t /\ Len(v) = 1
      BY <2>4, <3>1
    <3>4. CASE t = Slash
      <4>1. NamesOf(v) = n /\ l = 1
        BY <2>6, <3>2, <3>4
      <4> QED
        BY <2>1, <2>2, <2>3, <2>5, <3>1, <3>3, <3>4, <4>1
    <3>5. CASE t # Slash
      <4>1. NamesOf(v) = Append(n, t) /\ l = 0
        BY <2>6, <3>2, <3>5
      <4>2. Len(Append(n, t)) = 1 /\ Append(n, t)[1] = t
        BY <3>1
      <4> QED
        BY <2>1, <2>2, <2>3, <2>5, <3>1, <3>3, <3>5, <4>1, <4>2
    <3> QED
      BY <3>4, <3>5
  <2>8. CASE w # <<>>
    <3>1. Alternates(w) /\ (EndsWithSeparator(w) <=> t # Slash)
      BY <1>2, <2>8, PrefixIsLikeIt
    <3>2. l = Lead(w)
      BY <2>1, <2>2, <2>8, EndsOfAppend DEF Lead
    <3>3. Shape(n, l, w)
      BY <1>2, <2>1, <3>1, <3>2
    <3>4. 2 * m = (IF t # Slash THEN a - l ELSE a - l + 1)
      <4>1. /\ 2 * m \in {a - l, a - l + 1}
            /\ t # Slash <=> 2 * m = a - l
        BY <2>3, <2>4, <2>8, <3>1, <3>3
      <4> QED
        BY <4>1
    <3>8. \A k \in 1..m : 2 * k - 1 + l \in 1..a /\ n[k] = v[2 * k - 1 + l]
      BY <2>3, <2>4, <3>3
    <3>9. \A k \in 1..a : v[k] = Slash <=> (k + l) % 2 = 0
      BY <2>3, <2>4, <3>3
    <3>5. \A k \in 1..(a + 1) : v[k] = Slash <=> (k + l) % 2 = 0
      <4>1. t = Slash <=> (a + 1 + l) % 2 = 0
        <5>1. CASE t # Slash
          <6>0. 2 * m = a - l
            BY <3>4, <5>1
          <6>1. a + 1 + l = 2 * (m + l) + 1 /\ m + l \in Nat
            <7> HIDE DEF Shape, P
            <7>1. CASE l = 0
              BY <6>0, <7>1
            <7>2. CASE l = 1
              BY <6>0, <7>2
            <7> QED
              BY <2>2, <7>1, <7>2
          <6>2. (a + 1 + l) % 2 = 1
            <7> HIDE DEF Shape, P
            <7> QED
              BY <6>1, Parity
          <6> QED
            BY <5>1, <6>2
        <5>2. CASE t = Slash
          <6>0. 2 * m = a - l + 1
            BY <3>4, <5>2
          <6>1. a + 1 + l = 2 * (m + l) /\ m + l \in Nat
            <7>1. CASE l = 0
              BY <6>0, <7>1
            <7>2. CASE l = 1
              BY <6>0, <7>2
            <7> QED
              BY <2>2, <7>1, <7>2
          <6>2. (a + 1 + l) % 2 = 0
            <7> HIDE DEF Shape, P
            <7> QED
              BY <6>1, Parity
          <6> QED
            BY <5>2, <6>2
        <5> QED
          BY <5>1, <5>2
      <4> QED
        BY <2>4, <3>9, <4>1
    <3>6. CASE t = Slash
      <4>1. NamesOf(v) = n
        BY <2>6, <3>6
      <4>2. 2 * m = (a + 1) - l
        BY <2>2, <3>4, <3>6
      <4>3. \A k \in 1..m : 2 * k - 1 + l \in 1..(a + 1) /\ n[k] = v[2 * k - 1 + l]
        <5> TAKE k \in 1..m
        <5>1. 2 * k - 1 + l \in 1..a /\ n[k] = v[2 * k - 1 + l]
          BY <3>8
        <5> QED
          BY <5>1
      <4>4. Shape(n, l, v)
        BY <2>3, <2>4, <2>5, <3>5, <3>6, <4>2, <4>3
      <4> HIDE DEF Shape
      <4> QED
        BY <2>1, <2>2, <4>1, <4>4
    <3>7. CASE t # Slash
      <4>1. PICK o : o = Append(n, t)
        OBVIOUS
      <4>2. NamesOf(v) = o
        BY <2>6, <3>7, <4>1
      <4>3. Len(o) = m + 1 /\ o[m + 1] = t /\ \A k \in 1..m : o[k] = n[k]
        BY <2>1, <2>3, <4>1, AppendProperties, TokenFacts
      <4>4. 2 * (m + 1) = (a + 1) - l + 1 /\ 2 * (m + 1) - 1 + l = a + 1
        <5>1. 2 * m = a - l
          BY <3>4, <3>7
        <5> QED
          BY <2>2, <5>1
      <4>5. \A k \in 1..(m + 1) : 2 * k - 1 + l \in 1..(a + 1) /\ o[k] = v[2 * k - 1 + l]
        <5> TAKE k \in 1..(m + 1)
        <5>1. CASE k = m + 1
          <6>1. 2 * k - 1 + l = a + 1 /\ o[k] = t
            BY <4>3, <4>4, <5>1
          <6>2. v[2 * k - 1 + l] = t
            BY <2>4, <6>1
          <6>3. 2 * k - 1 + l \in 1..(a + 1)
            BY <6>1
          <6> QED
            BY <6>1, <6>2, <6>3
        <5>2. CASE k # m + 1
          <6>1. k \in 1..m
            BY <5>2
          <6>2. 2 * k - 1 + l \in 1..a /\ n[k] = v[2 * k - 1 + l] /\ o[k] = n[k]
            BY <3>8, <4>3, <6>1
          <6> QED
            BY <6>2
        <5> QED
          BY <5>1, <5>2
      <4>6. ~ (2 * (m + 1) = (a + 1) - l)
        BY <2>2, <4>4
      <4>7. Shape(o, l, v)
        BY <2>4, <2>5, <3>5, <3>7, <4>3, <4>4, <4>5, <4>6
      <4> HIDE DEF Shape
      <4> QED
        BY <2>1, <2>2, <4>2, <4>7
    <3> QED
      BY <3>6, <3>7
  <2> QED
    BY <2>7, <2>8
<1>3. \A w \in Seq(Tokens), t \in Tokens : w \in P => Append(w, t) \in P
  BY <1>2, AppendProperties
<1>4. Seq(Tokens) \subseteq P
  <2> HIDE DEF P
  <2> QED
    BY <1>1, <1>3, SeqInduction
<1>5. Shape(NamesOf(s), Lead(s), s)
  BY <1>4
<1> QED
  BY <1>5

(* A sequence of one element is that element. *)
LEMMA SingleToken ==
  ASSUME NEW T, NEW s \in Seq(T), Len(s) = 1
  PROVE  s = <<s[1]>> /\ s[1] \in T
<1>1. s # <<>>
  BY EmptySeq
<1>2. PICK r \in Seq(T), e \in T : s = Append(r, e)
  BY <1>1, SequenceEmptyOrAppend
<1>3. Len(r) = 0
  BY <1>2, LenProperties, AppendProperties
<1>4. r = <<>>
  BY <1>3, EmptySeq
<1>5. s = <<e>>
  BY <1>2, <1>4
<1> QED
  BY <1>5

(* removeDupSeparator(p, true) leaves one separator where there were some. *)
LEMMA OnceKeeps ==
  ASSUME NEW p \in Seq(Tokens), Apart(p)
  PROVE  LET s == RemoveDupSeparator(p, TRUE)
         IN  /\ s \in Seq(Tokens) /\ Alternates(s)
             /\ NamesOf(s) = NamesOf(p)
             /\ Len(s) <= Len(p) /\ Length(s) <= Length(p)
             /\ EndsWithSeparator(s) <=> EndsWithSeparator(p)
             /\ IsAbsolute(s) <=> IsAbsolute(p)
             /\ s = <<>> <=> p = <<>>
             /\ Len(s) = 1 /\ s # <<Slash>> => p = s
<1> DEFINE Like(s, w) ==
      /\ Alternates(s)
      /\ NamesOf(s) = NamesOf(w)
      /\ Len(s) <= Len(w)
      /\ EndsWithSeparator(s) <=> EndsWithSeparator(w)
      /\ IsAbsolute(s) <=> IsAbsolute(w)
      /\ s = <<>> <=> w = <<>>
      /\ Len(s) = 1 /\ s # <<Slash>> => w = s
    P == {w \in Seq(Tokens) : Apart(w) => Like(RemoveDupSeparator(w, TRUE), w)}
<1>1. <<>> \in P
  <2>1. RemoveDupSeparator(<<>>, TRUE) = <<>>
    BY OnceStep, Zenon
  <2>2. Like(<<>>, <<>>)
    BY DEF Alternates
  <2>3. <<>> \in Seq(Tokens)
    OBVIOUS
  <2> HIDE DEF Like
  <2> QED
    BY <2>1, <2>2, <2>3
<1>2. ASSUME NEW w \in Seq(Tokens), NEW t \in Tokens, w \in P, Apart(Append(w, t))
      PROVE  Like(RemoveDupSeparator(Append(w, t), TRUE), Append(w, t))
  <2>1. PICK s \in Seq(Tokens), v \in Seq(Tokens) :
          s = RemoveDupSeparator(w, TRUE) /\ v = Append(w, t)
    BY OnceStep, AppendProperties
  <2>2. Apart(w) /\ (w # <<>> => EndsWithSeparator(w) \/ t = Slash)
    BY <1>2, PrefixIsLikeIt
  <2>3. Like(s, w)
    BY <1>2, <2>1, <2>2
  <2>4. PICK a \in Nat, m \in Nat : a = Len(w) /\ m = Len(s)
    BY LenProperties
  <2>5. Len(v) = a + 1 /\ v # <<>> /\ (EndsWithSeparator(v) <=> t = Slash)
    BY <2>1, <2>4, AppendProperties, EndsOfAppend
  <2>6. IsAbsolute(v) <=> IF w = <<>> THEN t = Slash ELSE IsAbsolute(w)
    BY <2>1, EndsOfAppend
  <2>7. CASE t = Slash /\ EndsWithSeparator(s)
    <3>1. RemoveDupSeparator(v, TRUE) = s
      BY <2>1, <2>7, OnceStep
    <3>2. NamesOf(v) = NamesOf(w)
      BY <2>1, <2>7, NamesOfStep
    <3>3. s # <<>> /\ w # <<>>
      BY <2>3, <2>7 DEF EndsWithSeparator
    <3>4. m = 1 => s = <<Slash>>
      <4>1. m = 1 => s[1] = Slash
        BY <2>4, <2>7 DEF EndsWithSeparator
      <4> QED
        BY <2>4, <4>1, SingleToken
    <3>5. Like(s, v)
      BY <2>3, <2>4, <2>5, <2>6, <2>7, <3>2, <3>3, <3>4
    <3> HIDE DEF Like
    <3> QED
      BY <2>1, <3>1, <3>5
  <2>8. CASE ~ (t = Slash /\ EndsWithSeparator(s))
    <3>1. PICK u \in Seq(Tokens) : u = Append(s, t)
      BY AppendProperties
    <3>2. RemoveDupSeparator(v, TRUE) = u
      BY <2>1, <2>8, <3>1, OnceStep
    <3>3. NamesOf(u) = NamesOf(v)
      <4>1. NamesOf(s) = NamesOf(w)
        BY <2>3
      <4>2. NamesOf(v) = IF t = Slash THEN NamesOf(w) ELSE Append(NamesOf(w), t)
        BY <2>1, NamesOfStep
      <4>3. NamesOf(u) = IF t = Slash THEN NamesOf(s) ELSE Append(NamesOf(s), t)
        BY <3>1, NamesOfStep
      <4> QED
        BY <4>1, <4>2, <4>3
    <3>4. Len(u) = m + 1 /\ u # <<>> /\ (EndsWithSeparator(u) <=> t = Slash)
      BY <2>4, <3>1, AppendProperties, EndsOfAppend
    <3>5. IsAbsolute(u) <=> IsAbsolute(v)
      BY <2>3, <2>6, <3>1, EndsOfAppend
    <3>6. Alternates(u)
      <4>1. s # <<>> => (EndsWithSeparator(s) <=> t # Slash)
        BY <2>2, <2>3, <2>8
      <4> QED
        BY <2>3, <3>1, <4>1, PrefixIsLikeIt
    <3>7. Len(u) = 1 => v = u
      <4>1. m = 0 => s = <<>>
        BY <2>4, EmptySeq
      <4>2. m = 0 => w = <<>>
        BY <2>3, <4>1
      <4>3. m = 0 => v = u
        BY <2>1, <3>1, <4>1, <4>2
      <4>4. m + 1 = 1 => m = 0
        OBVIOUS
      <4> QED
        BY <3>4, <4>3, <4>4
    <3>8. Len(u) <= Len(v)
      BY <2>3, <2>4, <2>5, <3>4
    <3>9. Like(u, v)
      BY <2>5, <3>3, <3>4, <3>5, <3>6, <3>7, <3>8
    <3> HIDE DEF Like
    <3> QED
      BY <2>1, <3>2, <3>9
  <2> QED
    BY <2>7, <2>8
<1>3. \A w \in Seq(Tokens), t \in Tokens : w \in P => Append(w, t) \in P
  BY <1>2, AppendProperties
<1>4. Seq(Tokens) \subseteq P
  <2> HIDE DEF P
  <2> QED
    BY <1>1, <1>3, SeqInduction
<1>5. PICK s \in Seq(Tokens) : s = RemoveDupSeparator(p, TRUE)
  BY OnceStep
<1>6. Like(s, p)
  BY <1>4, <1>5
<1>7. Length(s) <= Length(p)
  <2>1. PICK n : n = NamesOf(p) /\ n = NamesOf(s)
    BY <1>6
  <2>2. Length(s) = Length(n) + Len(s) - Len(n)
    BY <2>1, LengthOfPath
  <2>3. Length(p) = Length(n) + Len(p) - Len(n)
    BY <2>1, LengthOfPath
  <2>4. Length(n) \in Nat /\ Len(s) \in Nat /\ Len(p) \in Nat /\ Len(n) \in Nat
    <3>1. n \in Seq(Names)
      BY <2>1, NamesOfStep
    <3>2. n \in Seq(Tokens)
      BY <3>1, SeqMonotonic, TokenFacts
    <3> QED
      BY <3>2, LenProperties, LengthStep
  <2> QED
    BY <1>6, <2>2, <2>3, <2>4
<1> QED
  BY <1>5, <1>6, <1>7

-----------------------------------------------------------------------------
(* Paths that are put together from names.                                 *)

JoinedPath(absolute, names) ==
  (IF absolute THEN Root ELSE <<>>) \o Join(names)

(* Join() puts the names at the odd positions and separators between them. *)
LEMMA JoinOfNames ==
  ASSUME NEW names \in Seq(Names)
  PROVE  LET j == Join(names)
         IN  /\ j \in Seq(Tokens)
             /\ Len(j) = IF names = <<>> THEN 0 ELSE 2 * Len(names) - 1
             /\ \A k \in 1..Len(j) : j[k] = Slash <=> k % 2 = 0
             /\ \A k \in 1..Len(names) : 2 * k - 1 \in 1..Len(j) /\ j[2 * k - 1] = names[k]
<1>1. PICK n \in Nat : n = Len(names) /\ names \in [1..n -> Names]
                       /\ (names = <<>> <=> n = 0)
  BY LenProperties, EmptySeq
<1>2. PICK m \in Nat : m = (IF n = 0 THEN 0 ELSE 2 * n - 1) /\ 1..m = 1..(2 * n - 1)
  <2>1. CASE n = 0
    BY <2>1
  <2>2. CASE n # 0
    BY <2>2
  <2> QED
    BY <2>1, <2>2
<1>3. PICK j : j = Join(names)
  OBVIOUS
<1>4. j = [k \in 1..m |-> IF k % 2 = 1 THEN names[(k + 1) \div 2] ELSE Slash]
  BY <1>1, <1>2, <1>3 DEF Join
<1>5. ASSUME NEW k \in 1..m
      PROVE  (k % 2 = 1 \/ k % 2 = 0) /\ (k % 2 = 1 => (k + 1) \div 2 \in 1..n)
  <2>1. n # 0 /\ m = 2 * n - 1
    BY <1>2
  <2> QED
    BY <2>1
<1>6. \A k \in 1..m : j[k] \in Tokens /\ (j[k] = Slash <=> k % 2 = 0)
  <2> TAKE k \in 1..m
  <2>1. CASE k % 2 = 1
    <3>1. j[k] = names[(k + 1) \div 2] /\ (k + 1) \div 2 \in 1..n
      BY <1>4, <1>5, <2>1
    <3>2. j[k] \in Names
      BY <1>1, <3>1
    <3> QED
      BY <2>1, <3>2, TokenFacts
  <2>2. CASE k % 2 = 0
    BY <1>4, <2>2, TokenFacts
  <2> QED
    BY <1>5, <2>1, <2>2
<1>7. j \in Seq(Tokens) /\ Len(j) = m
  BY <1>4, <1>6
<1>8. \A k \in 1..n : 2 * k - 1 \in 1..m /\ j[2 * k - 1] = names[k]
  <2> TAKE k \in 1..n
  <2>1. 2 * k - 1 \in 1..m /\ (2 * k - 1) % 2 = 1 /\ ((2 * k - 1) + 1) \div 2 = k
    BY <1>2
  <2> QED
    BY <1>4, <2>1
<1> QED
  BY <1>1, <1>2, <1>3, <1>6, <1>7, <1>8

(* Names that are joined alternate with separators, and are the names of   *)
(* the result.                                                             *)
LEMMA JoinedShape ==
  ASSUME NEW names \in Seq(Names), NEW a \in BOOLEAN
  PROVE  LET j == JoinedPath(a, names)
             l == IF a THEN 1 ELSE 0
         IN  /\ j \in Seq(Tokens) /\ Alternates(j)
             /\ NamesOf(j) = names
             /\ IsAbsolute(j) <=> a
             /\ Len(j) = l + IF names = <<>> THEN 0 ELSE 2 * Len(names) - 1
             /\ names # <<>> => j # <<>> /\ ~ EndsWithSeparator(j)
             /\ names = <<>> => j = IF a THEN <<Slash>> ELSE <<>>
<1>1. PICK b : b = Join(names)
  OBVIOUS
<1>2. PICK n \in Nat, m \in Nat :
        /\ n = Len(names) /\ m = Len(b) /\ (names = <<>> <=> n = 0)
        /\ m = IF n = 0 THEN 0 ELSE 2 * n - 1
  BY <1>1, JoinOfNames, LenProperties, EmptySeq
<1>3. /\ b \in Seq(Tokens) /\ b \in [1..m -> Tokens]
      /\ \A k \in 1..m : b[k] = Slash <=> k % 2 = 0
      /\ \A k \in 1..n : 2 * k - 1 \in 1..m /\ b[2 * k - 1] = names[k]
  BY <1>1, <1>2, JoinOfNames, LenProperties
<1>4. PICK j : j = JoinedPath(a, names)
  OBVIOUS
<1>5. PICK l \in {0, 1} : l = IF a THEN 1 ELSE 0
  OBVIOUS
<1>6. /\ j \in Seq(Tokens) /\ Len(j) = l + m
      /\ \A k \in 1..m : j[k + l] = b[k]
      /\ l = 1 => j[1] = Slash
  <2>1. CASE a
    <3>1. <<Slash>> \in Seq(Tokens) /\ Len(<<Slash>>) = 1 /\ <<Slash>>[1] = Slash
      BY TokenFacts
    <3>2. j = <<Slash>> \o b
      BY <1>1, <1>4, <2>1 DEF JoinedPath, Root
    <3>3. PICK r : r = <<Slash>>
      OBVIOUS
    <3>4. /\ j \in Seq(Tokens) /\ Len(j) = 1 + m
          /\ \A k \in 1..(1 + m) : j[k] = IF k <= 1 THEN r[k] ELSE b[k - 1]
      BY <1>2, <1>3, <3>1, <3>2, <3>3, ConcatProperties
    <3>5. \A k \in 1..m : k + 1 \in 1..(1 + m) /\ ~ (k + 1 <= 1) /\ (k + 1) - 1 = k
      OBVIOUS
    <3>6. \A k \in 1..m : j[k + 1] = b[k]
      BY <3>4, <3>5
    <3>7. j[1] = Slash
      BY <3>1, <3>3, <3>4
    <3> QED
      BY <1>5, <2>1, <3>4, <3>6, <3>7
  <2>2. CASE ~ a
    <3>1. j = b
      BY <1>1, <1>3, <1>4, <2>2, ConcatEmptySeq DEF JoinedPath
    <3> QED
      BY <1>2, <1>3, <1>5, <2>2, <3>1
  <2> QED
    BY <2>1, <2>2
<1>7. \A k \in 1..(l + m) : j[k] = Slash <=> (k + l) % 2 = 0
  <2> TAKE k \in 1..(l + m)
  <2>1. CASE l = 0
    <3>1. k \in 1..m /\ k + l = k
      BY <2>1
    <3> QED
      BY <1>3, <1>6, <2>1, <3>1
  <2>2. CASE l = 1 /\ k = 1
    BY <1>6, <2>2
  <2>3. CASE l = 1 /\ k # 1
    <3>1. PICK i_ \in 1..m : k = i_ + 1
      <4>1. k - 1 \in 1..m /\ k = (k - 1) + 1
        BY <2>3
      <4> QED
        BY <4>1
    <3>2. j[k] = Slash <=> i_ % 2 = 0
      BY <1>3, <1>6, <2>3, <3>1
    <3>3. i_ % 2 = 0 <=> ((i_ + 1) + 1) % 2 = 0
      OBVIOUS
    <3> QED
      BY <2>3, <3>1, <3>2, <3>3
  <2> QED
    BY <2>1, <2>2, <2>3
<1>8. Alternates(j)
  <2> SUFFICES ASSUME NEW k \in 1..((l + m) - 1)
               PROVE  (j[k] = Slash) <=> (j[k + 1] # Slash)
    BY <1>6 DEF Alternates
  <2>1. k \in 1..(l + m) /\ k + 1 \in 1..(l + m)
    OBVIOUS
  <2>2. (k + l) % 2 = 0 <=> (k + 1 + l) % 2 # 0
    OBVIOUS
  <2> QED
    BY <1>7, <2>1, <2>2
<1>9. \A k \in 1..n : 2 * k - 1 + l \in 1..(l + m) /\ j[2 * k - 1 + l] = names[k]
  <2> TAKE k \in 1..n
  <2>1. 2 * k - 1 \in 1..m /\ b[2 * k - 1] = names[k]
    BY <1>3
  <2>2. j[(2 * k - 1) + l] = b[2 * k - 1]
    BY <1>6, <2>1
  <2> QED
    BY <2>1, <2>2
<1>10. IsAbsolute(j) <=> a
  <2>1. CASE l + m = 0
    <3>1. j = <<>> /\ ~ a
      BY <1>5, <1>6, <2>1, EmptySeq
    <3> QED
      BY <3>1 DEF IsAbsolute
  <2>2. CASE l + m # 0
    <3>1. 1 \in 1..(l + m) /\ j # <<>>
      BY <1>6, <2>2, EmptySeq
    <3>2. j[1] = Slash <=> l = 1
      BY <1>7, <3>1
    <3> QED
      BY <1>5, <3>1, <3>2 DEF IsAbsolute
  <2> QED
    BY <2>1, <2>2
<1>11. NamesOf(j) = names
  <2>1. PICK o \in Seq(Names), r \in Nat : o = NamesOf(j) /\ r = Len(o)
    BY <1>6, NamesOfStep, LenProperties
  <2>2. l = Lead(j)
    BY <1>5, <1>10 DEF Lead
  <2>3. /\ 2 * r \in {(l + m) - l, (l + m) - l + 1}
        /\ \A k \in 1..r : o[k] = j[2 * k - 1 + l]
    BY <1>6, <1>8, <2>1, <2>2, NamesAlternate
  <2>4. r = n
    BY <1>2, <2>3
  <2>5. \A k \in 1..r : o[k] = names[k]
    BY <1>9, <2>3, <2>4
  <2>6. o = names
    BY <1>2, <2>1, <2>4, <2>5, SeqEqual
  <2> QED
    BY <2>1, <2>6
<1>12. names # <<>> => j # <<>> /\ ~ EndsWithSeparator(j)
  <2> SUFFICES ASSUME names # <<>>
               PROVE  j # <<>> /\ ~ EndsWithSeparator(j)
    OBVIOUS
  <2>1. l + m = 2 * n - 1 + l /\ l + m \in 1..(l + m)
    BY <1>2
  <2>2. (l + m + l) % 2 # 0
    <3>1. l + m + l = 2 * (n + l) - 1
      BY <2>1
    <3> QED
      BY <3>1
  <2>3. j[l + m] # Slash
    BY <1>7, <2>1, <2>2
  <2> QED
    BY <1>6, <2>1, <2>3, EmptySeq DEF EndsWithSeparator
<1>13. names = <<>> => j = IF a THEN <<Slash>> ELSE <<>>
  <2> SUFFICES ASSUME names = <<>>
               PROVE  j = IF a THEN <<Slash>> ELSE <<>>
    OBVIOUS
  <2>1. Len(j) = l
    BY <1>2, <1>6
  <2>2. l = 0 => j = <<>>
    BY <1>6, <2>1, EmptySeq
  <2>3. l = 1 => j = <<Slash>>
    BY <1>6, <2>1, SingleToken
  <2> QED
    BY <1>5, <2>2, <2>3
<1> QED
  BY <1>2, <1>4, <1>5, <1>6, <1>8, <1>10, <1>11, <1>12, <1>13

(* Such a path is its names, whether it is absolute, and how long it is. *)
LEMMA SameShape ==
  ASSUME NEW s \in Seq(Tokens), NEW w \in Seq(Tokens),
         Alternates(s), Alternates(w), Len(s) = Len(w),
         NamesOf(s) = NamesOf(w), Lead(s) = Lead(w)
  PROVE  s = w
<1>1. PICK a \in Nat : a = Len(s)
  BY LenProperties
<1>2. PICK l \in {0, 1} : l = Lead(s)
  BY DEF Lead
<1>3. PICK n \in Seq(Names), m \in Nat : n = NamesOf(s) /\ m = Len(n)
  BY NamesOfStep, LenProperties
<1>4. /\ 2 * m \in {a - l, a - l + 1}
      /\ \A k \in 1..m : n[k] = s[2 * k - 1 + l]
      /\ \A k \in 1..a : s[k] = Slash <=> (k + l) % 2 = 0
  BY <1>1, <1>2, <1>3, NamesAlternate
<1>5. /\ \A k \in 1..m : n[k] = w[2 * k - 1 + l]
      /\ \A k \in 1..a : w[k] = Slash <=> (k + l) % 2 = 0
  <2>1. a = Len(w) /\ l = Lead(w) /\ n = NamesOf(w)
    BY <1>1, <1>2, <1>3
  <2> QED
    BY <1>3, <2>1, NamesAlternate
<1>6. \A k \in 1..a : s[k] = w[k]
  <2> TAKE k \in 1..a
  <2>1. CASE (k + l) % 2 = 0
    BY <1>4, <1>5, <2>1
  <2>2. CASE (k + l) % 2 = 1
    <3>1. PICK q \in 1..m : k = 2 * q - 1 + l
      <4>1. PICK q \in Int : k + l = 2 * q + 1
        <5>1. k + l = 2 * ((k + l) \div 2) + 1
          BY <2>2
        <5> QED
          BY <5>1
      <4>2. k = 2 * (q + 1 - l) - 1 + l /\ q + 1 - l \in 1..m
        <5>1. 2 * m \in {a - l, a - l + 1}
          BY <1>4
        <5>2. CASE l = 0
          BY <4>1, <5>1, <5>2
        <5>3. CASE l = 1
          BY <4>1, <5>1, <5>3
        <5> QED
          BY <5>2, <5>3
      <4> QED
        BY <4>2
    <3> QED
      BY <1>4, <1>5, <3>1
  <2>3. (k + l) % 2 = 0 \/ (k + l) % 2 = 1
    OBVIOUS
  <2> QED
    BY <2>1, <2>2, <2>3
<1> QED
  BY <1>1, <1>6, SeqEqual

(* The last element is what DropEnd() drops. *)
LEMMA DropEndOfAppend ==
  ASSUME NEW T, NEW j \in Seq(T), NEW t \in T
  PROVE  DropEnd(Append(j, t)) = j
<1>1. PICK w \in Seq(T), n \in Nat : w = Append(j, t) /\ n = Len(j)
  BY AppendProperties, LenProperties
<1>2. Len(w) = n + 1 /\ \A k \in 1..n : w[k] = j[k]
  BY <1>1, AppendProperties
<1>3. PICK d : d = SubSeq(w, 1, n)
  OBVIOUS
<1>4. \A k \in 1..n : w[k] \in T
  BY <1>1, <1>2, ElementOfSeq
<1>5. /\ d \in Seq(T) /\ Len(d) = IF 1 <= n THEN n - 1 + 1 ELSE 0
      /\ \A k \in 1..(n - 1 + 1) : d[k] = w[1 + k - 1]
  BY <1>3, <1>4, SubSeqProperties
<1>6. Len(d) = n /\ \A k \in 1..n : d[k] = j[k]
  BY <1>2, <1>5
<1>7. d = j
  BY <1>1, <1>5, <1>6, SeqEqual
<1>8. DropEnd(w) = SubSeq(w, 1, (n + 1) - 1) /\ (n + 1) - 1 = n
  BY <1>2 DEF DropEnd
<1> QED
  BY <1>1, <1>3, <1>7, <1>8

(* A path with a separator put behind it. *)
LEMMA WithSeparator ==
  ASSUME NEW j \in Seq(Tokens)
  PROVE  /\ j \o Root = Append(j, Slash) /\ j \o <<>> = j
         /\ DropEnd(Append(j, Slash)) = j
         /\ Append(j, Slash) \in Seq(Tokens)
         /\ EndsWithSeparator(Append(j, Slash))
         /\ Length(Append(j, Slash)) = Length(j) + 1
         /\ j # <<>> => (IsAbsolute(Append(j, Slash)) <=> IsAbsolute(j))
<1>1. Slash \in Tokens /\ Bytes[Slash] = 1
  BY TokenFacts
<1>2. j \o <<Slash>> = Append(j, Slash) /\ j \o <<>> = j
  BY <1>1, AppendIsConcat, ConcatEmptySeq
<1>3. DropEnd(Append(j, Slash)) = j
  BY <1>1, DropEndOfAppend
<1>4. Append(j, Slash) \in Seq(Tokens) /\ EndsWithSeparator(Append(j, Slash))
  BY <1>1, AppendProperties, EndsOfAppend
<1>5. Length(Append(j, Slash)) = Length(j) + 1
  BY <1>1, LengthStep
<1>6. j # <<>> => (IsAbsolute(Append(j, Slash)) <=> IsAbsolute(j))
  BY <1>1, EndsOfAppend
<1> QED
  BY <1>2, <1>3, <1>4, <1>5, <1>6 DEF Root

(* A path without double separators is its names put together. *)
LEMMA PathIsJoined ==
  ASSUME NEW s \in Seq(Tokens), Alternates(s)
  PROVE  LET n == NamesOf(s)
             j == JoinedPath(IsAbsolute(s), n)
         IN  s = IF EndsWithSeparator(s) /\ n # <<>> THEN Append(j, Slash) ELSE j
<1>1. PICK n \in Seq(Names), m \in Nat, a \in Nat :
        n = NamesOf(s) /\ m = Len(n) /\ a = Len(s) /\ (n = <<>> <=> m = 0)
  BY NamesOfStep, LenProperties, EmptySeq
<1>2. PICK l \in {0, 1} : l = Lead(s) /\ l = IF IsAbsolute(s) THEN 1 ELSE 0
  BY DEF Lead
<1>3. PICK j \in Seq(Tokens) : j = JoinedPath(IsAbsolute(s), n)
  <2>1. IsAbsolute(s) \in BOOLEAN
    BY DEF IsAbsolute
  <2> QED
    BY <2>1, JoinedShape
<1>4. /\ Alternates(j) /\ NamesOf(j) = n /\ Lead(j) = l
      /\ Len(j) = l + IF m = 0 THEN 0 ELSE 2 * m - 1
      /\ n # <<>> => j # <<>> /\ ~ EndsWithSeparator(j)
  <2>1. IsAbsolute(s) \in BOOLEAN
    BY DEF IsAbsolute
  <2> QED
    BY <1>1, <1>2, <1>3, <2>1, JoinedShape DEF Lead
<1>5. /\ 2 * m \in {a - l, a - l + 1}
      /\ EndsWithSeparator(s) <=> s # <<>> /\ 2 * m = a - l
      /\ s = <<>> => l = 0 /\ a = 0
  <2>1. EndsWithSeparator(s) => s # <<>>
    BY DEF EndsWithSeparator
  <2>2. s = <<>> => l = 0 /\ a = 0
    BY <1>1, <1>2 DEF IsAbsolute
  <2> QED
    BY <1>1, <1>2, <2>1, <2>2, NamesAlternate
<1>6. CASE EndsWithSeparator(s) /\ n # <<>>
  <2>1. PICK w \in Seq(Tokens) : w = Append(j, Slash)
    BY <1>3, WithSeparator
  <2>2. Len(w) = l + 2 * m - 1 + 1
    BY <1>1, <1>4, <1>6, <2>1, AppendProperties, TokenFacts
  <2>3. Len(w) = Len(s)
    BY <1>1, <1>5, <1>6, <2>2
  <2>4. NamesOf(w) = n /\ Lead(w) = l
    BY <1>4, <1>6, <2>1, NamesOfStep, TokenFacts, WithSeparator DEF Lead
  <2>5. Alternates(w)
    BY <1>4, <1>6, <2>1, PrefixIsLikeIt, TokenFacts
  <2>6. s = w
    BY <1>1, <1>2, <2>3, <2>4, <2>5, SameShape
  <2> QED
    BY <1>1, <1>3, <1>6, <2>1, <2>6
<1>7. CASE ~ (EndsWithSeparator(s) /\ n # <<>>)
  <2>1. Len(j) = a
    <3>1. CASE s = <<>>
      BY <1>1, <1>4, <1>5, <3>1, NamesOfStep
    <3>2. CASE s # <<>> /\ EndsWithSeparator(s)
      BY <1>1, <1>4, <1>5, <1>7, <3>2
    <3>3. CASE s # <<>> /\ ~ EndsWithSeparator(s)
      <4>1. 2 * m = a - l + 1 /\ a # 0
        BY <1>1, <1>5, <3>3, EmptySeq
      <4>2. m # 0
        BY <1>2, <4>1
      <4> QED
        BY <1>2, <1>4, <4>1, <4>2
    <3> QED
      BY <3>1, <3>2, <3>3
  <2>2. s = j
    BY <1>1, <1>2, <1>4, <2>1, SameShape
  <2> QED
    BY <1>1, <1>3, <1>7, <2>2
<1> QED
  BY <1>6, <1>7

-----------------------------------------------------------------------------
(* What is left of the first entries of an index array.                    *)

Upto(s, n) == SubSeq(s, 1, n)

(* The first elements of a sequence, one more at a time. *)
LEMMA UptoStep ==
  ASSUME NEW T, NEW s \in Seq(T)
  PROVE  /\ Upto(s, 0) = <<>> /\ Upto(s, Len(s)) = s
         /\ \A n \in 0..Len(s) : Upto(s, n) \in Seq(T) /\ Len(Upto(s, n)) = n
         /\ \A n \in 1..Len(s) :
              s[n] \in T /\ Upto(s, n) = Append(Upto(s, n - 1), s[n])
<1>1. PICK a \in Nat : a = Len(s)
  BY LenProperties
<1>2. \A k \in 1..a : s[k] \in T
  BY <1>1, ElementOfSeq
<1>3. ASSUME NEW n \in 0..a
      PROVE  /\ Upto(s, n) \in Seq(T) /\ Len(Upto(s, n)) = n
             /\ \A k \in 1..n : Upto(s, n)[k] = s[k]
  <2>1. PICK u : u = SubSeq(s, 1, n)
    OBVIOUS
  <2>2. \A k \in 1..n : s[k] \in T
    BY <1>2
  <2>3. /\ u \in Seq(T) /\ Len(u) = IF 1 <= n THEN n - 1 + 1 ELSE 0
        /\ \A k \in 1..(n - 1 + 1) : u[k] = s[1 + k - 1]
    BY <2>1, <2>2, SubSeqProperties
  <2>4. /\ u \in Seq(T) /\ Len(u) = n
        /\ \A k \in 1..n : u[k] = s[k]
    BY <2>3
  <2> QED
    BY <2>1, <2>4 DEF Upto
<1>4. Upto(s, 0) = <<>>
  BY SubSeqEmpty DEF Upto
<1>5. Upto(s, a) = s
  BY <1>1, SubSeqFull DEF Upto
<1>6. ASSUME NEW n \in 1..a
      PROVE  Upto(s, n) = Append(Upto(s, n - 1), s[n])
  <2>1. PICK u \in Seq(T) : u = Upto(s, n) /\ Len(u) = n /\ \A k \in 1..n : u[k] = s[k]
    BY <1>3
  <2>2. PICK v \in Seq(T) : v = Upto(s, n - 1) /\ Len(v) = n - 1 /\ \A k \in 1..(n - 1) : v[k] = s[k]
    BY <1>3
  <2>6. PICK t \in T : t = s[n]
    BY <1>2
  <2>3. PICK w \in Seq(T) : w = Append(v, s[n]) /\ Len(w) = (n - 1) + 1
                            /\ (\A k \in 1..(n - 1) : w[k] = v[k]) /\ w[(n - 1) + 1] = s[n]
    <3>1. Append(v, t) \in Seq(T) /\ Len(Append(v, t)) = Len(v) + 1
          /\ (\A k \in 1..Len(v) : Append(v, t)[k] = v[k]) /\ Append(v, t)[Len(v) + 1] = t
      BY AppendProperties
    <3> QED
      BY <2>2, <2>6, <3>1
  <2>4. Len(w) = n /\ \A k \in 1..n : w[k] = s[k]
    BY <2>2, <2>3
  <2>5. u = w
    BY <2>1, <2>4, SeqEqual
  <2> QED
    BY <2>1, <2>2, <2>3, <2>5
<1> QED
  BY <1>1, <1>2, <1>3, <1>4, <1>5, <1>6

(* Sequences that begin alike have the same first elements. *)
LEMMA UptoAlike ==
  ASSUME NEW s, NEW w, NEW n \in Int, \A k \in 1..n : s[k] = w[k]
  PROVE  Upto(s, n) = Upto(w, n)
<1>1. SubSeq(s, 1, n) = SubSeq(w, 1, n)
  OBVIOUS
<1> QED
  BY <1>1 DEF Upto

(* What is left of the first n entries. *)
Left(s, n) == Kept(Upto(s, n))

(* What is left of the first entries, one entry more at a time. *)
LEMMA LeftStep ==
  ASSUME NEW s \in Seq(Entries)
  PROVE  /\ Left(s, 0) = <<>>
         /\ \A n \in 0..Len(s) : Left(s, n) \in Seq(Names)
         /\ \A n \in 1..Len(s) :
              /\ s[n] \in Entries
              /\ Left(s, n) = IF s[n] = Gone THEN Left(s, n - 1)
                              ELSE Append(Left(s, n - 1), s[n])
<1>1. PICK a \in Nat : a = Len(s)
  BY LenProperties
<1>2. \A n \in 0..a : Upto(s, n) \in Seq(Entries)
  BY <1>1, UptoStep
<1>3. ASSUME NEW n \in 1..a
      PROVE  /\ s[n] \in Entries
             /\ Left(s, n) = IF s[n] = Gone THEN Left(s, n - 1)
                             ELSE Append(Left(s, n - 1), s[n])
  <2>1. PICK u \in Seq(Entries), t \in Entries :
          u = Upto(s, n - 1) /\ t = s[n] /\ Upto(s, n) = Append(u, t)
    <3>1. n - 1 \in 0..a
      OBVIOUS
    <3>2. Upto(s, n - 1) \in Seq(Entries)
      BY <1>2, <3>1
    <3>3. s[n] \in Entries /\ Upto(s, n) = Append(Upto(s, n - 1), s[n])
      BY <1>1, UptoStep
    <3> QED
      BY <3>2, <3>3
  <2>2. Kept(Append(u, t)) = IF t = Gone THEN Kept(u) ELSE Append(Kept(u), t)
    BY KeptStep
  <2> QED
    BY <2>1, <2>2 DEF Left
<1> QED
  BY <1>1, <1>2, <1>3, UptoStep, KeptStep DEF Left

(* Entries that are gone leave nothing. *)
LEMMA GoneTail ==
  ASSUME NEW s \in Seq(Entries), NEW m \in 0..Len(s), NEW n \in m..Len(s),
         \A k \in (m + 1)..n : s[k] = Gone
  PROVE  Left(s, n) = Left(s, m)
<1>1. PICK a \in Nat : a = Len(s)
  BY LenProperties
<1> SUFFICES ASSUME Left(s, n) # Left(s, m)
             PROVE  FALSE
  OBVIOUS
<1> DEFINE N == {q \in Nat : q \in m..n /\ Left(s, q) # Left(s, m)}
<1>2. n \in N /\ N \in SUBSET Nat
  BY <1>1
<1>3. PICK q \in N : \A r \in N : q <= r
  <2> HIDE DEF N
  <2> QED
    BY <1>2, LeastNumber
<1>4. q \in Nat /\ q \in m..n /\ Left(s, q) # Left(s, m)
  BY <1>3
<1>5. q # m
  BY <1>4
<1>6. q \in 1..a /\ q \in (m + 1)..n /\ q - 1 \in m..n /\ q - 1 \in Nat
  BY <1>1, <1>4, <1>5
<1>7. Left(s, q) = Left(s, q - 1)
  BY <1>1, <1>6, LeftStep
<1>8. q - 1 \in N
  BY <1>4, <1>6, <1>7
<1> QED
  BY <1>3, <1>4, <1>8

(* Something is left when an entry is not gone; the last that is not is    *)
(* the last of what is left, and clearing it takes it away.                *)
LEMMA LastLeft ==
  ASSUME NEW s \in Seq(Entries), NEW n \in 0..Len(s),
         NEW u, u = {k \in 1..n : s[k] # Gone}
  PROVE  /\ u = {} => Left(s, n) = <<>>
         /\ u # {} => /\ Max(u) \in 1..n /\ s[Max(u)] \in Names
                      /\ Left(s, n) = Append(Left(s, Max(u) - 1), s[Max(u)])
                      /\ DropEnd(Left(s, n)) = Left(s, Max(u) - 1)
                      /\ Len(Left(s, n)) = Len(Left(s, Max(u) - 1)) + 1
                      /\ \A k \in (Max(u) + 1)..n : s[k] = Gone
<1>1. PICK a \in Nat : a = Len(s)
  BY LenProperties
<1>2. CASE u = {}
  <2>1. \A k \in 1..n : s[k] = Gone
    BY <1>2
  <2>2. Left(s, n) = Left(s, 0)
    BY <1>1, <2>1, GoneTail
  <2> QED
    BY <1>2, <2>2, LeftStep
<1>3. CASE u # {}
  <2>1. PICK j : j = Max(u)
    OBVIOUS
  <2>2. j \in 1..n /\ s[j] # Gone /\ \A k \in (j + 1)..n : s[k] = Gone
    <3>1. n \in Nat /\ u \in SUBSET (1..n)
      BY <1>1
    <3>2. j \in u /\ \A k \in u : k <= j
      BY <1>3, <2>1, <3>1, MaxOfSet
    <3>3. \A k \in (j + 1)..n : k \notin u
      BY <3>1, <3>2
    <3> QED
      BY <1>1, <3>2, <3>3
  <2>3. Left(s, n) = Left(s, j)
    BY <1>1, <2>2, GoneTail
  <2>4. s[j] \in Entries /\ Left(s, j) = Append(Left(s, j - 1), s[j])
    BY <1>1, <2>2, LeftStep
  <2>5. s[j] \in Names
    BY <2>2, <2>4 DEF Entries
  <2>6. PICK r \in Seq(Names) : r = Left(s, j - 1)
    BY <1>1, <2>2, LeftStep
  <2>7. DropEnd(Append(r, s[j])) = r /\ Len(Append(r, s[j])) = Len(r) + 1
    BY <2>5, DropEndOfAppend, AppendProperties
  <2> QED
    BY <1>3, <2>1, <2>2, <2>3, <2>4, <2>5, <2>6, <2>7
<1> QED
  BY <1>2, <1>3

(* The walk depends on the arguments only. *)
LEMMA WalkSame ==
  ASSUME input' = input, removeDD' = removeDD
  PROVE  /\ Floor' = Floor
         /\ \A s \in Seq(Names) : WalkedOver(s)' = WalkedOver(s)
<1>1. Floor' = Floor /\ (IsAbsolute(input))' = IsAbsolute(input)
  BY DEF Floor, IsAbsolute
<1>2. (/\ WalkedOver(<<>>) = Origin
       /\ \A s \in Seq(Names) :
            /\ WalkedOver(s) \in WalkStates
            /\ \A t \in Names : WalkedOver(Append(s, t)) =
                 WalkOn(WalkedOver(s), t))'
  BY WalkedOverStep, PTL
<1>3. \A here \in WalkStates, name \in Names :
        WalkOn(here, name)' = WalkOn(here, name)
  BY <1>1 DEF WalkOn
<1> DEFINE P == {s \in Seq(Names) : WalkedOver(s)' = WalkedOver(s)}
<1>4. <<>> \in P
  BY <1>2, WalkedOverStep
<1>5. ASSUME NEW s \in Seq(Names), NEW t \in Names, s \in P
      PROVE  Append(s, t) \in P
  BY <1>2, <1>3, <1>5, WalkedOverStep, AppendProperties
<1>6. Seq(Names) \subseteq P
  <2> HIDE DEF P
  <2> QED
    BY <1>4, <1>5, SeqInduction
<1> QED
  BY <1>1, <1>6

(* What is expected depends on the arguments only. *)
LEMMA ExpectedSame ==
  ASSUME input \in Seq(Tokens),
         input' = input, removeDD' = removeDD, keepEnd' = keepEnd
  PROVE  Expected' = Expected
<1>1. NamesOf(input) \in Seq(Names)
  BY NamesOfStep
<1>2. WalkedOver(NamesOf(input))' = WalkedOver(NamesOf(input))
  BY <1>1, WalkSame
<1>3. Walked = WalkedOver(NamesOf(input))
  BY Zenon DEF Walked, WalkedOver, Origin
<1>4. Walked' = Walked
  <2>1. (Walked = WalkedOver(NamesOf(input)))'
    BY <1>3, Zenon DEF Walked, WalkedOver, Origin
  <2> QED
    BY <1>2, <1>3, <2>1
<1> QED
  BY <1>4 DEF Expected

(* What is expected is the path to where the walk ends. *)
LEMMA ExpectedIs ==
  ASSUME NEW st \in Seq(Names), NEW lo \in BOOLEAN,
         WalkedOver(NamesOf(input)) = [stack |-> st, lost |-> lo]
  PROVE  Expected =
           IF lo \/ (st = <<>> /\ ~ IsAbsolute(input)) THEN Null
           ELSE IF keepEnd /\ EndsWithSeparator(input) /\ st # <<>>
                THEN Append(JoinedPath(IsAbsolute(input), st), Slash)
                ELSE JoinedPath(IsAbsolute(input), st)
<1>1. Walked = WalkedOver(NamesOf(input))
  BY Zenon DEF Walked, WalkedOver, Origin
<1>2. Walked.stack = st /\ Walked.lost = lo
  BY <1>1
<1>3. PICK j \in Seq(Tokens) : j = JoinedPath(IsAbsolute(input), st)
  <2>1. IsAbsolute(input) \in BOOLEAN
    BY DEF IsAbsolute
  <2> QED
    BY <2>1, JoinedShape
<1>4. j \o Root = Append(j, Slash) /\ j \o <<>> = j
  BY WithSeparator
<1>5. Expected =
        IF lo \/ (st = <<>> /\ ~ IsAbsolute(input)) THEN Null
        ELSE j \o (IF keepEnd /\ EndsWithSeparator(input) /\ st # <<>>
                   THEN Root ELSE <<>>)
  BY <1>2, <1>3 DEF Expected, JoinedPath
<1> QED
  BY <1>3, <1>4, <1>5

(* A way that is lost stays lost. *)
LEMMA LostForever ==
  ASSUME NEW s \in Seq(Names), NEW n \in 0..Len(s), WalkedOver(Upto(s, n)).lost
  PROVE  WalkedOver(s).lost
<1>1. PICK a \in Nat : a = Len(s)
  BY LenProperties
<1> SUFFICES ASSUME ~ WalkedOver(s).lost
             PROVE  FALSE
  OBVIOUS
<1> DEFINE N == {q \in Nat : q \in n..a /\ ~ WalkedOver(Upto(s, q)).lost}
<1>2. a \in N /\ N \in SUBSET Nat
  <2>1. Upto(s, a) = s
    BY <1>1, UptoStep
  <2> QED
    BY <1>1, <2>1
<1>3. PICK q \in N : \A r \in N : q <= r
  <2> HIDE DEF N
  <2> QED
    BY <1>2, LeastNumber
<1>4. q \in Nat /\ q \in n..a /\ ~ WalkedOver(Upto(s, q)).lost
  BY <1>3
<1>5. q # n
  BY <1>4
<1>6. q \in 1..a /\ q - 1 \in n..a /\ q - 1 \in Nat /\ q - 1 \in 0..a
  BY <1>1, <1>4, <1>5
<1>7. PICK u \in Seq(Names), t \in Names :
        u = Upto(s, q - 1) /\ t = s[q] /\ Upto(s, q) = Append(u, t)
  <2>1. Upto(s, q - 1) \in Seq(Names)
    BY <1>1, <1>6, UptoStep
  <2>2. s[q] \in Names /\ Upto(s, q) = Append(Upto(s, q - 1), s[q])
    BY <1>1, <1>6, UptoStep
  <2> QED
    BY <2>1, <2>2
<1>8. PICK h \in WalkStates : h = WalkedOver(u) /\ WalkedOver(Append(u, t)) = WalkOn(h, t)
  BY WalkedOverStep
<1>9. ~ h.lost
  <2>1. h.lost => WalkOn(h, t) = h
    BY WalkOnIs
  <2> QED
    BY <1>4, <1>7, <1>8, <2>1
<1>10. q - 1 \in N
  BY <1>6, <1>7, <1>8, <1>9
<1> QED
  BY <1>3, <1>4, <1>10

(* Names without "." and ".." lead where they say. *)
LEMMA WalkPlain ==
  ASSUME NEW s \in Seq(Names \ {Dot, DotDot})
  PROVE  WalkedOver(s) = [stack |-> s, lost |-> FALSE]
<1> DEFINE T == Names \ {Dot, DotDot}
           P == {w \in Seq(T) : WalkedOver(w) = [stack |-> w, lost |-> FALSE]}
<1>1. <<>> \in P
  <2>1. <<>> \in Seq(T)
    OBVIOUS
  <2> QED
    BY <2>1, WalkedOverStep DEF Origin
<1>2. ASSUME NEW w \in Seq(T), NEW t \in T, w \in P
      PROVE  Append(w, t) \in P
  <2>1. w \in Seq(Names) /\ t \in Names /\ t # Dot /\ t # DotDot
    <3>1. T \subseteq Names
      OBVIOUS
    <3> QED
      BY <3>1, SeqMonotonic
  <2>2. PICK h \in WalkStates : h = [stack |-> w, lost |-> FALSE]
    BY <2>1 DEF WalkStates
  <2>3. WalkOn(h, t) = [stack |-> Append(h.stack, t), lost |-> FALSE]
    BY <2>1, <2>2, WalkOnIs
  <2>4. WalkedOver(Append(w, t)) = WalkOn(WalkedOver(w), t)
    BY <2>1, WalkedOverStep
  <2>5. Append(w, t) \in Seq(T)
    BY AppendProperties
  <2> QED
    BY <1>2, <2>2, <2>3, <2>4, <2>5
<1>3. Seq(T) \subseteq P
  <2> HIDE DEF P
  <2> QED
    BY <1>1, <1>2, SeqInduction
<1> QED
  BY <1>3

(* The first token is not longer than all of them. *)
LEMMA FirstLength ==
  ASSUME NEW s \in Seq(Tokens), s # <<>>
  PROVE  s[1] \in Tokens /\ Bytes[s[1]] <= Length(s)
<1> DEFINE P == {w \in Seq(Tokens) : w # <<>> => Bytes[w[1]] <= Length(w)}
<1>1. <<>> \in P
  <2>1. <<>> \in Seq(Tokens)
    OBVIOUS
  <2> QED
    BY <2>1
<1>2. ASSUME NEW w \in Seq(Tokens), NEW t \in Tokens, w \in P
      PROVE  Append(w, t) \in P
  <2>1. PICK v \in Seq(Tokens), x \in Nat, y \in Nat :
          v = Append(w, t) /\ x = Length(w) /\ y = Bytes[t] /\ Length(v) = x + y
    <3>1. /\ Append(w, t) \in Seq(Tokens)
          /\ Length(Append(w, t)) = Length(w) + Bytes[t]
          /\ Length(w) \in Nat /\ Bytes[t] \in Nat
      BY LengthStep, TokenFacts, AppendProperties
    <3> QED
      BY <3>1
  <2>2. Bytes[v[1]] <= Length(v)
    <3>1. CASE w = <<>>
      <4>1. v[1] = t
        BY <2>1, <3>1
      <4> QED
        BY <2>1, <4>1
    <3>2. CASE w # <<>>
      <4>1. 1 \in 1..Len(w)
        BY <3>2, EmptySeq, LenProperties
      <4>2. v[1] = w[1] /\ w[1] \in Tokens
        BY <2>1, <4>1, AppendProperties, ElementOfSeq
      <4>3. PICK z \in Nat : z = Bytes[w[1]]
        BY <4>2, TokenFacts
      <4>4. z <= x
        BY <1>2, <2>1, <3>2, <4>3
      <4> QED
        BY <2>1, <4>2, <4>3, <4>4
    <3> QED
      BY <3>1, <3>2
  <2> QED
    BY <2>1, <2>2
<1>3. Seq(Tokens) \subseteq P
  <2> HIDE DEF P
  <2> QED
    BY <1>1, <1>2, SeqInduction
<1>4. s[1] \in Tokens
  BY EmptySeq, LenProperties, ElementOfSeq
<1> QED
  BY <1>3, <1>4

(* The parts of a sequence that an element was appended to. *)
LEMMA PartsOfAppend ==
  ASSUME NEW T, NEW S, NEW o \in Seq(T), NEW t \in T, Append(o, t) \in Seq(S)
  PROVE  o \in Seq(S) /\ t \in S
<1>1. PICK n \in Nat : n = Len(o)
  BY LenProperties
<1>2. PICK w : w = Append(o, t)
  OBVIOUS
<1>3. Len(w) = n + 1 /\ (\A k \in 1..n : w[k] = o[k]) /\ w[n + 1] = t
  BY <1>1, <1>2, AppendProperties
<1>4. \A k \in 1..(n + 1) : w[k] \in S
  BY <1>2, <1>3, ElementOfSeq
<1>5. \A k \in 1..n : o[k] \in S
  BY <1>3, <1>4
<1>6. o \in Seq(S)
  <2>1. o \in [1..n -> T]
    BY <1>1, LenProperties
  <2>2. o \in [1..n -> S]
    BY <1>5, <2>1
  <2> QED
    BY <2>2, IsASeq
<1> QED
  BY <1>3, <1>4, <1>6

(* A path without "." among its names has no "." in it. *)
LEMMA FreeOfDot ==
  ASSUME NEW s \in Seq(Tokens), NamesOf(s) \in Seq(Names \ {Dot})
  PROVE  Dot \notin Range(s)
<1> DEFINE P == {w \in Seq(Tokens) : NamesOf(w) \in Seq(Names \ {Dot})
                                            => w \in Seq(Tokens \ {Dot})}
<1>1. <<>> \in P
  <2>1. <<>> \in Seq(Tokens) /\ <<>> \in Seq(Tokens \ {Dot})
    OBVIOUS
  <2> QED
    BY <2>1
<1>2. ASSUME NEW w \in Seq(Tokens), NEW t \in Tokens, w \in P
      PROVE  Append(w, t) \in P
  <2>1. Append(w, t) \in Seq(Tokens)
    BY AppendProperties
  <2> SUFFICES ASSUME NamesOf(Append(w, t)) \in Seq(Names \ {Dot})
               PROVE  Append(w, t) \in Seq(Tokens \ {Dot})
    BY <2>1
  <2>2. PICK o \in Seq(Names) : o = NamesOf(w)
    BY NamesOfStep
  <2>3. CASE t = Slash
    <3>1. o \in Seq(Names \ {Dot})
      BY <2>2, <2>3, NamesOfStep
    <3>2. t \in Tokens \ {Dot}
      BY <2>3, TokenFacts
    <3> QED
      BY <1>2, <2>2, <3>1, <3>2, AppendProperties
  <2>4. CASE t # Slash
    <3>1. t \in Names
      BY <2>4, TokenFacts
    <3>2. Append(o, t) \in Seq(Names \ {Dot})
      BY <2>2, <2>4, NamesOfStep
    <3>3. o \in Seq(Names \ {Dot}) /\ t # Dot
      BY <3>1, <3>2, PartsOfAppend
    <3> QED
      BY <1>2, <2>2, <3>3, AppendProperties
  <2> QED
    BY <2>3, <2>4
<1>3. Seq(Tokens) \subseteq P
  <2> HIDE DEF P
  <2> QED
    BY <1>1, <1>2, SeqInduction
<1>4. s \in Seq(Tokens \ {Dot})
  BY <1>3
<1>5. \A k \in DOMAIN s : s[k] \in Tokens \ {Dot}
  BY <1>4, LenProperties, ElementOfSeq
<1> QED
  BY <1>5 DEF Range

(* What holds of 0 and goes on from each number holds up to any number. *)
LEMMA NumberInduction ==
  ASSUME NEW a \in Nat, NEW P, 0 \in P, \A n \in 1..a : n - 1 \in P => n \in P
  PROVE  0..a \subseteq P
<1> SUFFICES ASSUME NEW m \in 0..a, m \notin P
             PROVE  FALSE
  OBVIOUS
<1> DEFINE N == {n \in Nat : n \in 0..a /\ n \notin P}
<1>1. m \in N /\ N \in SUBSET Nat
  OBVIOUS
<1>2. PICK n \in N : \A k \in N : n <= k
  <2> HIDE DEF N
  <2> QED
    BY <1>1, LeastNumber
<1>3. n \in 1..a /\ n - 1 \in Nat /\ n - 1 \in 0..a
  <2>1. n # 0
    BY <1>2
  <2> QED
    BY <1>2, <2>1
<1>4. n - 1 \in N
  BY <1>2, <1>3
<1> QED
  BY <1>2, <1>3, <1>4

(* When the first entry is not gone something is left. *)
LEMMA FirstLeft ==
  ASSUME NEW s \in Seq(Entries), NEW n \in 1..Len(s), s[1] # Gone
  PROVE  Left(s, n) # <<>>
<1>1. PICK a \in Nat : a = Len(s)
  BY LenProperties
<1>2. PICK u : u = {k \in 1..n : s[k] # Gone}
  OBVIOUS
<1>3. u # {} /\ n \in 0..a
  BY <1>1, <1>2
<1>4. Max(u) \in 1..n /\ s[Max(u)] \in Names /\ Left(s, n) = Append(Left(s, Max(u) - 1), s[Max(u)])
  BY <1>1, <1>2, <1>3, LastLeft
<1>5. Left(s, Max(u) - 1) \in Seq(Names)
  BY <1>1, <1>4, LeftStep
<1> QED
  BY <1>4, <1>5, AppendProperties

(* Clearing entries makes neither the names nor their number greater, and  *)
(* the number smaller.                                                     *)
LEMMA LeftShorter ==
  ASSUME NEW names \in Seq(Names), NEW s \in Seq(Entries),
         Len(s) = Len(names), \A k \in 1..Len(s) : s[k] \in {names[k], Gone}
  PROVE  /\ Kept(s) = Left(s, Len(s))
         /\ Kept(s) \in Seq(Names)
         /\ Len(Kept(s)) <= Len(names)
         /\ Length(Kept(s)) <= Length(names)
         /\ (\E k \in 1..Len(s) : s[k] = Gone) => Len(Kept(s)) < Len(names)
<1>1. PICK a \in Nat : a = Len(s)
  BY LenProperties
<1>2. Kept(s) = Left(s, a) /\ Left(s, a) \in Seq(Names) /\ Upto(names, a) = names
  BY <1>1, UptoStep, LeftStep DEF Left
<1> DEFINE P == {n \in 0..a :
                   /\ Len(Left(s, n)) <= n
                   /\ Length(Left(s, n)) <= Length(Upto(names, n))
                   /\ (\E k \in 1..n : s[k] = Gone) => Len(Left(s, n)) < n}
<1>3. 0 \in P
  <2>1. Left(s, 0) = <<>> /\ Upto(names, 0) = <<>> /\ Len(<<>>) = 0
    BY UptoStep, LeftStep
  <2> QED
    BY <2>1, LengthStep
<1>4. ASSUME NEW n \in 1..a, n - 1 \in P
      PROVE  n \in P
  <2>1. PICK L \in Seq(Names), U \in Seq(Names), t \in Names :
          /\ L = Left(s, n - 1) /\ U = Upto(names, n - 1) /\ t = names[n]
          /\ Upto(names, n) = Append(U, t)
    <3>1. n - 1 \in 0..a
      OBVIOUS
    <3>2. Left(s, n - 1) \in Seq(Names) /\ Upto(names, n - 1) \in Seq(Names)
      BY <1>1, <3>1, UptoStep, LeftStep
    <3>3. names[n] \in Names /\ Upto(names, n) = Append(Upto(names, n - 1), names[n])
      BY SMTT(30), <1>1, UptoStep
    <3> QED
      BY <3>2, <3>3
  <2>2. L \in Seq(Tokens) /\ U \in Seq(Tokens) /\ t \in Tokens /\ t # Gone
    <3>1. Names \subseteq Tokens
      BY TokenFacts
    <3> QED
      BY <2>1, <3>1, SeqMonotonic, TokenFacts
  <2>3. PICK x \in Nat, y \in Nat, z \in Nat, c \in Nat :
          /\ x = Length(L) /\ y = Length(U) /\ z = Bytes[t] /\ c = Len(L)
          /\ Length(Append(L, t)) = x + z /\ Length(Append(U, t)) = y + z
          /\ Len(Append(L, t)) = c + 1
    <3>1. Length(L) \in Nat /\ Length(U) \in Nat /\ Bytes[t] \in Nat /\ Len(L) \in Nat
      BY <2>2, LengthStep, TokenFacts, LenProperties
    <3>2. /\ Length(Append(L, t)) = Length(L) + Bytes[t]
          /\ Length(Append(U, t)) = Length(U) + Bytes[t]
      BY <2>2, LengthStep
    <3>3. Len(Append(L, t)) = Len(L) + 1
      BY <2>2, AppendProperties
    <3> QED
      BY <3>1, <3>2, <3>3
  <2>4. x <= y /\ c <= n - 1 /\ ((\E k \in 1..(n - 1) : s[k] = Gone) => c < n - 1)
    BY <1>4, <2>1, <2>3
  <2>5. Left(s, n) = IF s[n] = Gone THEN L ELSE Append(L, t)
    <3>1. s[n] \in {t, Gone}
      BY <1>1, <2>1
    <3>2. Left(s, n) = IF s[n] = Gone THEN Left(s, n - 1) ELSE Append(Left(s, n - 1), s[n])
      BY <1>1, LeftStep
    <3> QED
      BY <2>1, <3>1, <3>2
  <2>6. CASE s[n] = Gone
    <3>1. Left(s, n) = L /\ Len(Left(s, n)) = c /\ Length(Left(s, n)) = x
      BY <2>3, <2>5, <2>6
    <3>2. Length(Upto(names, n)) = y + z
      BY <2>1, <2>3
    <3>3. c <= n /\ c < n /\ x <= y + z
      BY <2>4
    <3> QED
      BY <3>1, <3>2, <3>3
  <2>7. CASE s[n] # Gone
    <3>1. (\E k \in 1..n : s[k] = Gone) => (\E k \in 1..(n - 1) : s[k] = Gone)
      <4>1. \A k \in 1..n : s[k] = Gone => k \in 1..(n - 1)
        BY <2>7
      <4> QED
        BY <4>1
    <3>2. Len(Left(s, n)) = c + 1 /\ Length(Left(s, n)) = x + z
      BY <2>3, <2>5, <2>7
    <3>3. Length(Upto(names, n)) = y + z
      BY <2>1, <2>3
    <3>4. c + 1 <= n /\ x + z <= y + z /\ ((\E k \in 1..n : s[k] = Gone) => c + 1 < n)
      BY <2>4, <3>1
    <3> QED
      BY <3>2, <3>3, <3>4
  <2> QED
    BY <2>6, <2>7
<1>5. a \in P
  <2>1. 0..a \subseteq P
    <3> HIDE DEF P
    <3> QED
      BY <1>3, <1>4, NumberInduction
  <2> QED
    BY <1>1, <2>1
<1> QED
  BY <1>1, <1>2, <1>5

-----------------------------------------------------------------------------
(* Lengths, and the paths of at most one name.                             *)

(* A path of no more names, and not longer ones, is not longer. *)
LEMMA RoomForJoined ==
  ASSUME NEW s \in Seq(Tokens), Alternates(s), NEW names \in Seq(Names),
         Len(names) <= Len(NamesOf(s)),
         Length(names) <= Length(NamesOf(s))
  PROVE  LET j == JoinedPath(IsAbsolute(s), names)
         IN  /\ Length(j) <= Length(s)
             /\ EndsWithSeparator(s) /\ names # <<>> =>
                  Length(j) + 1 <= Length(s)
             /\ Len(names) < Len(NamesOf(s)) =>
                  Length(names) + Len(names) <= Length(s) - Lead(s)
             /\ 0 <= Length(s) - Lead(s)
<1>1. PICK a \in Nat, m \in Nat, k \in Nat, l \in {0, 1} :
        /\ a = Len(s) /\ m = Len(NamesOf(s)) /\ k = Len(names) /\ l = Lead(s)
        /\ names = <<>> <=> k = 0
  BY NamesOfStep, LenProperties, EmptySeq DEF Lead
<1>2. PICK x \in Nat, y \in Nat, z \in Nat :
        /\ x = Length(s) /\ y = Length(NamesOf(s)) /\ z = Length(names)
        /\ x = y + a - m /\ y >= m
  <2>1. Names \subseteq Tokens
    BY TokenFacts
  <2>2. NamesOf(s) \in Seq(Tokens) /\ names \in Seq(Tokens)
    BY <2>1, NamesOfStep, SeqMonotonic
  <2>3. Length(s) \in Nat /\ Length(NamesOf(s)) \in Nat /\ Length(names) \in Nat
    BY <2>2, LengthStep
  <2>4. /\ Length(s) = Length(NamesOf(s)) + Len(s) - Len(NamesOf(s))
        /\ Length(NamesOf(s)) >= Len(NamesOf(s))
    BY LengthOfPath
  <2> QED
    BY <1>1, <2>3, <2>4
<1>3. /\ 2 * m \in {a - l, a - l + 1}
      /\ EndsWithSeparator(s) => 2 * m = a - l
  <2>1. EndsWithSeparator(s) => s # <<>>
    BY DEF EndsWithSeparator
  <2> QED
    BY <1>1, <2>1, NamesAlternate
<1>4. PICK j \in Seq(Tokens), b \in Nat, v \in Nat :
        /\ j = JoinedPath(IsAbsolute(s), names) /\ b = Len(j) /\ v = Length(j)
        /\ b = l + (IF k = 0 THEN 0 ELSE 2 * k - 1)
        /\ v = z + b - k
  <2>1. IsAbsolute(s) \in BOOLEAN
    BY DEF IsAbsolute
  <2>2. PICK j \in Seq(Tokens) :
          /\ j = JoinedPath(IsAbsolute(s), names) /\ NamesOf(j) = names
          /\ Len(j) = (IF IsAbsolute(s) THEN 1 ELSE 0)
                      + IF names = <<>> THEN 0 ELSE 2 * Len(names) - 1
    BY <2>1, JoinedShape
  <2>3. Len(j) = l + IF k = 0 THEN 0 ELSE 2 * k - 1
    BY <1>1, <2>2 DEF Lead
  <2>4. Length(j) \in Nat /\ Length(j) = Length(names) + Len(j) - Len(names)
    BY <2>2, LengthOfPath
  <2>5. Len(j) \in Nat
    BY LenProperties
  <2> QED
    BY <1>1, <1>2, <2>2, <2>3, <2>4, <2>5
<1>5. k <= m /\ z <= y
  BY <1>1, <1>2
<1>6. v <= x
  <2>1. CASE k = 0
    <3>1. z >= 0 /\ v = z + l
      BY <1>4, <2>1
    <3>2. a - m >= l
      <4>1. a >= l
        <5>1. l = 1 => s # <<>>
          BY <1>1 DEF Lead, IsAbsolute
        <5> QED
          BY <1>1, <5>1, EmptySeq
      <4> QED
        BY <1>3, <4>1
    <3> QED
      BY SMTT(30), <1>2, <1>5, <3>1, <3>2
  <2>2. CASE k # 0
    BY SMTT(30), <1>2, <1>3, <1>4, <1>5, <2>2
  <2> QED
    BY <2>1, <2>2
<1>7. EndsWithSeparator(s) /\ k # 0 => v + 1 <= x
  BY SMTT(30), <1>2, <1>3, <1>4, <1>5
<1>8. k < m => z + k <= x - l
  <2>1. a >= 2 * m + l - 1
    BY <1>3
  <2>2. x - l >= y + m - 1
    BY SMTT(30), <1>2, <2>1
  <2> QED
    BY <1>5, <2>2
<1>9. 0 <= x - l
  <2>1. a >= l
    <3>1. l = 1 => s # <<>>
      BY <1>1 DEF Lead, IsAbsolute
    <3> QED
      BY <1>1, <3>1, EmptySeq
  <2> QED
    BY SMTT(30), <1>2, <2>1
<1> QED
  BY <1>1, <1>2, <1>4, <1>6, <1>7, <1>8, <1>9

(* The paths of one name. *)
LEMMA OneName ==
  ASSUME NEW x \in Names
  PROVE  /\ {<<>>, <<Slash>>, <<x>>, <<x, Slash>>, <<Slash, x>>, <<Slash, x, Slash>>}
              \subseteq Seq(Tokens)
         /\ NamesOf(<<Slash>>) = <<>> /\ IsAbsolute(<<Slash>>)
         /\ NamesOf(<<x>>) = <<x>> /\ ~ IsAbsolute(<<x>>)
         /\ NamesOf(<<x, Slash>>) = <<x>> /\ ~ IsAbsolute(<<x, Slash>>)
         /\ NamesOf(<<Slash, x>>) = <<x>> /\ IsAbsolute(<<Slash, x>>)
         /\ NamesOf(<<Slash, x, Slash>>) = <<x>> /\ IsAbsolute(<<Slash, x, Slash>>)
<1>1. x \in Tokens /\ x # Slash /\ Slash \in Tokens
  BY TokenFacts
<1>2. /\ <<>> \in Seq(Tokens) /\ <<Slash>> \in Seq(Tokens) /\ <<x>> \in Seq(Tokens)
      /\ <<x, Slash>> \in Seq(Tokens) /\ <<Slash, x>> \in Seq(Tokens)
      /\ <<Slash, x, Slash>> \in Seq(Tokens)
  BY <1>1
<1>3. /\ <<Slash>> = Append(<<>>, Slash) /\ <<x>> = Append(<<>>, x)
      /\ <<x, Slash>> = Append(<<x>>, Slash) /\ <<Slash, x>> = Append(<<Slash>>, x)
      /\ <<Slash, x, Slash>> = Append(<<Slash, x>>, Slash)
  OBVIOUS
<1>4. \A s \in Seq(Tokens), t \in Tokens :
        NamesOf(Append(s, t)) = IF t = Slash THEN NamesOf(s) ELSE Append(NamesOf(s), t)
  BY NamesOfStep
<1>5. NamesOf(<<Slash>>) = <<>> /\ NamesOf(<<x>>) = <<x>>
  <2>1. NamesOf(Append(<<>>, Slash)) = NamesOf(<<>>)
    BY <1>1, <1>2, <1>4
  <2>2. NamesOf(Append(<<>>, x)) = Append(NamesOf(<<>>), x)
    BY <1>1, <1>2, <1>4
  <2> QED
    BY <1>3, <2>1, <2>2, NamesOfStep
<1>6. NamesOf(<<x, Slash>>) = <<x>> /\ NamesOf(<<Slash, x>>) = <<x>>
  <2>1. NamesOf(Append(<<x>>, Slash)) = NamesOf(<<x>>)
    BY <1>1, <1>2, <1>4
  <2>2. NamesOf(Append(<<Slash>>, x)) = Append(NamesOf(<<Slash>>), x)
    BY <1>1, <1>2, <1>4
  <2> QED
    BY <1>3, <1>5, <2>1, <2>2
<1>7. NamesOf(<<Slash, x, Slash>>) = <<x>>
  <2>1. NamesOf(Append(<<Slash, x>>, Slash)) = NamesOf(<<Slash, x>>)
    BY <1>1, <1>2, <1>4
  <2> QED
    BY <1>3, <1>6, <2>1
<1>8. /\ IsAbsolute(<<Slash>>) /\ ~ IsAbsolute(<<x>>) /\ ~ IsAbsolute(<<x, Slash>>)
      /\ IsAbsolute(<<Slash, x>>) /\ IsAbsolute(<<Slash, x, Slash>>)
  BY <1>1 DEF IsAbsolute
<1> QED
  BY <1>2, <1>5, <1>6, <1>7, <1>8

(* Short sequences. *)
LEMMA ShortSequences ==
  ASSUME NEW x, NEW y
  PROVE  /\ <<y>> \o <<x>> = <<y, x>> /\ <<>> \o <<x>> = <<x>>
         /\ <<x, y>> = Append(<<x>>, y) /\ <<y, x, y>> = Append(<<y, x>>, y)
<1> DEFINE T == {x, y}
<1>1. <<y>> \in Seq(T) /\ <<x>> \in Seq(T) /\ x \in T /\ <<>> \in Seq(T)
  OBVIOUS
<1>2. <<y, x>> = Append(<<y>>, x)
  OBVIOUS
<1>3. <<y>> \o <<x>> = Append(<<y>>, x)
  BY <1>1, AppendIsConcat
<1>4. <<>> \o <<x>> = <<x>>
  BY <1>1, ConcatEmptySeq
<1>5. <<x, y>> = Append(<<x>>, y)
  OBVIOUS
<1>6. <<y, x, y>> = Append(<<y, x>>, y)
  OBVIOUS
<1> QED
  BY <1>2, <1>3, <1>4, <1>5, <1>6

(* A single name is joined to nothing. *)
LEMMA JoinOfOne ==
  ASSUME NEW x \in Names, NEW a \in BOOLEAN
  PROVE  JoinedPath(a, <<x>>) = IF a THEN <<Slash, x>> ELSE <<x>>
<1>1. PICK j \in Seq(Tokens) : j = Join(<<x>>) /\ Len(j) = 1 /\ j[1] = x
  <2>1. <<x>> \in Seq(Names) /\ Len(<<x>>) = 1 /\ <<x>> # <<>> /\ <<x>>[1] = x
    OBVIOUS
  <2>2. PICK w \in Seq(Names) : w = <<x>>
    BY <2>1
  <2>3. /\ Join(w) \in Seq(Tokens)
        /\ Len(Join(w)) = IF w = <<>> THEN 0 ELSE 2 * Len(w) - 1
        /\ \A k \in 1..Len(w) : Join(w)[2 * k - 1] = w[k]
    BY JoinOfNames
  <2>4. Len(Join(w)) = 1 /\ Join(w)[2 * 1 - 1] = w[1]
    BY <2>1, <2>2, <2>3
  <2> QED
    BY <2>1, <2>2, <2>3, <2>4
<1>2. j = <<x>>
  BY <1>1, SingleToken
<1>3. <<Slash>> \o <<x>> = <<Slash, x>> /\ <<>> \o <<x>> = <<x>>
  BY ShortSequences
<1> QED
  BY <1>1, <1>2, <1>3 DEF JoinedPath, Root

(* A path without double separators of no name or one is one of six. *)
LEMMA FewNames ==
  ASSUME NEW s \in Seq(Tokens), Alternates(s)
  PROVE  /\ NamesOf(s) = <<>> => s = IF IsAbsolute(s) THEN <<Slash>> ELSE <<>>
         /\ \A x \in Names : NamesOf(s) = <<x>> =>
              IF IsAbsolute(s) THEN s \in {<<Slash, x>>, <<Slash, x, Slash>>}
              ELSE s \in {<<x>>, <<x, Slash>>}
<1>1. PICK a \in BOOLEAN : a = IsAbsolute(s)
  BY DEF IsAbsolute
<1>2. s = IF EndsWithSeparator(s) /\ NamesOf(s) # <<>>
          THEN Append(JoinedPath(a, NamesOf(s)), Slash) ELSE JoinedPath(a, NamesOf(s))
  BY <1>1, PathIsJoined
<1>3. NamesOf(s) = <<>> => s = IF a THEN <<Slash>> ELSE <<>>
  <2>1. <<>> \in Seq(Names)
    OBVIOUS
  <2>2. JoinedPath(a, <<>>) = IF a THEN <<Slash>> ELSE <<>>
    BY <2>1, JoinedShape
  <2> QED
    BY <1>2, <2>2
<1>4. ASSUME NEW x \in Names, NamesOf(s) = <<x>>
      PROVE  IF a THEN s \in {<<Slash, x>>, <<Slash, x, Slash>>}
             ELSE s \in {<<x>>, <<x, Slash>>}
  <2>1. JoinedPath(a, <<x>>) = IF a THEN <<Slash, x>> ELSE <<x>>
    BY JoinOfOne
  <2>2. Append(<<Slash, x>>, Slash) = <<Slash, x, Slash>> /\ Append(<<x>>, Slash) = <<x, Slash>>
    BY ShortSequences
  <2>3. s \in {JoinedPath(a, <<x>>), Append(JoinedPath(a, <<x>>), Slash)}
    BY <1>2, <1>4
  <2> QED
    BY <2>1, <2>2, <2>3
<1> QED
  BY <1>1, <1>3, <1>4

(* What is expected of the paths that normalizePath() answers at once. *)
LEMMA ExpectedOfFew ==
  ASSUME \/ NamesOf(input) = <<>>
         \/ NamesOf(input) = <<Dot>>
         \/ NamesOf(input) = <<DotDot>> /\ removeDD
  PROVE  Expected = IF IsAbsolute(input) THEN <<Slash>> ELSE Null
<1>1. PICK h \in WalkStates : h = Origin /\ h.stack = <<>> /\ h.lost = FALSE
  <2>1. <<>> \in Seq(Names)
    OBVIOUS
  <2>2. Origin \in WalkStates /\ Origin.stack = <<>> /\ Origin.lost = FALSE
    BY <2>1 DEF WalkStates, Origin
  <2> QED
    BY <2>2
<1>2. <<>> \in Seq(Names) /\ \A x \in Names : <<x>> = Append(<<>>, x)
  OBVIOUS
<1>3. \A x \in Names : WalkedOver(<<x>>) = WalkOn(h, x)
  <2>1. \A x \in Names : WalkedOver(Append(<<>>, x)) = WalkOn(WalkedOver(<<>>), x)
    BY <1>2, WalkedOverStep
  <2> QED
    BY <1>1, <1>2, <2>1, WalkedOverStep
<1>4. PICK lo \in BOOLEAN : /\ WalkedOver(NamesOf(input)) = [stack |-> <<>>, lost |-> lo]
                            /\ IsAbsolute(input) => ~ lo
  <2>1. CASE NamesOf(input) = <<>>
    BY <2>1, WalkedOverStep DEF Origin
  <2>2. CASE NamesOf(input) = <<Dot>>
    <3>1. WalkedOver(<<Dot>>) = h
      BY <1>1, <1>3, TokenFacts, WalkOnIs
    <3> QED
      BY <1>1, <2>2, <3>1 DEF Origin
  <2>3. CASE NamesOf(input) = <<DotDot>> /\ removeDD
    <3>1. Floor \in Nat
      BY DEF Floor
    <3>2. Len(h.stack) = 0
      BY <1>1
    <3>3. WalkOn(h, DotDot) = [stack |-> h.stack, lost |-> ~ IsAbsolute(input)]
      BY <1>1, <2>3, <3>1, <3>2, TokenFacts, WalkOnIs
    <3>4. WalkedOver(<<DotDot>>) = [stack |-> <<>>, lost |-> ~ IsAbsolute(input)]
      BY <1>1, <1>3, <3>3, TokenFacts
    <3>5. (~ IsAbsolute(input)) \in BOOLEAN
      BY DEF IsAbsolute
    <3> QED
      BY <2>3, <3>4, <3>5
  <2> QED
    BY <2>1, <2>2, <2>3
<1>5. Expected =
        IF lo \/ ~ IsAbsolute(input) THEN Null ELSE JoinedPath(IsAbsolute(input), <<>>)
  BY <1>2, <1>4, ExpectedIs
<1>6. IsAbsolute(input) => JoinedPath(IsAbsolute(input), <<>>) = <<Slash>>
  <2>1. JoinedPath(TRUE, <<>>) = <<Slash>>
    BY <1>2, JoinedShape
  <2> QED
    BY <2>1
<1> QED
  BY <1>4, <1>5, <1>6

-----------------------------------------------------------------------------
(* The inductive invariant of normalizePath().                             *)

TheNames == NamesOf(input)
OnceOf == RemoveDupSeparator(input, TRUE)
Dotted(names) == \E k \in DOMAIN names : names[k] \in {Dot, DotDot}
JustDot == {<<Slash, Dot>>, <<Slash, Dot, Slash>>}

(* An absolute path whose first name starts with '~': see CannotRemove. *)
RootedTilde(p) ==
  IsAbsolute(p) /\ NamesOf(p) # <<>> /\ NamesOf(p)[1] \in TildeNames

NormType ==
  /\ input \in Inputs /\ keepEnd \in BOOLEAN /\ removeDD \in BOOLEAN
  /\ pc \in {"start", "loop", "ends", "nomemory", "done"}
  /\ path \in Seq(Tokens)

(* The path in the buffer is not longer than the path given, and absolute *)
(* when that is.                                                          *)
Shorter ==
  /\ Length(path) <= Length(input)
  /\ IsAbsolute(input) => IsAbsolute(path)

InPlace == removeDD => end <= NamesLength

StartInv == pc = "start" => path = input /\ ix = <<>> /\ i = 0 /\ end = 0

(* In the loop, with index array s and position n: the entries before n    *)
(* are what the walk has left, those from n on the names still to walk.    *)
LoopArray(s, n) ==
  /\ s \in Seq(Entries) /\ Len(s) = Len(TheNames)
  /\ n \in 1..(Len(s) + 1)
  /\ \A k \in 1..Len(s) : s[k] \in {TheNames[k], Gone}
  /\ \A k \in n..Len(s) : s[k] = TheNames[k]
LoopDots(s, n) ==
  /\ Dotted(TheNames)
  /\ \A k \in 1..(n - 1) : s[k] # Dot /\ (removeDD => s[k] # DotDot)
LoopWalk(s, n) ==
  /\ Floor = 1 /\ n > 1 => s[1] = TheNames[1]
  /\ \A u \in Seq(Names) : u = Upto(TheNames, n - 1) =>
       WalkedOver(u) = [stack |-> Left(s, n - 1), lost |-> FALSE]
LoopAt(s, n) == LoopArray(s, n) /\ LoopDots(s, n) /\ LoopWalk(s, n)
LoopInv == pc = "loop" => path = OnceOf /\ LoopAt(ix, i)

EndsPath ==
  IF path \in JustDot
  THEN IsAbsolute(input) /\ Expected = <<Slash>>
  ELSE /\ Dot \notin Range(path)
       /\ Expected = IF Unslashed(path) # <<>> THEN Unslashed(path) ELSE Null
EndsInv == pc = "ends" => i \notin 1..Len(ix) /\ EndsPath

Asked == removeDD \/ TheNames # <<DotDot>>
DoneInv == pc = "done" =>
  /\ result # Null => path = result
  /\ ~ RootedTilde(input) => /\ Asked => result = Expected
                             /\ IsAbsolute(input) => result # Null

NormInv ==
  /\ NormType /\ Shorter /\ InPlace
  /\ StartInv /\ LoopInv /\ EndsInv /\ DoneInv

(* The bytes of names are counted. *)
LEMMA NameLength ==
  ASSUME NEW n \in Seq(Names)
  PROVE  n \in Seq(Tokens) /\ Length(n) \in Nat
<1>1. Names \subseteq Tokens
  BY TokenFacts
<1> QED
  BY <1>1, SeqMonotonic, LengthStep

(* The path given, and the same with its double separators removed. *)
LEMMA GivenFacts ==
  ASSUME input \in Inputs
  PROVE  /\ input \in Seq(Tokens) /\ Apart(input)
         /\ TheNames \in Seq(Names)
         /\ OnceOf \in Seq(Tokens) /\ Alternates(OnceOf)
         /\ NamesOf(OnceOf) = TheNames
         /\ Length(OnceOf) <= Length(input)
         /\ EndsWithSeparator(OnceOf) <=> EndsWithSeparator(input)
         /\ IsAbsolute(OnceOf) <=> IsAbsolute(input)
         /\ OnceOf = <<>> <=> input = <<>>
         /\ Len(OnceOf) = 1 /\ OnceOf # <<Slash>> => input = OnceOf
<1>1. input \in Seq(Tokens) /\ Apart(input)
  BY TokensAssumption DEF Apart
<1> QED
  BY <1>1, OnceKeeps, NamesOfStep DEF TheNames, OnceOf

(* What depends on the arguments only stays as it is. *)
LEMMA Frozen ==
  ASSUME input \in Inputs, UNCHANGED <<input, keepEnd, removeDD>>
  PROVE  /\ TheNames' = TheNames /\ OnceOf' = OnceOf
         /\ Asked' = Asked
         /\ Expected' = Expected
         /\ Floor' = Floor
         /\ NamesLength' = NamesLength
         /\ \A s \in Seq(Names) : WalkedOver(s)' = WalkedOver(s)
<1>1. input \in Seq(Tokens)
  BY GivenFacts
<1>2. input' = input /\ keepEnd' = keepEnd /\ removeDD' = removeDD
  OBVIOUS
<1>3. Expected' = Expected
  BY <1>1, <1>2, ExpectedSame
<1>4. Floor' = Floor /\ \A s \in Seq(Names) : WalkedOver(s)' = WalkedOver(s)
  BY <1>2, WalkSame
<1>5. TheNames' = TheNames /\ OnceOf' = OnceOf
  BY <1>2 DEF TheNames, OnceOf
<1>6. Asked' = Asked
  BY <1>2, <1>5 DEF Asked
<1>7. NamesLength' = NamesLength
  BY <1>2 DEF NamesLength
<1> QED
  BY <1>3, <1>4, <1>5, <1>6, <1>7

(* The path given is a path, and its names have a length. *)
LEMMA GivenLength ==
  input \in Inputs =>
    /\ input \in Seq(Tokens) /\ Length(input) \in Nat
    /\ 0 <= NamesLength
<1> SUFFICES ASSUME input \in Inputs
             PROVE  /\ input \in Seq(Tokens) /\ Length(input) \in Nat
                    /\ 0 <= NamesLength
  OBVIOUS
<1>1. 0 <= Length(OnceOf) - Lead(OnceOf)
  <2>1. NamesOf(OnceOf) \in Seq(Names) /\ OnceOf \in Seq(Tokens) /\ Alternates(OnceOf)
    BY GivenFacts
  <2>2. PICK s \in Seq(Tokens), n \in Seq(Names) :
          s = OnceOf /\ n = NamesOf(s) /\ Alternates(s)
    BY <2>1
  <2>3. Len(n) \in Nat /\ Length(n) \in Nat
    BY <2>2, NameLength, LenProperties
  <2>4. Len(n) <= Len(NamesOf(s)) /\ Length(n) <= Length(NamesOf(s))
    BY <2>2, <2>3
  <2>5. 0 <= Length(s) - Lead(s)
    BY <2>2, <2>4, RoomForJoined
  <2> QED
    BY <2>2, <2>5
<1>2. NamesLength = Length(OnceOf) - Lead(OnceOf)
  BY GivenFacts DEF NamesLength, OnceOf, Lead
<1> QED
  BY <1>1, <1>2, GivenFacts, LengthStep

(* A call of normalizePath() establishes the invariant. *)
LEMMA CallInv ==
  ASSUME NEW p \in Inputs, NEW keep \in BOOLEAN, NEW remove \in BOOLEAN,
         Call(p, keep, remove)
  PROVE  NormInv'
<1> USE DEF Call
<1>1. input' \in Inputs /\ path' = input' /\ pc' = "start"
  OBVIOUS
<1>2. (input \in Inputs =>
         /\ input \in Seq(Tokens) /\ Length(input) \in Nat
         /\ 0 <= NamesLength)'
  BY GivenLength, PTL
<1>3. Shorter'
  <2>2. Length(path') = Length(input') /\ Length(input') \in Nat
    BY <1>1, <1>2
  <2>3. Length(path') <= Length(input')
    BY <2>2
  <2> QED
    BY <1>1, <2>3 DEF Shorter
<1>4. NormType'
  BY <1>1, <1>2 DEF NormType
<1>5. InPlace'
  BY <1>1, <1>2 DEF InPlace
<1>6. StartInv' /\ LoopInv' /\ EndsInv' /\ DoneInv'
  BY <1>1 DEF StartInv, LoopInv, EndsInv, DoneInv
<1> QED
  BY <1>3, <1>4, <1>5, <1>6 DEF NormInv

-----------------------------------------------------------------------------
(* The steps before the loop.                                              *)

ArgsStay == UNCHANGED <<input, keepEnd, removeDD>>

(* Steps that do not join names leave the end they wrote to alone. *)
LEMMA InPlaceStays ==
  ASSUME NormInv, ArgsStay, UNCHANGED end
  PROVE  InPlace'
<1>1. input \in Inputs /\ InPlace
  BY DEF NormInv, NormType
<1>2. NamesLength' = NamesLength
  BY <1>1, Frozen DEF ArgsStay
<1> QED
  BY <1>1, <1>2 DEF InPlace, ArgsStay

(* A step to another phase than the loop. *)
LEMMA LeavesLoop ==
  ASSUME NormInv, ArgsStay, pc' \in {"ends", "nomemory", "done"},
         path' \in Seq(Tokens),
         Length(path') <= Length(input),
         IsAbsolute(input) => IsAbsolute(path'),
         InPlace', EndsInv', DoneInv'
  PROVE  NormInv'
<1>1. NormType'
  BY DEF NormInv, NormType, ArgsStay
<1>2. Shorter'
  BY DEF Shorter, ArgsStay
<1>3. StartInv' /\ LoopInv'
  BY DEF StartInv, LoopInv
<1> QED
  BY <1>1, <1>2, <1>3 DEF NormInv

(* Before the first step the buffer is the path given, and the index array *)
(* is empty.                                                               *)
LEMMA AtStart ==
  ASSUME NormInv, pc = "start"
  PROVE  /\ input \in Inputs /\ path = input /\ Once = OnceOf
         /\ ix = <<>> /\ i = 0 /\ end = 0
BY DEF NormInv, NormType, StartInv, Once, OnceOf

(* The paths that are answered without looking at their names are answered *)
(* as expected.                                                            *)
LEMMA SpecialInv ==
  ASSUME NormInv, ReturnSpecial
  PROVE  NormInv'
<1>1. /\ input \in Inputs /\ path = input /\ Once = OnceOf
      /\ pc = "start"
  BY AtStart DEF ReturnSpecial
<1>2. ArgsStay /\ end' = end /\ pc' = "done"
  BY DEF ReturnSpecial, Return, argVars, ArgsStay
<1>3. PICK few \in {<<>>, <<Dot>>, <<DotDot>>} : TheNames = few
  <2>1. CASE path \in NullBefore
    <3>1. NamesOf(<<>>) = <<>> /\ \A x \in {Dot, DotDot} : NamesOf(<<x>>) = <<x>>
      BY NamesOfStep, OneName, TokenFacts
    <3> QED
      BY <1>1, <2>1, <3>1 DEF NullBefore, TheNames
  <2>2. CASE Once \in NullAfter \cup RootAfter
    <3>1. \A x \in {Dot, DotDot} : /\ NamesOf(<<x, Slash>>) = <<x>>
                                   /\ NamesOf(<<Slash, x>>) = <<x>>
                                   /\ NamesOf(<<Slash, x, Slash>>) = <<x>>
                                   /\ NamesOf(<<Slash>>) = <<>>
      BY OneName, TokenFacts
    <3>2. OnceOf \in {<<Dot, Slash>>, <<DotDot, Slash>>, <<Slash>>, <<Slash, DotDot>>,
          <<Slash, DotDot, Slash>>}
      BY <1>1, <2>2 DEF NullAfter, RootAfter, Root
    <3>3. NamesOf(OnceOf) \in {<<>>, <<Dot>>, <<DotDot>>}
      BY <3>1, <3>2
    <3> QED
      BY <1>1, <3>3, GivenFacts
  <2> QED
    BY <2>1, <2>2 DEF ReturnSpecial
<1>4. Asked => Expected = IF IsAbsolute(input) THEN <<Slash>> ELSE Null
  BY <1>3, ExpectedOfFew DEF Asked, TheNames
<1>5. \/ path' = input /\ result' = Null /\ ~ IsAbsolute(input)
      \/ path' = OnceOf /\ result' = Null /\ ~ IsAbsolute(input)
      \/ path' = <<Slash>> /\ result' = <<Slash>> /\ IsAbsolute(input)
  <2>1. CASE path \in NullBefore
    <3>1. ~ IsAbsolute(<<>>) /\ \A x \in {Dot, DotDot} : ~ IsAbsolute(<<x>>)
      BY OneName, TokenFacts DEF IsAbsolute
    <3>2. ~ IsAbsolute(input)
      BY <1>1, <2>1, <3>1 DEF NullBefore
    <3>3. Once \notin RootAfter
      <4>1. \A x \in {Dot, DotDot} :
            IsAbsolute(<<Slash, x>>) /\ IsAbsolute(<<Slash, x, Slash>>) /\ IsAbsolute(<<Slash>>)
        BY OneName, TokenFacts
      <4>2. Once \in RootAfter => IsAbsolute(Once)
        BY <4>1 DEF RootAfter, Root
      <4> QED
        BY <1>1, <3>2, <4>2, GivenFacts
    <3>4. path' = path /\ result' = Null
      BY <2>1, <3>3 DEF ReturnSpecial, Return
    <3> QED
      BY <1>1, <3>2, <3>4
  <2>2. CASE Once \in NullAfter /\ Return(Once, Null)
    <3>1. \A x \in {Dot, DotDot} : ~ IsAbsolute(<<x, Slash>>)
      BY OneName, TokenFacts
    <3>2. ~ IsAbsolute(Once)
      BY <2>2, <3>1 DEF NullAfter
    <3> QED
      BY <1>1, <2>2, <3>2, GivenFacts DEF Return
  <2>3. CASE Once \in RootAfter /\ Return(Root, Root)
    <3>1. \A x \in {Dot, DotDot} :
          IsAbsolute(<<Slash, x>>) /\ IsAbsolute(<<Slash, x, Slash>>) /\ IsAbsolute(<<Slash>>)
      BY OneName, TokenFacts
    <3>2. IsAbsolute(Once)
      BY <2>3, <3>1 DEF RootAfter, Root
    <3> QED
      BY <1>1, <2>3, <3>2, GivenFacts DEF Return, Root
  <2> QED
    BY <2>1, <2>2, <2>3 DEF ReturnSpecial
<1>6. Asked' = Asked /\ Expected' = Expected
  BY <1>1, <1>2, Frozen DEF ArgsStay
<1>7. EndsInv' /\ DoneInv'
  <2>1. EndsInv'
    BY <1>2 DEF EndsInv
  <2>2. result' # Null => path' = result'
    BY <1>5
  <2>3. Asked => result' = Expected
    BY <1>4, <1>5
  <2>4. IsAbsolute(input) => result' # Null
    <3>1. <<Slash>> # Null
      BY TokenFacts, OneName
    <3> QED
      BY <1>5, <3>1
  <2> QED
    BY <1>2, <1>6, <2>1, <2>2, <2>3, <2>4 DEF DoneInv, ArgsStay
<1>8. /\ path' \in Seq(Tokens)
      /\ Length(path') <= Length(input)
      /\ IsAbsolute(input) => IsAbsolute(path')
  <2>1. CASE path' = <<Slash>>
    <3>1. <<Slash>> \in Seq(Tokens) /\ IsAbsolute(<<Slash>>)
      BY OneName, TokenFacts
    <3>2. Length(<<Slash>>) = 1
      <4>1. <<Slash>> = Append(<<>>, Slash) /\ <<>> \in Seq(Tokens)
        OBVIOUS
      <4>2. Length(Append(<<>>, Slash)) = Length(<<>>) + Bytes[Slash]
        BY <4>1, LengthStep, TokenFacts
      <4> QED
        BY <4>1, <4>2, LengthStep, TokenFacts
    <3>3. IsAbsolute(input) => 1 <= Length(input)
      <4>1. IsAbsolute(input) => input # <<>> /\ input[1] = Slash
        BY DEF IsAbsolute
      <4>2. input # <<>> => Bytes[input[1]] <= Length(input)
        BY <1>1, GivenFacts, FirstLength
      <4> QED
        BY <4>1, <4>2, TokenFacts
    <3> QED
      BY <1>1, <1>5, <2>1, <3>1, <3>2, <3>3, GivenFacts
  <2>2. CASE path' # <<Slash>>
    <3>1. Length(input) \in Nat
      BY <1>1, GivenLength
    <3>2. path' = input \/ path' = OnceOf
      BY <1>5, <2>2
    <3> QED
      BY <1>1, <3>1, <3>2, GivenFacts
  <2> QED
    BY <2>1, <2>2
<1> QED
  BY <1>2, <1>7, <1>8, InPlaceStays, LeavesLoop

(* Unslashed(), of a path p before or after a step. *)
Trimmed(p) ==
  IF (~ EndsWithSeparator(input) \/ ~ keepEnd) /\ p # <<Slash>> /\ EndsWithSeparator(p)
  THEN DropEnd(p) ELSE p

(* The path p is what is expected but for its ends. *)
IsExpected(p) ==
  IF p \in JustDot THEN IsAbsolute(input) /\ Expected = <<Slash>>
  ELSE /\ Dot \notin Range(p)
       /\ Expected = IF Trimmed(p) # <<>> THEN Trimmed(p) ELSE Null

(* A step to the ends keeps the invariant when the path it leaves is       *)
(* expected there.                                                         *)
LEMMA ToEnds ==
  ASSUME NormInv, ArgsStay, pc' = "ends", i' \notin 1..Len(ix'), InPlace',
         NEW p \in Seq(Tokens), path' = p,
         Length(p) <= Length(input),
         IsAbsolute(input) => IsAbsolute(p),
         IsExpected(p)
  PROVE  NormInv'
<1>1. input \in Inputs
  BY DEF NormInv, NormType
<1>2. Expected' = Expected
  BY <1>1, Frozen DEF ArgsStay
<1>3. Unslashed(path)' = Trimmed(p)
  BY DEF Unslashed, Trimmed, Root, ArgsStay
<1>4. EndsPath'
  BY <1>2, <1>3 DEF EndsPath, IsExpected, ArgsStay
<1>5. EndsInv' /\ DoneInv'
  BY <1>4 DEF EndsInv, DoneInv
<1> QED
  BY <1>5, LeavesLoop

(* The names the walk ends with, joined, are what is expected. *)
LEMMA JoinedIsExpected ==
  ASSUME input \in Inputs, keepEnd \in BOOLEAN,
         NEW st \in Seq(Names \ {Dot}),
         WalkedOver(TheNames) = [stack |-> st, lost |-> FALSE],
         NEW j, j = JoinedPath(IsAbsolute(input), st),
         NEW p \in {j, Append(j, Slash)},
         st = <<>> => p = j,
         st # <<>> /\ keepEnd /\ EndsWithSeparator(input) => p = Append(j, Slash)
  PROVE  /\ IsExpected(p) /\ p \in Seq(Tokens)
         /\ IsAbsolute(input) => IsAbsolute(p)
<1>1. st \in Seq(Names)
  <2>1. Names \ {Dot} \subseteq Names
    OBVIOUS
  <2> QED
    BY <2>1, SeqMonotonic
<1>2. PICK a \in BOOLEAN : a = IsAbsolute(input)
  BY DEF IsAbsolute
<1>3. /\ j \in Seq(Tokens) /\ NamesOf(j) = st
      /\ IsAbsolute(j) <=> a
      /\ st # <<>> => j # <<>> /\ ~ EndsWithSeparator(j)
      /\ st = <<>> => j = IF a THEN <<Slash>> ELSE <<>>
  BY <1>1, <1>2, JoinedShape
<1>4. /\ Append(j, Slash) \in Seq(Tokens) /\ Append(j, Slash) # <<>>
      /\ NamesOf(Append(j, Slash)) = st
      /\ DropEnd(Append(j, Slash)) = j /\ EndsWithSeparator(Append(j, Slash))
      /\ j # <<>> => (IsAbsolute(Append(j, Slash)) <=> IsAbsolute(j))
  <2>1. NamesOf(Append(j, Slash)) = st
    BY <1>3, NamesOfStep, TokenFacts
  <2>2. Append(j, Slash) # <<>>
    BY <1>3, AppendProperties, TokenFacts
  <2> QED
    BY <1>3, <2>1, <2>2, WithSeparator
<1>5. p \in Seq(Tokens) /\ NamesOf(p) = st
  BY <1>3, <1>4
<1>6. IsAbsolute(input) => IsAbsolute(p)
  BY <1>2, <1>3, <1>4
<1>7. Dot \notin Range(p)
  BY <1>5, FreeOfDot
<1>8. p \notin JustDot
  <2>1. Dot \in Range(<<Slash, Dot>>) /\ Dot \in Range(<<Slash, Dot, Slash>>)
    <3>1. 2 \in DOMAIN <<Slash, Dot>> /\ <<Slash, Dot>>[2] = Dot
      OBVIOUS
    <3>2. 2 \in DOMAIN <<Slash, Dot, Slash>> /\ <<Slash, Dot, Slash>>[2] = Dot
      OBVIOUS
    <3> QED
      BY <3>1, <3>2 DEF Range
  <2> QED
    BY <1>7, <2>1 DEF JustDot
<1>9. Expected =
        IF st = <<>> /\ ~ a THEN Null
        ELSE IF keepEnd /\ EndsWithSeparator(input) /\ st # <<>>
             THEN Append(j, Slash) ELSE j
  <2>1. WalkedOver(NamesOf(input)) = [stack |-> st, lost |-> FALSE]
    BY DEF TheNames
  <2> QED
    BY <1>1, <1>2, <2>1, ExpectedIs
<1>10. Expected = IF Trimmed(p) # <<>> THEN Trimmed(p) ELSE Null
  <2>1. CASE st = <<>>
    <3>1. p = j /\ j = IF a THEN <<Slash>> ELSE <<>>
      BY <1>3, <2>1
    <3>2. Trimmed(p) = p
      BY <3>1 DEF Trimmed, EndsWithSeparator
    <3> QED
      BY <1>9, <2>1, <3>1, <3>2
  <2>2. CASE st # <<>> /\ keepEnd /\ EndsWithSeparator(input)
    <3>1. p = Append(j, Slash) /\ Trimmed(p) = p
      BY <2>2 DEF Trimmed
    <3> QED
      BY <1>4, <1>9, <2>2, <3>1
  <2>3. CASE st # <<>> /\ ~ (keepEnd /\ EndsWithSeparator(input))
    <3>1. Trimmed(j) = j
      BY <1>3, <2>3 DEF Trimmed
    <3>2. Append(j, Slash) # <<Slash>>
      BY <1>4, <2>3, OneName, TokenFacts
    <3>3. Trimmed(Append(j, Slash)) = j
      BY <1>4, <2>3, <3>2 DEF Trimmed
    <3> QED
      BY <1>3, <1>9, <2>3, <3>1, <3>3
  <2> QED
    BY <2>1, <2>2, <2>3
<1> QED
  BY <1>5, <1>6, <1>7, <1>8, <1>10 DEF IsExpected

(* A path without "." and "..", or of one name, is expected as it is, but  *)
(* for the ends.                                                           *)
LEMMA NothingInv ==
  ASSUME NormInv, NothingToCollapse
  PROVE  NormInv'
<1>1. /\ input \in Inputs /\ keepEnd \in BOOLEAN /\ path = input /\ Once = OnceOf
      /\ ix = <<>> /\ i = 0
  BY AtStart DEF NothingToCollapse, NormInv, NormType
<1>2. /\ ArgsStay /\ end' = end /\ pc' = "ends" /\ path' = OnceOf /\ ix' = ix /\ i' = i
  BY <1>1 DEF NothingToCollapse, argVars, ArgsStay
<1>3. /\ path \notin NullBefore /\ OnceOf \notin NullAfter /\ OnceOf \notin RootAfter
      /\ IF Dotted(TheNames) THEN Len(TheNames) < 2 ELSE TRUE
  <2>1. Collapsible(OnceOf) = IF Dotted(TheNames) THEN Len(TheNames) ELSE 0
    BY <1>1, GivenFacts DEF Collapsible, Dotted
  <2> QED
    BY <1>1, <2>1 DEF NothingToCollapse, Special
<1>4. /\ OnceOf \in Seq(Tokens) /\ Alternates(OnceOf) /\ NamesOf(OnceOf) = TheNames
      /\ TheNames \in Seq(Names)
      /\ Length(OnceOf) <= Length(input)
      /\ IsAbsolute(input) <=> IsAbsolute(OnceOf)
      /\ EndsWithSeparator(input) <=> EndsWithSeparator(OnceOf)
  BY <1>1, GivenFacts
<1>5. i' \notin 1..Len(ix')
  BY <1>1, <1>2
<1>6. CASE Dotted(TheNames)
  <2>1. PICK x \in {Dot, DotDot} : TheNames = <<x>>
    <3>1. PICK n \in Seq(Names) : n = TheNames
      BY <1>4
    <3>2. Len(n) \in Nat /\ Len(n) < 2 /\ DOMAIN n = 1..Len(n) /\ \E k \in DOMAIN n : n[k] \in {Dot, DotDot}
      BY <1>3, <1>6, <3>1, LenProperties DEF Dotted
    <3>3. Len(n) = 1 /\ n[1] \in {Dot, DotDot}
      BY <3>2
    <3>4. n = <<n[1]>>
      BY <3>3, SingleToken
    <3> QED
      BY <3>1, <3>3, <3>4
  <2>2. x \in Names
    BY TokenFacts
  <2>3. IF IsAbsolute(OnceOf) THEN OnceOf \in {<<Slash, x>>, <<Slash, x, Slash>>}
        ELSE OnceOf \in {<<x>>, <<x, Slash>>}
    BY <1>4, <2>1, <2>2, FewNames
  <2>4. OnceOf # <<x>>
    <3>1. Len(<<x>>) = 1 /\ <<x>> # <<Slash>>
      BY <2>2, TokenFacts
    <3>2. OnceOf = <<x>> => input = <<x>>
      BY <1>1, <3>1, GivenFacts
    <3>3. input \notin {<<Dot>>, <<DotDot>>}
      BY <1>1, <1>3 DEF NullBefore
    <3> QED
      BY <3>2, <3>3
  <2>5. OnceOf \notin {<<Dot, Slash>>, <<DotDot, Slash>>, <<Slash, DotDot>>, <<Slash, DotDot, Slash>>}
    BY <1>3 DEF NullAfter, RootAfter
  <2>6. IsAbsolute(OnceOf) /\ x = Dot /\ OnceOf \in JustDot
    BY <2>3, <2>4, <2>5 DEF JustDot
  <2>7. Expected = <<Slash>>
    BY <1>4, <2>1, <2>6, ExpectedOfFew DEF TheNames
  <2>8. IsExpected(OnceOf)
    BY <1>4, <2>6, <2>7 DEF IsExpected
  <2> QED
    BY <1>2, <1>4, <1>5, <2>8, InPlaceStays, ToEnds
<1>7. CASE ~ Dotted(TheNames)
  <2>1. TheNames \in Seq(Names \ {Dot, DotDot})
    <3>1. PICK n \in Seq(Names) : n = TheNames
      BY <1>4
    <3>2. \A k \in 1..Len(n) : n[k] \in Names \ {Dot, DotDot}
      BY <1>7, <3>1, LenProperties, ElementOfSeq DEF Dotted
    <3>3. Len(n) \in Nat /\ n \in [1..Len(n) -> Names \ {Dot, DotDot}]
      BY <3>2, LenProperties
    <3> QED
      BY <3>1, <3>3
  <2>2. WalkedOver(TheNames) = [stack |-> TheNames, lost |-> FALSE]
    BY <2>1, WalkPlain
  <2>3. TheNames \in Seq(Names \ {Dot})
    <3>1. Names \ {Dot, DotDot} \subseteq Names \ {Dot}
      OBVIOUS
    <3> QED
      BY <2>1, <3>1, SeqMonotonic
  <2>4. TheNames # <<>>
    <3>1. TheNames = <<>> => OnceOf = <<>> \/ OnceOf = <<Slash>>
      BY <1>4, FewNames
    <3>2. OnceOf # <<>> /\ OnceOf # <<Slash>>
      BY <1>1, <1>3, GivenFacts DEF NullBefore, RootAfter, Root
    <3> QED
      BY <3>1, <3>2
  <2>5. PICK j : j = JoinedPath(IsAbsolute(input), TheNames)
    OBVIOUS
  <2>6. OnceOf = IF EndsWithSeparator(input) THEN Append(j, Slash) ELSE j
    <3>1. JoinedPath(IsAbsolute(OnceOf), TheNames) = j
      <4>1. PICK a \in BOOLEAN, b \in BOOLEAN : a = IsAbsolute(OnceOf) /\ b = IsAbsolute(input)
        BY DEF IsAbsolute
      <4> QED
        BY <1>4, <2>5, <4>1
    <3> QED
      BY <1>4, <2>4, <3>1, PathIsJoined
  <2>7. IsExpected(OnceOf)
    BY <1>1, <2>2, <2>3, <2>4, <2>5, <2>6, JoinedIsExpected
  <2> QED
    BY <1>2, <1>4, <1>5, <2>7, InPlaceStays, ToEnds
<1> QED
  BY <1>6, <1>7

(* When malloc() fails the buffer holds the path without its double        *)
(* separators.                                                             *)
LEMMA MallocInv ==
  ASSUME NormInv, MallocFails
  PROVE  NormInv'
<1>1. input \in Inputs /\ Once = OnceOf
  BY AtStart DEF MallocFails
<1>2. ArgsStay /\ end' = end /\ pc' = "nomemory" /\ path' = OnceOf
  BY <1>1 DEF MallocFails, argVars, ArgsStay
<1>3. /\ OnceOf \in Seq(Tokens)
      /\ Length(OnceOf) <= Length(input)
      /\ IsAbsolute(input) => IsAbsolute(OnceOf)
  BY <1>1, GivenFacts
<1>4. EndsInv' /\ DoneInv'
  BY <1>2 DEF EndsInv, DoneInv
<1> QED
  BY <1>2, <1>3, <1>4, InPlaceStays, LeavesLoop

(* A step to the loop, or in it. *)
LEMMA ToLoop ==
  ASSUME NormInv, ArgsStay, end' = end, pc' = "loop", path' = OnceOf,
         NEW s, NEW n, ix' = s, i' = n, LoopAt(s, n)
  PROVE  NormInv'
<1>1. input \in Inputs
  BY DEF NormInv, NormType
<1>2. /\ OnceOf \in Seq(Tokens)
      /\ Length(OnceOf) <= Length(input)
      /\ IsAbsolute(input) => IsAbsolute(OnceOf)
  BY <1>1, GivenFacts
<1>3. /\ TheNames' = TheNames /\ OnceOf' = OnceOf /\ Floor' = Floor
      /\ \A w \in Seq(Names) : WalkedOver(w)' = WalkedOver(w)
      /\ removeDD' = removeDD
  BY <1>1, Frozen DEF ArgsStay
<1>4. LoopArray(ix, i)'
  BY <1>3 DEF LoopAt, LoopArray
<1>5. LoopDots(ix, i)'
  BY <1>3 DEF LoopAt, LoopDots
<1>6. LoopWalk(ix, i)'
  BY <1>3 DEF LoopAt, LoopWalk
<1>7. LoopInv'
  BY <1>3, <1>4, <1>5, <1>6 DEF LoopInv, LoopAt
<1>8. NormType' /\ Shorter'
  BY <1>2 DEF NormInv, NormType, Shorter, ArgsStay
<1>9. StartInv' /\ EndsInv' /\ DoneInv'
  BY DEF StartInv, EndsInv, DoneInv
<1> QED
  BY <1>7, <1>8, <1>9, InPlaceStays DEF NormInv

(* The loop starts with the names of the path, none of them walked. *)
LEMMA SplitInv ==
  ASSUME NormInv, Split
  PROVE  NormInv'
<1>1. input \in Inputs /\ Once = OnceOf
  BY AtStart DEF Split
<1>2. TheNames \in Seq(Names) /\ NamesOf(OnceOf) = TheNames
  BY <1>1, GivenFacts
<1>3. /\ ArgsStay /\ end' = end /\ pc' = "loop" /\ path' = OnceOf
      /\ ix' = TheNames /\ i' = 1
  BY <1>1, <1>2 DEF Split, argVars, ArgsStay
<1>4. Dotted(TheNames)
  BY <1>1, <1>2 DEF Split, Collapsible, Dotted
<1>5. PICK s \in Seq(Names) : s = TheNames /\ s \in Seq(Entries) /\ Len(s) \in Nat
  <2>1. Names \subseteq Entries
    BY DEF Entries
  <2> QED
    BY <1>2, <2>1, SeqMonotonic, LenProperties
<1>6. LoopArray(s, 1)
  BY <1>5 DEF LoopArray
<1>7. LoopDots(s, 1)
  BY <1>4 DEF LoopDots
<1>8. LoopWalk(s, 1)
  <2>1. Upto(TheNames, 0) = <<>> /\ Left(s, 0) = <<>>
    BY <1>5, UptoStep, LeftStep
  <2>2. WalkedOver(<<>>) = [stack |-> <<>>, lost |-> FALSE]
    BY WalkedOverStep DEF Origin
  <2>3. 1 - 1 = 0
    OBVIOUS
  <2> QED
    BY <2>1, <2>2, <2>3 DEF LoopWalk
<1> QED
  BY <1>3, <1>5, <1>6, <1>7, <1>8, ToLoop DEF LoopAt

-----------------------------------------------------------------------------
(* The loop over the names.                                                *)

(* What is known when name i is looked at. *)
LEMMA InLoop ==
  ASSUME NormInv, AtName
  PROVE  /\ input \in Inputs /\ path = OnceOf /\ pc = "loop" /\ LoopAt(ix, i)
         /\ i \in 1..Len(ix) /\ i - 1 \in 0..Len(ix) /\ Len(ix) \in Nat
         /\ TheNames \in Seq(Names) /\ ix \in Seq(Entries)
         /\ IsAbsolute(path) <=> IsAbsolute(input)
         /\ ix[i] = TheNames[i] /\ ix[i] \in Names
         /\ Left(ix, i - 1) \in Seq(Names)
         /\ Upto(TheNames, i - 1) \in Seq(Names)
         /\ Upto(TheNames, i) = Append(Upto(TheNames, i - 1), ix[i])
         /\ WalkedOver(Upto(TheNames, i - 1)) = [stack |-> Left(ix, i - 1), lost |-> FALSE]
<1>1. input \in Inputs /\ path = OnceOf /\ pc = "loop" /\ LoopAt(ix, i)
  BY DEF NormInv, NormType, LoopInv, AtName
<1>2. TheNames \in Seq(Names) /\ (IsAbsolute(path) <=> IsAbsolute(input))
  BY <1>1, GivenFacts
<1>3. /\ ix \in Seq(Entries) /\ Len(ix) = Len(TheNames)
      /\ i \in 1..(Len(ix) + 1) /\ \A k \in i..Len(ix) : ix[k] = TheNames[k]
  BY <1>1 DEF LoopAt, LoopArray
<1>4. PICK a \in Nat : a = Len(ix) /\ a = Len(TheNames)
  BY <1>3, LenProperties
<1>5. i \in 1..a /\ i - 1 \in 0..a /\ i \in i..a
  BY <1>3, <1>4 DEF AtName
<1>6. ix[i] = TheNames[i]
  BY <1>3, <1>4, <1>5
<1>7. /\ TheNames[i] \in Names
      /\ Upto(TheNames, i) = Append(Upto(TheNames, i - 1), TheNames[i])
      /\ Upto(TheNames, i - 1) \in Seq(Names)
  BY <1>2, <1>4, <1>5, UptoStep
<1>8. Left(ix, i - 1) \in Seq(Names)
  BY <1>3, <1>4, <1>5, LeftStep
<1>9. WalkedOver(Upto(TheNames, i - 1)) = [stack |-> Left(ix, i - 1), lost |-> FALSE]
  BY <1>1, <1>7 DEF LoopAt, LoopWalk
<1> QED
  BY <1>1, <1>2, <1>3, <1>4, <1>5, <1>6, <1>7, <1>8, <1>9

(* The walk takes name i. *)
TakesName == WalkOn([stack |-> Left(ix, i - 1), lost |-> FALSE], ix[i])

(* A step of the loop that clears entries up to i as the walk does. *)
LEMMA AdvanceInv ==
  ASSUME NormInv, AtName, NEW s \in Seq(Entries), Advance(s),
         Len(s) = Len(ix),
         \A k \in 1..Len(ix) : s[k] \in {ix[k], Gone},
         \A k \in (i + 1)..Len(ix) : s[k] = ix[k],
         s[i] # Dot, removeDD => s[i] # DotDot,
         Floor = 1 => s[1] = TheNames[1],
         TakesName = [stack |-> Left(s, i), lost |-> FALSE]
  PROVE  NormInv'
<1>1. /\ input \in Inputs /\ path = OnceOf /\ pc = "loop" /\ LoopAt(ix, i)
      /\ i \in 1..Len(ix) /\ Len(ix) \in Nat
      /\ TheNames \in Seq(Names)
      /\ ix[i] = TheNames[i] /\ ix[i] \in Names
      /\ Upto(TheNames, i - 1) \in Seq(Names)
      /\ Upto(TheNames, i) = Append(Upto(TheNames, i - 1), ix[i])
      /\ WalkedOver(Upto(TheNames, i - 1)) = [stack |-> Left(ix, i - 1), lost |-> FALSE]
  BY InLoop
<1>2. PICK n \in Nat, a \in Nat : n = i + 1 /\ a = Len(ix) /\ i \in 1..a /\ i = n - 1
  BY SMTT(30), <1>1
<1>3. LoopArray(s, n)
  <2>1. /\ Len(ix) = Len(TheNames)
        /\ \A k \in 1..a : ix[k] \in {TheNames[k], Gone}
        /\ \A k \in i..a : ix[k] = TheNames[k]
    BY <1>1, <1>2 DEF LoopAt, LoopArray
  <2>2. \A k \in 1..a : s[k] \in {TheNames[k], Gone}
    BY <1>2, <2>1
  <2>3. \A k \in n..a : s[k] = TheNames[k]
    BY <1>2, <2>1
  <2>4. n \in 1..(a + 1)
    BY <1>2
  <2> QED
    BY <1>2, <2>1, <2>2, <2>3, <2>4 DEF LoopArray
<1>4. LoopDots(s, n)
  <2>1. Dotted(TheNames) /\ \A k \in 1..(i - 1) : ix[k] # Dot /\ (removeDD => ix[k] # DotDot)
    BY <1>1 DEF LoopAt, LoopDots
  <2>2. Gone # Dot /\ Gone # DotDot
    BY TokenFacts
  <2>3. ASSUME NEW k \in 1..(n - 1)
        PROVE  s[k] # Dot /\ (removeDD => s[k] # DotDot)
    <3>1. CASE k = i
      BY <3>1
    <3>2. CASE k # i
      <4>1. k \in 1..(i - 1) /\ k \in 1..a
        BY <1>2, <3>2
      <4> QED
        BY <1>2, <2>1, <2>2, <4>1
    <3> QED
      BY <3>1, <3>2
  <2> QED
    BY <2>1, <2>3 DEF LoopDots
<1>5. LoopWalk(s, n)
  <2>1. WalkedOver(Upto(TheNames, i)) = TakesName
    <3>1. PICK u \in Seq(Names), t \in Names : u = Upto(TheNames, i - 1) /\ t = ix[i]
      BY <1>1
    <3>2. WalkedOver(Append(u, t)) = WalkOn(WalkedOver(u), t)
      BY WalkedOverStep
    <3> QED
      BY <1>1, <3>1, <3>2 DEF TakesName
  <2>2. WalkedOver(Upto(TheNames, i)) = [stack |-> Left(s, i), lost |-> FALSE]
    BY <2>1
  <2> QED
    BY <1>2, <2>2 DEF LoopWalk
<1>6. ArgsStay /\ end' = end /\ pc' = "loop" /\ path' = OnceOf /\ ix' = s /\ i' = n
  BY <1>1, <1>2 DEF Advance, argVars, ArgsStay
<1> QED
  BY <1>3, <1>4, <1>5, <1>6, ToLoop DEF LoopAt

(* The walk from a state that is not lost. *)
LEMMA TakesNameIs ==
  ASSUME NEW h \in Seq(Names), NEW t \in Names
  PROVE  WalkOn([stack |-> h, lost |-> FALSE], t) =
           IF t = Dot THEN [stack |-> h, lost |-> FALSE]
           ELSE IF t # DotDot \/ ~ removeDD
           THEN [stack |-> Append(h, t), lost |-> FALSE]
           ELSE IF Len(h) > Floor
           THEN [stack |-> DropEnd(h), lost |-> FALSE]
           ELSE [stack |-> h, lost |-> ~ IsAbsolute(input)]
<1>1. PICK w \in WalkStates : w = [stack |-> h, lost |-> FALSE] /\ w.stack = h /\ w.lost = FALSE
  <2>1. [stack |-> h, lost |-> FALSE] \in WalkStates
    BY DEF WalkStates
  <2>2. /\ [stack |-> h, lost |-> FALSE].stack = h
        /\ [stack |-> h, lost |-> FALSE].lost = FALSE
    OBVIOUS
  <2> QED
    BY <2>1, <2>2
<1> QED
  BY <1>1, WalkOnIs

(* Where the first name cannot be left it starts with '~'. *)
LEMMA FloorIs ==
  /\ Floor \in {0, 1}
  /\ Floor = 1 <=> /\ ~ IsAbsolute(input) /\ TheNames # <<>>
                        /\ TheNames[1] \in TildeNames
BY DEF Floor, TheNames

(* A name that is left is a name the walk goes down. *)
LEMMA SkipInv ==
  ASSUME NormInv, SkipName
  PROVE  NormInv'
<1>1. AtName
  BY DEF SkipName
<1>2. /\ LoopAt(ix, i) /\ i \in 1..Len(ix) /\ Len(ix) \in Nat
      /\ ix \in Seq(Entries) /\ ix[i] = TheNames[i] /\ ix[i] \in Names
      /\ Left(ix, i - 1) \in Seq(Names)
  BY <1>1, InLoop
<1>3. TakesName = [stack |-> Append(Left(ix, i - 1), ix[i]), lost |-> FALSE]
  BY <1>2, TakesNameIs DEF TakesName, SkipName
<1>4. Left(ix, i) = Append(Left(ix, i - 1), ix[i])
  <2>1. ix[i] # Gone
    BY <1>2, TokenFacts
  <2> QED
    BY <1>2, <2>1, LeftStep
<1>5. Floor = 1 => ix[1] = TheNames[1]
  <2>1. CASE i = 1
    BY <1>2, <2>1
  <2>2. CASE i > 1
    BY <1>2, <2>2 DEF LoopAt, LoopWalk
  <2> QED
    BY <1>2, <2>1, <2>2
<1>6. /\ \A k \in 1..Len(ix) : ix[k] \in {ix[k], Gone}
      /\ \A k \in (i + 1)..Len(ix) : ix[k] = ix[k]
      /\ ix[i] # Dot /\ (removeDD => ix[i] # DotDot) /\ Advance(ix)
  BY DEF SkipName
<1> QED
  BY <1>1, <1>2, <1>3, <1>4, <1>5, <1>6, AdvanceInv

(* Clearing entry i leaves what was left before it. *)
LEMMA ClearLeft ==
  ASSUME NormInv, AtName
  PROVE  LET s == [ix EXCEPT ![i] = Gone]
         IN  /\ s \in Seq(Entries) /\ Len(s) = Len(ix)
             /\ \A k \in 1..Len(ix) : s[k] = IF k = i THEN Gone ELSE ix[k]
             /\ Left(s, i) = Left(ix, i - 1)
<1>1. i \in 1..Len(ix) /\ Len(ix) \in Nat /\ ix \in Seq(Entries)
  BY SMTT(30), InLoop
<1>2. PICK s \in Seq(Entries), a \in Nat :
        /\ s = [ix EXCEPT ![i] = Gone] /\ a = Len(ix) /\ Len(s) = a
        /\ \A k \in 1..a : s[k] = IF k = i THEN Gone ELSE ix[k]
  <2>1. Gone \in Entries
    BY DEF Entries
  <2>2. /\ [ix EXCEPT ![i] = Gone] \in Seq(Entries)
        /\ Len([ix EXCEPT ![i] = Gone]) = Len(ix)
        /\ \A m \in 1..Len(ix) : [ix EXCEPT ![i] = Gone][m] = IF m = i THEN Gone ELSE ix[m]
    BY <1>1, <2>1, ExceptSeq
  <2> QED
    BY <1>1, <2>2
<1>3. i \in 1..a /\ s[i] = Gone
  BY <1>1, <1>2
<1>4. Left(s, i) = Left(ix, i - 1)
  <2>1. Left(s, i) = Left(s, i - 1)
    BY <1>2, <1>3, LeftStep
  <2>2. \A k \in 1..(i - 1) : s[k] = ix[k]
    BY <1>2, <1>3
  <2>3. i - 1 \in Int
    BY <1>3
  <2>4. Upto(s, i - 1) = Upto(ix, i - 1)
    BY <2>2, <2>3, UptoAlike
  <2> QED
    BY <2>1, <2>4 DEF Left
<1> QED
  BY <1>2, <1>4

(* Entry i is cleared, and the walk stays. *)
LEMMA ClearInv ==
  ASSUME NormInv, AtName, Advance([ix EXCEPT ![i] = Gone]),
         ix[i] \in {Dot, DotDot},
         TakesName = [stack |-> Left(ix, i - 1), lost |-> FALSE]
  PROVE  NormInv'
<1>1. /\ LoopAt(ix, i) /\ i \in 1..Len(ix) /\ Len(ix) \in Nat
      /\ ix \in Seq(Entries) /\ ix[i] = TheNames[i]
  BY InLoop
<1>2. PICK s \in Seq(Entries), a \in Nat :
        /\ s = [ix EXCEPT ![i] = Gone] /\ a = Len(ix) /\ Len(s) = a
        /\ \A k \in 1..a : s[k] = IF k = i THEN Gone ELSE ix[k]
        /\ Left(s, i) = Left(ix, i - 1)
  BY <1>1, ClearLeft
<1>3. i \in 1..a /\ s[i] = Gone /\ Gone # Dot /\ Gone # DotDot
  BY <1>1, <1>2, TokenFacts
<1>4. Floor = 1 => s[1] = TheNames[1]
  <2> SUFFICES ASSUME Floor = 1
               PROVE  s[1] = TheNames[1]
    OBVIOUS
  <2>1. TheNames[1] \in TildeNames
    BY FloorIs
  <2>2. i # 1
    BY <1>1, <2>1, TokenFacts
  <2>3. ix[1] = TheNames[1]
    BY <1>1, <1>3, <2>2 DEF LoopAt, LoopWalk
  <2> QED
    BY <1>2, <1>3, <2>2, <2>3
<1>5. \A k \in (i + 1)..a : s[k] = ix[k]
  BY <1>2, <1>3
<1> QED
  BY <1>2, <1>3, <1>4, <1>5, AdvanceInv

(* A "." that is cleared is a name at which the walk stays. *)
LEMMA RemoveDotInv ==
  ASSUME NormInv, RemoveDot
  PROVE  NormInv'
<1>1. AtName /\ ix[i] = Dot /\ Advance([ix EXCEPT ![i] = Gone])
  BY DEF RemoveDot
<1>2. Left(ix, i - 1) \in Seq(Names) /\ ix[i] \in Names
  BY <1>1, InLoop
<1>3. TakesName = [stack |-> Left(ix, i - 1), lost |-> FALSE]
  BY <1>1, <1>2, TakesNameIs DEF TakesName
<1> QED
  BY <1>1, <1>3, ClearInv

(* At the root the walk stays at a "..", which is cleared. *)
LEMMA AtRootInv ==
  ASSUME NormInv, DoubleDotAtRoot
  PROVE  NormInv'
<1>1. /\ AtName /\ ix[i] = DotDot /\ removeDD /\ Above = {}
      /\ IsAbsolute(path) /\ Advance([ix EXCEPT ![i] = Gone])
  BY DEF DoubleDotAtRoot, AtDoubleDot
<1>2. /\ Left(ix, i - 1) \in Seq(Names) /\ ix[i] \in Names
      /\ ix \in Seq(Entries) /\ i - 1 \in 0..Len(ix)
      /\ IsAbsolute(input)
  BY <1>1, InLoop
<1>3. Left(ix, i - 1) = <<>>
  BY <1>1, <1>2, LastLeft DEF Above
<1>4. Floor = 0
  BY <1>2, FloorIs
<1>5. TakesName = [stack |-> Left(ix, i - 1), lost |-> FALSE]
  <2>1. ~ (Len(Left(ix, i - 1)) > Floor)
    <3>1. Len(<<>>) = 0
      OBVIOUS
    <3> QED
      BY <1>3, <1>4, <3>1
  <2>2. TakesName = [stack |-> Left(ix, i - 1), lost |-> ~ IsAbsolute(input)]
    BY <1>1, <1>2, <2>1, TokenFacts, TakesNameIs DEF TakesName
  <2>3. (~ IsAbsolute(input)) = FALSE
    BY <1>2
  <2> QED
    BY <2>2, <2>3
<1> QED
  BY <1>1, <1>5, ClearInv

(* What ".." finds above it, in the loop. *)
LEMMA AboveFacts ==
  ASSUME NormInv, AtName, Above # {}
  PROVE  LET j == Max(Above)
         IN  /\ j \in 1..(i - 1) /\ ix[j] = TheNames[j]
             /\ Max(Above) = j
             /\ \A k \in (j + 1)..(i - 1) : ix[k] = Gone
             /\ Left(ix, j - 1) \in Seq(Names)
             /\ DropEnd(Left(ix, i - 1)) = Left(ix, j - 1)
             /\ Len(Left(ix, i - 1)) = Len(Left(ix, j - 1)) + 1
<1>1. /\ LoopAt(ix, i) /\ i \in 1..Len(ix) /\ i - 1 \in 0..Len(ix) /\ Len(ix) \in Nat
      /\ ix \in Seq(Entries)
  BY InLoop
<1>2. PICK a \in Nat, n \in Nat : a = Len(ix) /\ n = i - 1 /\ n \in 0..a
  BY <1>1
<1>3. PICK u : u = Above /\ u = {k \in 1..n : ix[k] # Gone}
  BY <1>2 DEF Above
<1>4. /\ Max(u) \in 1..n /\ ix[Max(u)] \in Names
      /\ DropEnd(Left(ix, n)) = Left(ix, Max(u) - 1)
      /\ Len(Left(ix, n)) = Len(Left(ix, Max(u) - 1)) + 1
      /\ \A k \in (Max(u) + 1)..n : ix[k] = Gone
  BY ZenonT(40), <1>1, <1>2, <1>3, LastLeft
<1>5. PICK j \in 1..n : j = Max(u)
  BY <1>4
<1>6. ix[j] = TheNames[j]
  <2>1. ix[j] \in {TheNames[j], Gone}
    BY <1>1, <1>2, <1>5 DEF LoopAt, LoopArray
  <2>2. ix[j] # Gone
    BY <1>4, <1>5, TokenFacts
  <2> QED
    BY <2>1, <2>2
<1>7. Max(u) = Max(u)
  BY DEF Max
<1>8. Left(ix, j - 1) \in Seq(Names)
  <2>1. j - 1 \in 0..a
    BY <1>2, <1>5
  <2> QED
    BY <1>1, <1>2, <2>1, LeftStep
<1> QED
  BY <1>2, <1>3, <1>4, <1>5, <1>6, <1>7, <1>8

(* Clearing entry i and the last one above it that is not gone leaves what *)
(* was left before that one.                                               *)
LEMMA ClearAbove ==
  ASSUME NormInv, AtName, Above # {},
         NEW j, j = Max(Above), ~ (j = 1 /\ ix[j] \in TildeNames)
  PROVE  LET s == [ix EXCEPT ![i] = Gone, ![j] = Gone]
         IN  /\ j \in 1..(i - 1)
             /\ s \in Seq(Entries) /\ Len(s) = Len(ix)
             /\ \A k \in 1..Len(ix) : s[k] = IF k = i \/ k = j THEN Gone ELSE ix[k]
             /\ Left(s, i) = DropEnd(Left(ix, i - 1))
             /\ Len(Left(ix, i - 1)) > Floor
             /\ Floor = 1 => ix[1] = TheNames[1] /\ j # 1
<1>1. /\ j \in 1..(i - 1) /\ ix[j] = TheNames[j]
      /\ \A k \in (j + 1)..(i - 1) : ix[k] = Gone
      /\ Left(ix, j - 1) \in Seq(Names)
      /\ DropEnd(Left(ix, i - 1)) = Left(ix, j - 1)
      /\ Len(Left(ix, i - 1)) = Len(Left(ix, j - 1)) + 1
  BY AboveFacts
<1>2. /\ LoopAt(ix, i) /\ i \in 1..Len(ix) /\ Len(ix) \in Nat
      /\ ix \in Seq(Entries) /\ TheNames \in Seq(Names)
      /\ Len(ix) = Len(TheNames)
  <2>1. LoopAt(ix, i)
    BY InLoop
  <2> QED
    BY <2>1, InLoop DEF LoopAt, LoopArray
<1>3. PICK a \in Nat : a = Len(ix) /\ i \in 1..a /\ j \in 1..a /\ j < i /\ i - 1 \in Nat
  BY <1>1, <1>2
<1>4. PICK s \in Seq(Entries) :
        /\ s = [ix EXCEPT ![i] = Gone, ![j] = Gone] /\ Len(s) = a
        /\ \A k \in 1..a : s[k] = IF k = i \/ k = j THEN Gone ELSE ix[k]
  <2>1. Gone \in Entries
    BY DEF Entries
  <2>2. PICK r \in Seq(Entries) :
          /\ r = [ix EXCEPT ![i] = Gone] /\ Len(r) = a
          /\ \A k \in 1..a : r[k] = IF k = i THEN Gone ELSE ix[k]
    <3>1. i \in 1..Len(ix) /\ Len(ix) = a
      BY <1>3
    <3>2. /\ [ix EXCEPT ![i] = Gone] \in Seq(Entries)
          /\ Len([ix EXCEPT ![i] = Gone]) = Len(ix)
          /\ \A m \in 1..Len(ix) : [ix EXCEPT ![i] = Gone][m] = IF m = i THEN Gone ELSE ix[m]
      BY <1>2, <2>1, <3>1, ExceptSeq
    <3> QED
      BY <3>1, <3>2
  <2>3. PICK s \in Seq(Entries) :
          /\ s = [r EXCEPT ![j] = Gone] /\ Len(s) = a
          /\ \A k \in 1..a : s[k] = IF k = j THEN Gone ELSE r[k]
    <3>1. j \in 1..Len(r) /\ Len(r) = a
      BY <1>3, <2>2
    <3>2. /\ [r EXCEPT ![j] = Gone] \in Seq(Entries)
          /\ Len([r EXCEPT ![j] = Gone]) = Len(r)
          /\ \A m \in 1..Len(r) : [r EXCEPT ![j] = Gone][m] = IF m = j THEN Gone ELSE r[m]
      BY <1>2, <2>1, <3>1, ExceptSeq
    <3> QED
      BY <3>1, <3>2
  <2>4. s = [ix EXCEPT ![i] = Gone, ![j] = Gone]
    BY <2>2, <2>3
  <2>5. \A k \in 1..a : s[k] = IF k = i \/ k = j THEN Gone ELSE ix[k]
    BY <2>2, <2>3
  <2> QED
    BY <2>3, <2>4, <2>5
<1>5. Left(s, i) = DropEnd(Left(ix, i - 1))
  <2>1. \A k \in ((j - 1) + 1)..i : s[k] = Gone
    <3> TAKE k \in ((j - 1) + 1)..i
    <3>1. k \in 1..a
      BY <1>3
    <3>2. CASE k = i \/ k = j
      BY <1>4, <3>1, <3>2
    <3>3. CASE ~ (k = i \/ k = j)
      <4>1. k \in (j + 1)..(i - 1)
        BY <1>3, <3>3
      <4> QED
        BY <1>1, <1>4, <3>1, <3>3, <4>1
    <3> QED
      BY <3>2, <3>3
  <2>2. PICK m : m = j - 1 /\ m \in 0..Len(s) /\ i \in m..Len(s)
    BY <1>3, <1>4
  <2>3. Left(s, i) = Left(s, m)
    BY <2>1, <2>2, GoneTail
  <2>4. \A k \in 1..m : s[k] = ix[k]
    BY <1>3, <1>4, <2>2
  <2>5. m \in Int
    BY <1>3, <2>2
  <2>6. Upto(s, m) = Upto(ix, m)
    BY <2>4, <2>5, UptoAlike
  <2> QED
    BY <1>1, <2>2, <2>3, <2>6 DEF Left
<1>6. Floor = 1 => ix[1] = TheNames[1] /\ j # 1 /\ TheNames[1] \in Names
  <2> SUFFICES ASSUME Floor = 1
               PROVE  ix[1] = TheNames[1] /\ j # 1 /\ TheNames[1] \in Names
    OBVIOUS
  <2>1. ix[1] = TheNames[1]
    BY <1>2, <1>3 DEF LoopAt, LoopWalk
  <2>2. TheNames[1] \in TildeNames
    BY FloorIs
  <2>3. j # 1
    BY <1>1, <2>2
  <2>4. 1 \in 1..Len(TheNames)
    BY <1>2, <1>3
  <2>5. TheNames[1] \in Names
    BY <1>2, <2>4, ElementOfSeq
  <2> QED
    BY <2>1, <2>3, <2>5
<1>7. Len(Left(ix, i - 1)) > Floor
  <2>1. PICK r \in Seq(Names), c \in Nat : r = Left(ix, j - 1) /\ c = Len(r)
    BY <1>1, LenProperties
  <2>2. CASE Floor = 0
    BY <1>1, <2>1, <2>2
  <2>3. CASE Floor = 1
    <3>1. PICK m : m = j - 1 /\ m \in 1..Len(ix)
      BY <1>3, <1>6, <2>3
    <3>2. ix[1] # Gone
      BY <1>6, <2>3, TokenFacts
    <3>3. Left(ix, m) # <<>>
      BY <1>2, <3>1, <3>2, FirstLeft
    <3>4. c # 0
      BY <2>1, <3>1, <3>3, EmptySeq
    <3> QED
      BY <1>1, <2>1, <2>3, <3>4
  <2> QED
    BY <2>2, <2>3, FloorIs
<1> QED
  BY <1>1, <1>3, <1>4, <1>5, <1>6, <1>7

(* A ".." that is cleared with the name above it is a step up of the walk. *)
LEMMA RemoveDoubleDotInv ==
  ASSUME NormInv, RemoveDoubleDot
  PROVE  NormInv'
<1>1. PICK j : j = Max(Above)
  OBVIOUS
<1>2. /\ AtName /\ ix[i] = DotDot /\ removeDD /\ Above # {}
      /\ Max(Above) = j
  BY <1>1, AboveFacts DEF RemoveDoubleDot, AtDoubleDot
<1>3. /\ ~ (j = 1 /\ ix[j] \in TildeNames)
      /\ Advance([ix EXCEPT ![i] = Gone, ![j] = Gone])
  BY <1>2 DEF RemoveDoubleDot
<1>4. /\ i \in 1..Len(ix) /\ Len(ix) \in Nat /\ ix[i] \in Names
      /\ Left(ix, i - 1) \in Seq(Names)
  BY <1>2, InLoop
<1>5. PICK s \in Seq(Entries), a \in Nat :
        /\ s = [ix EXCEPT ![i] = Gone, ![j] = Gone] /\ a = Len(ix) /\ Len(s) = a
        /\ \A k \in 1..a : s[k] = IF k = i \/ k = j THEN Gone ELSE ix[k]
        /\ Left(s, i) = DropEnd(Left(ix, i - 1))
        /\ j \in 1..(i - 1) /\ Len(Left(ix, i - 1)) > Floor
        /\ Floor = 1 => ix[1] = TheNames[1] /\ j # 1
  <2>1. LET s == [ix EXCEPT ![i] = Gone, ![j] = Gone]
        IN  /\ j \in 1..(i - 1)
            /\ s \in Seq(Entries) /\ Len(s) = Len(ix)
            /\ \A k \in 1..Len(ix) : s[k] = IF k = i \/ k = j THEN Gone ELSE ix[k]
            /\ Left(s, i) = DropEnd(Left(ix, i - 1))
            /\ Len(Left(ix, i - 1)) > Floor
            /\ Floor = 1 => ix[1] = TheNames[1] /\ j # 1
    BY <1>1, <1>2, <1>3, ClearAbove
  <2>2. PICK s : s = [ix EXCEPT ![i] = Gone, ![j] = Gone]
    OBVIOUS
  <2> QED
    BY <1>4, <2>1, <2>2
<1>6. i \in 1..a /\ j \in 1..a /\ j < i
  BY <1>4, <1>5
<1>7. TakesName = [stack |-> Left(s, i), lost |-> FALSE]
  BY <1>2, <1>4, <1>5, TokenFacts, TakesNameIs DEF TakesName
<1>8. Floor = 1 => s[1] = TheNames[1]
  <2> SUFFICES ASSUME Floor = 1
               PROVE  s[1] = TheNames[1]
    OBVIOUS
  <2>1. 1 \in 1..a /\ 1 # i /\ 1 # j
    BY <1>5, <1>6
  <2> QED
    BY <1>5, <2>1
<1>9. s[i] = Gone /\ Gone # Dot /\ Gone # DotDot
  BY <1>5, <1>6, TokenFacts
<1>10. \A k \in (i + 1)..a : s[k] = ix[k]
  BY <1>5, <1>6
<1>11. \A k \in 1..a : s[k] \in {ix[k], Gone}
  BY <1>5
<1> QED
  BY <1>2, <1>3, <1>5, <1>6, <1>7, <1>8, <1>9, <1>10, <1>11, AdvanceInv

(* When the walk loses the way at name i, NULL is expected. *)
LEMMA LostWalk ==
  ASSUME NormInv, AtName, TakesName.lost
  PROVE  Expected = Null
<1>1. /\ input \in Inputs /\ i \in 1..Len(ix) /\ LoopAt(ix, i)
      /\ TheNames \in Seq(Names) /\ ix[i] \in Names
      /\ Upto(TheNames, i - 1) \in Seq(Names)
      /\ Upto(TheNames, i) = Append(Upto(TheNames, i - 1), ix[i])
      /\ WalkedOver(Upto(TheNames, i - 1)) = [stack |-> Left(ix, i - 1), lost |-> FALSE]
  BY InLoop
<1>2. WalkedOver(Upto(TheNames, i)) = TakesName
  <2>1. PICK u \in Seq(Names), t \in Names : u = Upto(TheNames, i - 1) /\ t = ix[i]
    BY <1>1
  <2>2. WalkedOver(Append(u, t)) = WalkOn(WalkedOver(u), t)
    BY WalkedOverStep
  <2> QED
    BY <1>1, <2>1, <2>2 DEF TakesName
<1>3. PICK names \in Seq(Names), n \in Nat : names = TheNames /\ n = i /\ n \in 0..Len(names)
  <2>1. Len(ix) = Len(TheNames) /\ Len(TheNames) \in Nat
    BY <1>1, LenProperties DEF LoopAt, LoopArray
  <2> QED
    BY <1>1, <2>1
<1>4. WalkedOver(Upto(names, n)).lost
  BY <1>2, <1>3
<1>5. WalkedOver(names).lost
  BY <1>3, <1>4, LostForever
<1>6. Walked = WalkedOver(NamesOf(input))
  BY Zenon DEF Walked, WalkedOver, Origin
<1>7. Walked.lost
  BY <1>3, <1>5, <1>6 DEF TheNames
<1> QED
  BY <1>7 DEF Expected

(* Where a ".." cannot be removed nothing is left that the walk can leave. *)
LEMMA AtFloor ==
  ASSUME NormInv, CannotRemove
  PROVE  /\ IsAbsolute(input) => RootedTilde(input)
         /\ ~ IsAbsolute(input) => ~ (Len(Left(ix, i - 1)) > Floor)
<1>1. /\ AtName
      /\ \/ Above = {} /\ ~ IsAbsolute(path)
         \/ Above # {} /\ Max(Above) = 1 /\ ix[1] \in TildeNames
  BY DEF CannotRemove, AtDoubleDot
<1>2. /\ input \in Inputs /\ LoopAt(ix, i)
      /\ i \in 1..Len(ix) /\ i - 1 \in 0..Len(ix) /\ Len(ix) \in Nat
      /\ TheNames \in Seq(Names) /\ ix \in Seq(Entries)
      /\ IsAbsolute(path) <=> IsAbsolute(input)
  BY <1>1, InLoop
<1>3. TheNames # <<>>
  <2>1. Len(ix) = Len(TheNames)
    BY <1>2 DEF LoopAt, LoopArray
  <2> QED
    BY <1>2, <2>1, EmptySeq
<1>4. IsAbsolute(input) => RootedTilde(input)
  <2> SUFFICES ASSUME IsAbsolute(input)
               PROVE  RootedTilde(input)
    OBVIOUS
  <2>1. ix[1] \in TildeNames
    BY <1>1, <1>2
  <2>2. ix[1] \in {TheNames[1], Gone}
    BY <1>2 DEF LoopAt, LoopArray
  <2>3. Gone \notin TildeNames
    BY TokenFacts DEF Names
  <2> QED
    BY <1>3, <2>1, <2>2, <2>3 DEF RootedTilde, TheNames
<1>5. ~ IsAbsolute(input) => ~ (Len(Left(ix, i - 1)) > Floor)
  <2> SUFFICES ASSUME ~ IsAbsolute(input)
               PROVE  ~ (Len(Left(ix, i - 1)) > Floor)
    OBVIOUS
  <2>1. CASE Above = {}
    <3>1. Left(ix, i - 1) = <<>>
      BY <1>2, <2>1, LastLeft DEF Above
    <3>2. Len(<<>>) = 0
      OBVIOUS
    <3> QED
      BY <3>1, <3>2, FloorIs
  <2>2. CASE Above # {} /\ Max(Above) = 1 /\ ix[1] \in TildeNames
    <3>1. PICK j : j = Max(Above)
      OBVIOUS
    <3>2. Max(Above) = j /\ ix[j] = TheNames[j]
          /\ Len(Left(ix, i - 1)) = Len(Left(ix, j - 1)) + 1
      BY <1>1, <2>2, <3>1, AboveFacts
    <3>3. j = 1 /\ TheNames[1] \in TildeNames
      BY <2>2, <3>2
    <3>4. Floor = 1
      BY <1>3, <3>3, FloorIs
    <3>5. Left(ix, 0) = <<>> /\ Len(<<>>) = 0 /\ j - 1 = 0
      BY <1>2, <3>3, LeftStep
    <3> QED
      BY <3>2, <3>4, <3>5
  <2> QED
    BY <1>1, <2>1, <2>2
<1> QED
  BY <1>4, <1>5

(* Where a ".." cannot be removed NULL is what is expected. *)
LEMMA CannotRemoveInv ==
  ASSUME NormInv, CannotRemove
  PROVE  NormInv'
<1>1. /\ AtName /\ ix[i] = DotDot /\ removeDD
      /\ \/ Above = {} /\ ~ IsAbsolute(path)
         \/ Above # {} /\ Max(Above) = 1 /\ ix[1] \in TildeNames
  BY DEF CannotRemove, AtDoubleDot
<1>2. /\ input \in Inputs /\ path = OnceOf /\ LoopAt(ix, i)
      /\ i \in 1..Len(ix) /\ i - 1 \in 0..Len(ix) /\ Len(ix) \in Nat
      /\ TheNames \in Seq(Names) /\ ix \in Seq(Entries) /\ ix[i] \in Names
      /\ IsAbsolute(path) <=> IsAbsolute(input)
      /\ Left(ix, i - 1) \in Seq(Names)
  BY <1>1, InLoop
<1>3. PICK a \in BOOLEAN, x \in Names :
        /\ a = IsAbsolute(OnceOf) /\ x = TheNames[1] /\ TheNames # <<>>
  <2>1. Len(ix) = Len(TheNames)
    BY <1>2 DEF LoopAt, LoopArray
  <2>2. 1 \in 1..Len(TheNames) /\ TheNames # <<>>
    BY <1>2, <2>1, EmptySeq
  <2>3. TheNames[1] \in Names
    BY <1>2, <2>2, ElementOfSeq
  <2> QED
    BY <2>2, <2>3 DEF IsAbsolute
<1>4. a <=> IsAbsolute(input)
  BY <1>2, <1>3
<1>5. /\ ArgsStay /\ end' = end /\ pc' = "done" /\ result' = Null
      /\ path' = (IF IsAbsolute(path) THEN Root ELSE <<>>) \o <<NamesOf(path)[1]>>
  BY DEF CannotRemove, Return, argVars, ArgsStay
<1>6. path' = JoinedPath(a, <<x>>)
  <2>1. NamesOf(path)[1] = x
    BY <1>2, <1>3, GivenFacts
  <2>2. <<Slash>> \o <<x>> = <<Slash, x>> /\ <<>> \o <<x>> = <<x>>
    BY ShortSequences
  <2>3. JoinedPath(a, <<x>>) = IF a THEN <<Slash, x>> ELSE <<x>>
    BY JoinOfOne
  <2> QED
    BY <1>2, <1>3, <1>5, <2>1, <2>2, <2>3 DEF Root
<1>7. /\ path' \in Seq(Tokens) /\ (IsAbsolute(path') <=> a)
      /\ Length(path') <= Length(OnceOf)
  <2>1. PICK w \in Seq(Names) : w = <<x>> /\ w = Append(<<>>, x) /\ Len(w) = 1
    <3>1. <<x>> \in Seq(Names)
      OBVIOUS
    <3>2. <<x>> = Append(<<>>, x)
      OBVIOUS
    <3>3. Len(<<x>>) = 1
      OBVIOUS
    <3> QED
      BY <3>1, <3>2, <3>3
  <2>2. PICK s \in Seq(Tokens), n \in Seq(Names) :
          s = OnceOf /\ Alternates(s) /\ n = TheNames /\ NamesOf(s) = n
    BY <1>2, GivenFacts
  <2>3. Len(w) <= Len(n)
    <3>1. Len(n) \in Nat /\ Len(n) # 0
      BY <1>3, <2>2, EmptySeq
    <3> QED
      BY <2>1, <3>1
  <2>4. Length(w) <= Length(n)
    <3>1. Length(Append(<<>>, x)) = Length(<<>>) + Bytes[x] /\ Bytes[x] \in Nat
      <4>1. x \in Tokens /\ <<>> \in Seq(Tokens)
        BY TokenFacts
      <4> QED
        BY <4>1, LengthStep, TokenFacts
    <3>2. Length(w) = Bytes[x]
      BY <2>1, <3>1, LengthStep
    <3>3. n \in Seq(Tokens) /\ n # <<>> /\ n[1] = x
      BY <1>3, <2>2, NameLength
    <3>4. Bytes[n[1]] <= Length(n)
      BY <3>3, FirstLength
    <3> QED
      BY <3>2, <3>3, <3>4
  <2>5. Length(JoinedPath(IsAbsolute(s), w)) <= Length(s)
    BY <2>2, <2>3, <2>4, RoomForJoined
  <2>6. JoinedPath(a, w) \in Seq(Tokens) /\ (IsAbsolute(JoinedPath(a, w)) <=> a)
    BY JoinedShape
  <2> QED
    BY <1>3, <1>6, <2>1, <2>2, <2>5, <2>6
<1>8. IsAbsolute(input) => RootedTilde(input)
  BY AtFloor
<1>9. ~ IsAbsolute(input) => Expected = Null
  <2> SUFFICES ASSUME ~ IsAbsolute(input)
               PROVE  Expected = Null
    OBVIOUS
  <2>1. ~ (Len(Left(ix, i - 1)) > Floor)
    BY AtFloor
  <2>2. TakesName = [stack |-> Left(ix, i - 1), lost |-> ~ IsAbsolute(input)]
    BY <1>1, <1>2, <2>1, TokenFacts, TakesNameIs DEF TakesName
  <2>3. TakesName.lost
    BY <2>2
  <2> QED
    BY <1>1, <2>3, LostWalk
<1>10. Asked' = Asked /\ Expected' = Expected
  BY <1>2, <1>5, Frozen DEF ArgsStay
<1>11. EndsInv' /\ DoneInv'
  <2>1. EndsInv'
    BY <1>5 DEF EndsInv
  <2>2. DoneInv'
    <3>1. RootedTilde(input)' = RootedTilde(input)
      BY <1>5 DEF ArgsStay, RootedTilde
    <3>2. ~ RootedTilde(input) => ~ IsAbsolute(input) /\ result' = Expected
      BY <1>5, <1>8, <1>9
    <3> QED
      BY <1>5, <1>10, <3>1, <3>2 DEF DoneInv, ArgsStay
  <2> QED
    BY <2>1, <2>2
<1>12. Length(path') <= Length(input)
  <2>1. Length(path') \in Nat /\ Length(OnceOf) \in Nat /\ Length(input) \in Nat
    BY <1>2, <1>7, GivenFacts, LengthStep
  <2> QED
    BY <1>2, <1>7, <2>1, GivenFacts
<1> QED
  BY <1>4, <1>5, <1>7, <1>11, <1>12, InPlaceStays, LeavesLoop

-----------------------------------------------------------------------------
(* The steps after the loop.                                               *)

(* "/" is as long as an absolute path, or shorter. *)
LEMMA RootShorter ==
  /\ <<Slash>> \in Seq(Tokens) /\ <<Slash>> # Null
  /\ IsAbsolute(<<Slash>>)
  /\ input \in Inputs /\ IsAbsolute(input) =>
       Length(<<Slash>>) <= Length(input)
<1>1. <<Slash>> \in Seq(Tokens) /\ <<Slash>> # Null /\ IsAbsolute(<<Slash>>)
  BY OneName, TokenFacts
<1>2. Length(<<Slash>>) = 1
  <2>1. <<Slash>> = Append(<<>>, Slash) /\ <<>> \in Seq(Tokens)
    OBVIOUS
  <2>2. Length(Append(<<>>, Slash)) = Length(<<>>) + Bytes[Slash]
    BY <2>1, LengthStep, TokenFacts
  <2> QED
    BY <2>1, <2>2, LengthStep, TokenFacts
<1>3. input \in Inputs /\ IsAbsolute(input) => 1 <= Length(input)
  <2>1. IsAbsolute(input) => input # <<>> /\ input[1] = Slash
    BY DEF IsAbsolute
  <2>2. input \in Inputs /\ input # <<>> => Bytes[input[1]] <= Length(input)
    BY GivenFacts, FirstLength
  <2> QED
    BY <2>1, <2>2, TokenFacts
<1> QED
  BY <1>1, <1>2, <1>3

(* What is left of the names in the end. *)
LEMMA AfterLoop ==
  ASSUME NormInv, pc = "loop", i > Len(ix)
  PROVE  /\ Kept(ix) \in Seq(Names \ {Dot})
         /\ WalkedOver(TheNames) = [stack |-> Kept(ix), lost |-> FALSE]
         /\ Len(Kept(ix)) <= Len(TheNames)
         /\ Length(Kept(ix)) <= Length(TheNames)
         /\ removeDD => Len(Kept(ix)) < Len(TheNames)
<1>1. input \in Inputs /\ LoopAt(ix, i) /\ TheNames \in Seq(Names)
  BY GivenFacts DEF NormInv, NormType, LoopInv
<1>2. /\ ix \in Seq(Entries) /\ Len(ix) = Len(TheNames) /\ i \in 1..(Len(ix) + 1)
      /\ \A k \in 1..Len(ix) : ix[k] \in {TheNames[k], Gone}
  BY <1>1 DEF LoopAt, LoopArray
<1>3. PICK a \in Nat : a = Len(ix) /\ a = Len(TheNames) /\ i - 1 = a
  <2>1. Len(ix) \in Nat
    BY <1>2, LenProperties
  <2>2. i - 1 = Len(ix)
    BY <1>2, <2>1
  <2> QED
    BY <1>2, <2>1, <2>2
<1>4. Dotted(TheNames) /\ \A k \in 1..a : ix[k] # Dot /\ (removeDD => ix[k] # DotDot)
  BY <1>1, <1>3 DEF LoopAt, LoopDots
<1>5. /\ Kept(ix) = Left(ix, a) /\ Len(Kept(ix)) <= Len(TheNames)
      /\ Length(Kept(ix)) <= Length(TheNames)
      /\ (\E k \in 1..Len(ix) : ix[k] = Gone) => Len(Kept(ix)) < Len(TheNames)
  BY <1>1, <1>2, <1>3, LeftShorter
<1>6. removeDD => \E k \in 1..a : ix[k] = Gone
  <2> SUFFICES ASSUME removeDD
               PROVE  \E k \in 1..a : ix[k] = Gone
    OBVIOUS
  <2>1. PICK k \in DOMAIN TheNames : TheNames[k] \in {Dot, DotDot}
    BY <1>4 DEF Dotted
  <2>2. k \in 1..a
    BY <1>1, <1>3, LenProperties
  <2>3. ix[k] \in {TheNames[k], Gone} /\ ix[k] # Dot /\ ix[k] # DotDot
    BY <1>2, <1>3, <1>4, <2>2
  <2> QED
    BY <2>1, <2>2, <2>3
<1>7. WalkedOver(TheNames) = [stack |-> Kept(ix), lost |-> FALSE]
  <2>1. Upto(TheNames, a) = TheNames
    BY <1>1, <1>3, UptoStep
  <2> QED
    BY <1>1, <1>3, <1>5, <2>1 DEF LoopAt, LoopWalk
<1>8. Kept(ix) \in Seq(Names \ {Dot})
  <2> DEFINE T == Entries \ {Dot}
  <2>1. ix \in Seq(T)
    <3>1. \A k \in 1..a : ix[k] \in T
      BY <1>2, <1>3, <1>4, ElementOfSeq
    <3>2. ix \in [1..a -> T]
      <4>1. ix \in [1..a -> Entries]
        BY <1>2, <1>3, LenProperties
      <4> QED
        BY <3>1, <4>1
    <3> QED
      BY <3>2
  <2>2. Without(ix, Gone) \in Seq(T \ {Gone})
    BY <2>1, WithoutHasNone
  <2>3. T \ {Gone} \subseteq Names \ {Dot}
    BY DEF Entries
  <2> QED
    BY <2>2, <2>3, SeqMonotonic DEF Kept
<1> QED
  BY <1>3, <1>5, <1>6, <1>7, <1>8

(* The names that are left, joined, are the path expected, but for the     *)
(* ends; the final NUL is written inside the names given when ".." is      *)
(* removed.                                                                *)
LEMMA JoinNamesInv ==
  ASSUME NormInv, JoinNames
  PROVE  NormInv'
<1>1. /\ pc = "loop" /\ i > Len(ix)
      /\ end' = JoinEnd(Kept(ix)) /\ pc' = "ends"
      /\ ArgsStay /\ ix' = ix /\ i' = i
  BY DEF JoinNames, argVars, ArgsStay
<1>2. /\ input \in Inputs /\ keepEnd \in BOOLEAN /\ path = OnceOf
  BY <1>1 DEF NormInv, NormType, LoopInv
<1>3. PICK st : st = Kept(ix)
  OBVIOUS
<1>4. /\ st \in Seq(Names \ {Dot})
      /\ WalkedOver(TheNames) = [stack |-> st, lost |-> FALSE]
      /\ Len(st) <= Len(TheNames)
      /\ Length(st) <= Length(TheNames)
      /\ removeDD => Len(st) < Len(TheNames)
  BY <1>1, <1>3, AfterLoop
<1>5. PICK s \in Seq(Tokens) :
        /\ s = OnceOf /\ Alternates(s) /\ NamesOf(s) = TheNames
        /\ Length(s) <= Length(input)
        /\ IsAbsolute(s) <=> IsAbsolute(input)
        /\ EndsWithSeparator(s) <=> EndsWithSeparator(input)
  BY <1>2, GivenFacts
<1>6. PICK a \in BOOLEAN : a = IsAbsolute(input) /\ a = IsAbsolute(s)
  <2>1. IsAbsolute(s) \in BOOLEAN /\ IsAbsolute(input) \in BOOLEAN
    BY DEF IsAbsolute
  <2> QED
    BY <1>5, <2>1
<1>7. PICK j : j = JoinedPath(a, st)
  OBVIOUS
<1>8. st \in Seq(Names)
  <2>1. Names \ {Dot} \subseteq Names
    OBVIOUS
  <2> QED
    BY <1>4, <2>1, SeqMonotonic
<1>9. /\ j \in Seq(Tokens)
      /\ st # <<>> => j # <<>> /\ ~ EndsWithSeparator(j)
      /\ st = <<>> => j = IF a THEN <<Slash>> ELSE <<>>
  BY <1>7, <1>8, JoinedShape
<1>10. /\ Length(j) <= Length(s)
       /\ EndsWithSeparator(s) /\ st # <<>> => Length(j) + 1 <= Length(s)
       /\ Len(st) < Len(TheNames) => Length(st) + Len(st) <= Length(s) - Lead(s)
  BY <1>4, <1>5, <1>6, <1>7, <1>8, RoomForJoined
<1>11. PICK p : p = path'
  OBVIOUS
<1>12. p = IF /\ keepEnd /\ EndsWithSeparator(input)
              /\ j # <<>> /\ ~ EndsWithSeparator(j)
              /\ Length(j) + 1 <= Length(input)
           THEN Append(j, Slash) ELSE j
  <2>1. Joined = j
    BY <1>2, <1>3, <1>5, <1>6, <1>7 DEF Joined, JoinedPath
  <2> QED
    BY <1>11, <2>1 DEF JoinNames
<1>13. /\ Length(j) \in Nat /\ Length(s) \in Nat /\ Length(input) \in Nat
       /\ Length(Append(j, Slash)) = Length(j) + 1
  BY <1>2, <1>5, <1>9, LengthStep, GivenLength, WithSeparator
<1>14. st = <<>> => p = j
  BY <1>9, <1>12 DEF EndsWithSeparator
<1>15. st # <<>> /\ keepEnd /\ EndsWithSeparator(input) => p = Append(j, Slash)
  <2>1. st # <<>> /\ EndsWithSeparator(input) => Length(j) + 1 <= Length(input)
    BY <1>5, <1>10, <1>13
  <2> QED
    BY <1>9, <1>12, <2>1
<1>16. p \in {j, Append(j, Slash)}
  BY <1>12
<1>17. /\ IsExpected(p) /\ p \in Seq(Tokens)
       /\ IsAbsolute(input) => IsAbsolute(p)
  BY <1>2, <1>4, <1>6, <1>7, <1>14, <1>15, <1>16, JoinedIsExpected
<1>18. Length(p) <= Length(input)
  <2>1. CASE p = j
    BY <1>5, <1>10, <1>13, <2>1
  <2>2. CASE p # j
    <3>1. p = Append(j, Slash) /\ Length(j) + 1 <= Length(input)
      BY <1>12, <2>2
    <3> QED
      BY <1>13, <3>1
  <2> QED
    BY <2>1, <2>2
<1>19. InPlace'
  <2>1. end' = Length(st) + Len(st)
    BY <1>1, <1>3 DEF JoinEnd
  <2>2. NamesLength = Length(s) - Lead(s)
    BY <1>5 DEF NamesLength, OnceOf, Lead
  <2>3. NamesLength' = NamesLength
    BY <1>1, <1>2, Frozen DEF ArgsStay
  <2> QED
    BY <1>1, <1>4, <1>10, <2>1, <2>2, <2>3 DEF InPlace, ArgsStay
<1>20. i' \notin 1..Len(ix')
  <2>1. Len(ix) \in Nat
    BY <1>1, LenProperties DEF NormInv, LoopInv, LoopAt, LoopArray
  <2> QED
    BY <1>1, <2>1
<1> QED
  BY <1>1, <1>11, <1>17, <1>18, <1>19, <1>20, ToEnds

(* Taking a separator off the end keeps a path a path. *)
LEMMA TrimmedFacts ==
  ASSUME NEW p \in Seq(Tokens)
  PROVE  /\ Trimmed(p) \in Seq(Tokens)
         /\ Length(Trimmed(p)) <= Length(p)
         /\ IsAbsolute(p) => IsAbsolute(Trimmed(p))
<1>1. Length(p) \in Nat
  BY LengthStep
<1>2. CASE Trimmed(p) = p
  BY <1>1, <1>2
<1>3. CASE Trimmed(p) # p
  <2>1. EndsWithSeparator(p) /\ p # <<Slash>> /\ Trimmed(p) = DropEnd(p)
    BY <1>3 DEF Trimmed
  <2>2. p # <<>>
    BY <2>1 DEF EndsWithSeparator
  <2>3. PICK r \in Seq(Tokens), e \in Tokens : p = Append(r, e)
    BY <2>2, SequenceEmptyOrAppend
  <2>4. DropEnd(p) = r
    BY <2>3, DropEndOfAppend
  <2>5. Length(r) <= Length(p)
    <3>1. Length(p) = Length(r) + Bytes[e] /\ Length(r) \in Nat
      BY <2>3, LengthStep
    <3>2. Bytes[e] \in Nat
      BY TokenFacts
    <3> QED
      BY <3>1, <3>2
  <2>6. r # <<>>
    <3>1. e = Slash
      BY <2>1, <2>3, EndsOfAppend
    <3>2. <<Slash>> = Append(<<>>, Slash)
      OBVIOUS
    <3> QED
      BY <2>1, <2>3, <3>1, <3>2
  <2>7. IsAbsolute(p) => IsAbsolute(r)
    BY <2>3, <2>6, EndsOfAppend
  <2> QED
    BY <2>1, <2>4, <2>5, <2>7
<1> QED
  BY <1>2, <1>3

(* What is returned after the ends are trimmed is the path expected. *)
LEMMA TrimEndsInv ==
  ASSUME NormInv, TrimEnds
  PROVE  NormInv'
<1>1. /\ pc = "ends" /\ pc' = "done" /\ ArgsStay /\ end' = end
      /\ input \in Inputs /\ path \in Seq(Tokens)
      /\ Length(path) <= Length(input)
      /\ IsAbsolute(input) => IsAbsolute(path)
      /\ EndsPath
  BY DEF TrimEnds, Return, argVars, ArgsStay,
         NormInv, NormType, Shorter, EndsInv
<1>2. PICK p : p = path'
  OBVIOUS
<1>3. /\ p \in Seq(Tokens)
      /\ Length(p) <= Length(input)
      /\ IsAbsolute(input) => IsAbsolute(p)
      /\ result' # Null => path' = result'
      /\ result' = Expected
      /\ IsAbsolute(input) => result' # Null
  <2>1. CASE path \in JustDot
    <3>1. path' = <<Slash>> /\ result' = <<Slash>>
      BY <2>1 DEF TrimEnds, Return, Root, JustDot
    <3>2. IsAbsolute(input) /\ Expected = <<Slash>>
      BY <1>1, <2>1 DEF EndsPath
    <3> QED
      BY <1>1, <1>2, <3>1, <3>2, RootShorter
  <2>2. CASE path \notin JustDot
    <3>1. Unslashed(path) = Trimmed(path)
      BY DEF Unslashed, Trimmed, Root
    <3>2. p = Trimmed(path) /\ result' = IF p # <<>> THEN p ELSE Null
      BY <1>2, <2>2, <3>1 DEF TrimEnds, Return, JustDot
    <3>3. Expected = IF Trimmed(path) # <<>> THEN Trimmed(path) ELSE Null
      BY <1>1, <2>2, <3>1 DEF EndsPath
    <3>4. /\ p \in Seq(Tokens)
          /\ Length(p) <= Length(path)
          /\ IsAbsolute(path) => IsAbsolute(p)
      BY <1>1, <3>2, TrimmedFacts
    <3>5. Length(p) <= Length(input)
      <4>1. Length(p) \in Nat /\ Length(path) \in Nat /\ Length(input) \in Nat
        BY <1>1, <3>4, LengthStep, GivenLength
      <4> QED
        BY <1>1, <3>4, <4>1
    <3>6. IsAbsolute(p) => p # <<>> /\ p # Null
      BY <3>4, TokenFacts DEF IsAbsolute
    <3> QED
      BY <1>1, <1>2, <3>2, <3>3, <3>4, <3>5, <3>6
  <2> QED
    BY <2>1, <2>2
<1>4. Expected' = Expected
  BY <1>1, Frozen DEF ArgsStay
<1>5. EndsInv' /\ DoneInv'
  BY <1>1, <1>3, <1>4 DEF EndsInv, DoneInv, ArgsStay
<1> QED
  BY <1>1, <1>2, <1>3, <1>5, InPlaceStays, LeavesLoop

-----------------------------------------------------------------------------
(* normalizePath()                                                         *)

(* Every step of normalizePath() keeps the invariant. *)
LEMMA NormStep ==
  ASSUME NormInv, [NormNext]_(normVars)
  PROVE  NormInv'
<1>1. CASE UNCHANGED normVars
  <2>1. ArgsStay /\ UNCHANGED <<path, pc, ix, i, end, result>>
    BY <1>1 DEF normVars, argVars, ArgsStay
  <2>2. input \in Inputs
    BY DEF NormInv, NormType
  <2>3. /\ TheNames' = TheNames /\ OnceOf' = OnceOf /\ Floor' = Floor
        /\ Asked' = Asked /\ Expected' = Expected
        /\ \A w \in Seq(Names) : WalkedOver(w)' = WalkedOver(w)
        /\ Unslashed(path)' = Unslashed(path)
        /\ RootedTilde(input)' = RootedTilde(input)
    BY <2>1, <2>2, Frozen DEF ArgsStay, Unslashed, RootedTilde
  <2>4. NormType' /\ Shorter' /\ StartInv'
    BY <2>1 DEF ArgsStay, NormInv, NormType, Shorter, StartInv
  <2>5. InPlace'
    BY <2>1, InPlaceStays
  <2>6. LoopInv'
    <3> SUFFICES ASSUME pc = "loop"
                 PROVE  OnceOf = path /\ LoopAt(ix, i)'
      BY <2>1, <2>3 DEF LoopInv
    <3>1. LoopAt(ix, i) /\ path = OnceOf
      BY DEF NormInv, LoopInv
    <3>2. LoopArray(ix, i)'
      BY <2>1, <2>3, <3>1 DEF LoopAt, LoopArray
    <3>3. LoopDots(ix, i)'
      BY <2>1, <2>3, <3>1 DEF LoopAt, LoopDots, ArgsStay
    <3>4. LoopWalk(ix, i)'
      BY <2>1, <2>3, <3>1 DEF LoopAt, LoopWalk
    <3> QED
      BY <3>1, <3>2, <3>3, <3>4 DEF LoopAt
  <2>7. EndsInv'
    BY <2>1, <2>3 DEF NormInv, EndsInv, EndsPath, ArgsStay
  <2>8. DoneInv'
    BY <2>1, <2>3 DEF NormInv, DoneInv, ArgsStay
  <2> QED
    BY <2>4, <2>5, <2>6, <2>7, <2>8 DEF NormInv
<1>2. CASE NormNext
  BY <1>2, SpecialInv, NothingInv, SplitInv, MallocInv, SkipInv, RemoveDotInv,
     AtRootInv, RemoveDoubleDotInv, CannotRemoveInv, JoinNamesInv, TrimEndsInv
  DEF NormNext
<1> QED
  BY <1>1, <1>2

(* The invariant holds when normalizePath() is called. *)
LEMMA NormStart == NormInit => NormInv
<1> SUFFICES ASSUME NormInit
             PROVE  NormInv
  OBVIOUS
<1>1. /\ input \in Inputs /\ keepEnd \in BOOLEAN /\ removeDD \in BOOLEAN
      /\ path = input /\ pc = "start" /\ ix = <<>> /\ i = 0 /\ end = 0
  BY DEF NormInit
<1>2. /\ input \in Seq(Tokens) /\ Length(input) \in Nat
      /\ 0 <= NamesLength
  BY <1>1, GivenLength
<1>3. NormType /\ Shorter /\ InPlace
  BY <1>1, <1>2 DEF NormType, Shorter, InPlace
<1>4. StartInv /\ LoopInv /\ EndsInv /\ DoneInv
  BY <1>1 DEF StartInv, LoopInv, EndsInv, DoneInv
<1> QED
  BY <1>3, <1>4 DEF NormInv

(* The invariant of normalizePath() holds in every run of it. *)
THEOREM NormCorrect == NormSpec => []NormInv
<1>1. NormInv /\ [NormNext]_(normVars) => NormInv'
  BY NormStep
<1> QED
  BY <1>1, NormStart, PTL DEF NormSpec

(* __joinNames() never writes past the names it was given when ".." is     *)
(* removed, whatever the path and its names are.                           *)
THEOREM WritesInPlaceAlways == NormSpec => []WritesInPlace
<1>1. NormInv => WritesInPlace
  BY DEF NormInv, InPlace, WritesInPlace
<1> QED
  BY <1>1, NormCorrect, PTL

(* After the names of a path are joined, or were left as they are, a "."   *)
(* is met only in the paths "/." and "/./".                                *)
THEOREM NoDotsLeft == NormSpec => []DotsAreGone
<1>1. NormInv => DotsAreGone
  BY DEF NormInv, EndsInv, EndsPath, JustDot, DotsAreGone
<1> QED
  BY <1>1, NormCorrect, PTL

(* The paths that are given with a name that starts with '~' at the root:  *)
(* for those CannotRemove answers NULL where the walk would go on.         *)
NoRootedTilde == \A p \in Inputs : ~ RootedTilde(p)

(* What normalizePath() returns is where the walk over the names of the    *)
(* path leads, for every path that does not start with "/~".               *)
THEOREM WalkedResult ==
  ASSUME NoRootedTilde
  PROVE  NormSpec => []ResultIsWalked
<1>1. NormInv => ResultIsWalked
  BY DEF NoRootedTilde, NormInv, NormType, DoneInv, Asked, TheNames, ResultIsWalked
<1> QED
  BY <1>1, NormCorrect, PTL

-----------------------------------------------------------------------------
(* getPathFromEnv() and getPathFromEnvOrDefault()                          *)

(* The buffer holds path p, or what normalizePath() has made of it. *)
Holds(p) ==
  IF args.normalize
  THEN NormInv /\ input = p /\ keepEnd = FALSE /\ removeDD = args.remove
  ELSE pc = "idle" /\ path = p

Over == pc \in {"idle", "nomemory", "done"}

EnvType ==
  /\ env \in Inputs \cup {Unset} /\ args \in Args
  /\ at \in {"getenv", "fromEnv", "found", "default", "fromDefault", "returned"}
  /\ path \in Seq(Tokens)

InBuffer == path # <<>> => Length(path) < args.size

(* Which path is in the buffer, at each step of the two functions: none    *)
(* before a copy, so that the default is looked at with an empty buffer.   *)
Nothing    == at \in {"getenv", "default"} => path = <<>> /\ code = 1
FromEnv    == at \in {"fromEnv", "found"} => Usable /\ Fits(env) /\ Holds(env)
EnvFound   == at = "found" => code = 0 /\ path # <<>> /\ Over
FromGiven  == at = "fromDefault" => DefaultUsable /\ Holds(args.default)
NoCodeYet  == at \in {"fromEnv", "fromDefault"} => code = 1

(* An answer is the buffer, with the path of the variable or the default. *)
Answered == answer # Null =>
  /\ at = "returned" /\ answer = path /\ path # <<>> /\ Over
  /\ Source \in Inputs /\ Holds(Source)
  /\ args.absolute => IsAbsolute(Source)

EnvInv ==
  /\ EnvType /\ InBuffer
  /\ Nothing /\ FromEnv /\ EnvFound /\ FromGiven /\ NoCodeYet /\ Answered

(* The arguments are of their types, and the default is a path. *)
LEMMA ArgFacts ==
  ASSUME args \in Args
  PROVE  /\ args.size \in Nat /\ args.limit \in Nat
         /\ args.normalize \in BOOLEAN /\ args.remove \in BOOLEAN
         /\ args.default \in Inputs
BY PathFromEnvAssumption DEF Args

(* A path has a length. *)
LEMMA InputLength ==
  ASSUME NEW p \in Inputs
  PROVE  p \in Seq(Tokens) /\ Length(p) \in Nat
BY LengthStep, PathFromEnvAssumption, TokensAssumption

(* A usable variable is set, to a path that is as the arguments ask. *)
LEMMA UsableFacts ==
  ASSUME EnvType, Usable
  PROVE  /\ env \in Inputs /\ env # <<>>
         /\ args.absolute => IsAbsolute(env)
         /\ args.limit >= 1 => Length(env) < args.limit
<1>1. env \in Inputs /\ env # <<>>
  BY DEF EnvType, Usable, IsUnset
<1>2. args.absolute => IsAbsolute(env)
  BY DEF Usable, Relative
<1>3. Length(env) \in Nat /\ args.limit \in Nat
  BY <1>1, InputLength, ArgFacts DEF EnvType
<1>4. args.limit >= 1 => Length(env) < args.limit
  BY <1>3 DEF Usable, TooLong
<1> QED
  BY <1>1, <1>2, <1>4

(* What a path has become is not longer than it, and absolute if it was. *)
LEMMA HeldFacts ==
  ASSUME NEW p \in Inputs, Holds(p)
  PROVE  /\ path \in Seq(Tokens) /\ Length(path) \in Nat
         /\ Length(path) <= Length(p)
         /\ IsAbsolute(p) => IsAbsolute(path)
<1>1. CASE args.normalize
  <2>1. path \in Seq(Tokens) /\ input = p /\ Shorter
    BY <1>1 DEF Holds, NormInv, NormType
  <2>2. Length(path) \in Nat
    BY <2>1, LengthStep
  <2> QED
    BY <2>1, <2>2 DEF Shorter
<1>2. CASE ~ args.normalize
  <2>1. path = p
    BY <1>2 DEF Holds
  <2>2. path \in Seq(Tokens) /\ Length(path) \in Nat
    BY <2>1, InputLength
  <2>3. Length(path) <= Length(p)
    BY <2>1, <2>2
  <2> QED
    BY <2>1, <2>2, <2>3
<1> QED
  BY <1>1, <1>2

(* What has become of a path that fits, fits. *)
LEMMA HeldFits ==
  ASSUME NEW p \in Inputs, Holds(p), Fits(p), args \in Args
  PROVE  path \in Seq(Tokens) /\ InBuffer
<1>1. args.size \in Nat /\ Length(p) \in Nat
  BY ArgFacts, InputLength
<1>2. /\ path \in Seq(Tokens) /\ Length(path) \in Nat
      /\ Length(path) <= Length(p)
  BY HeldFacts
<1>3. Length(path) < args.size
  BY <1>1, <1>2 DEF Fits
<1> QED
  BY <1>2, <1>3 DEF InBuffer

(* What holds of a path that fits, of all paths. *)
WhatFitsStays ==
  \A p \in Inputs : Holds(p) /\ Fits(p) /\ args \in Args =>
    path \in Seq(Tokens) /\ InBuffer

(* HeldFits, of all paths. *)
LEMMA AllThatFits == WhatFitsStays
BY HeldFits DEF WhatFitsStays

(* HeldFits, after a step. *)
LEMMA HeldFitsNext ==
  ASSUME NEW p \in Inputs, Holds(p)', Fits(p)', args' \in Args
  PROVE  path' \in Seq(Tokens) /\ InBuffer'
<1>1. WhatFitsStays'
  BY AllThatFits, PTL
<1> QED
  BY <1>1 DEF WhatFitsStays

(* A path keeps what it has become in steps that leave normalizePath() alone. *)
LEMMA HeldStays ==
  ASSUME NEW p, Holds(p), UNCHANGED normVars, UNCHANGED args
  PROVE  Holds(p)'
<1>1. CASE args.normalize
  <2>1. UNCHANGED normVars
    BY DEF normVars, argVars
  <2>2. NormInv'
    BY <1>1, <2>1, NormStep DEF Holds
  <2> QED
    BY <1>1, <2>2 DEF Holds, normVars
<1>2. CASE ~ args.normalize
  BY <1>2 DEF Holds, normVars
<1> QED
  BY <1>1, <1>2

(* After a copy the buffer holds the path copied. *)
LEMMA CopiedHeld ==
  ASSUME NEW p \in Inputs, Copy(p), args \in Args, UNCHANGED args
  PROVE  Holds(p)'
<1>1. CASE args.normalize
  <2>1. args.remove \in BOOLEAN /\ Call(p, FALSE, args.remove)
    BY <1>1, ArgFacts DEF Copy
  <2>2. NormInv'
    BY <2>1, CallInv
  <2> QED
    BY <1>1, <2>1, <2>2 DEF Holds, Call
<1>2. CASE ~ args.normalize
  BY <1>2 DEF Holds, Copy
<1> QED
  BY <1>1, <1>2

(* normalizePath() goes on with the path it was given. *)
LEMMA NormalizedHeld ==
  ASSUME NEW p, Holds(p), Normalize
  PROVE  Holds(p)'
<1>1. args.normalize
  BY DEF Normalize, Normalizing, Holds
<1>2. NormInv'
  BY <1>1, NormStep DEF Normalize, Holds
<1>3. UNCHANGED <<input, keepEnd, removeDD>>
  BY DEF Normalize, NormNext, ReturnSpecial, Return, NothingToCollapse,
     Split, MallocFails, SkipName, RemoveDot, DoubleDotAtRoot,
     RemoveDoubleDot, CannotRemove, JoinNames, TrimEnds,
     Advance, argVars
<1> QED
  BY <1>1, <1>2, <1>3 DEF Normalize, Holds

(* When normalizePath() is not at work on a path it is over. *)
LEMMA NotNormalizing ==
  ASSUME NEW p, Holds(p), at \in {"fromEnv", "fromDefault"}, ~ Normalizing
  PROVE  Over
BY DEF Holds, Normalizing, Over, NormInv, NormType

(* What is left in the buffer after BecameNull is not empty. *)
LEMMA NotNull ==
  ASSUME NEW p, p # <<>>, Holds(p), ~ BecameNull
  PROVE  path # <<>>
BY DEF Holds, BecameNull

(* The invariant holds before the first step. *)
LEMMA EnvStart == Init => EnvInv
<1> SUFFICES ASSUME Init
             PROVE  EnvInv
  OBVIOUS
<1>1. <<>> \in Seq(Tokens)
  OBVIOUS
<1> QED
  BY <1>1 DEF Init, EnvInv, EnvType, InBuffer, Nothing, FromEnv, EnvFound, FromGiven,
     NoCodeYet, Answered

(* getPathFromEnv() returns without an answer from the variable, or its    *)
(* path was found.                                                         *)
LEMMA EnvReturnInv ==
  ASSUME EnvInv, NEW c \in {0, 1, -1}, FromEnvReturns(c), UNCHANGED normVars,
         at \in {"getenv", "fromEnv"},
         c = 1 => path = <<>>,
         c = 0 => at = "fromEnv" /\ path # <<>> /\ Over
  PROVE  EnvInv'
<1> USE DEF FromEnvReturns, Goto
<1>1. EnvType' /\ InBuffer'
  BY DEF EnvInv, EnvType, InBuffer, normVars
<1>2. Nothing'
  BY DEF Nothing, normVars
<1>3. FromEnv'
  <2> SUFFICES ASSUME c = 0
               PROVE  Usable' /\ Fits(env)' /\ Holds(env)'
    BY DEF FromEnv
  <2>1. Usable /\ Fits(env) /\ Holds(env)
    BY DEF EnvInv, FromEnv
  <2>2. Holds(env)'
    <3>1. PICK p : p = env
      OBVIOUS
    <3>2. Holds(p)'
      BY <2>1, <3>1, HeldStays
    <3> QED
      BY <3>1, <3>2 DEF Holds
  <2> QED
    BY <2>1, <2>2 DEF Usable, IsUnset, Relative, TooLong, Fits
<1>4. EnvFound' /\ FromGiven' /\ NoCodeYet'
  BY DEF EnvFound, FromGiven, NoCodeYet, Over, normVars
<1>5. Answered'
  BY DEF EnvInv, Answered
<1> QED
  BY <1>1, <1>2, <1>3, <1>4, <1>5 DEF EnvInv

(* A variable that cannot be used leaves the buffer empty. *)
LEMMA NotUsableInv == ASSUME EnvInv, NotUsable PROVE EnvInv'
<1>1. path = <<>>
  BY DEF EnvInv, Nothing, NotUsable
<1> QED
  BY <1>1, EnvReturnInv DEF NotUsable

(* So does one that does not fit. *)
LEMMA NoRoomInv == ASSUME EnvInv, NoRoom PROVE EnvInv'
BY EnvReturnInv DEF NoRoom

(* The copy of the variable is found, or has become empty and is not. *)
LEMMA FromEnvCopiedInv == ASSUME EnvInv, FromEnvCopied PROVE EnvInv'
<1>1. at = "fromEnv" /\ ~ Normalizing /\ UNCHANGED normVars
  BY DEF FromEnvCopied
<1>2. Usable /\ Holds(env) /\ EnvType
  BY <1>1 DEF EnvInv, FromEnv
<1>3. env # <<>>
  BY <1>2, UsableFacts
<1>4. Over
  BY <1>1, <1>2, NotNormalizing
<1>5. CASE BecameNull
  <2>1. FromEnvReturns(1) /\ path = <<>>
    BY <1>5 DEF FromEnvCopied, BecameNull
  <2> QED
    BY <1>1, <2>1, EnvReturnInv
<1>6. CASE ~ BecameNull
  <2>1. FromEnvReturns(0) /\ path # <<>>
    BY <1>2, <1>3, <1>6, NotNull DEF FromEnvCopied
  <2> QED
    BY <1>1, <1>4, <2>1, EnvReturnInv
<1> QED
  BY <1>5, <1>6

(* A copy of a path that fits, from the variable. *)
LEMMA CopyFromEnvInv == ASSUME EnvInv, CopyFromEnv PROVE EnvInv'
<1>1. /\ at = "getenv" /\ Usable /\ Fits(env) /\ Copy(env) /\ at' = "fromEnv"
      /\ UNCHANGED <<env, args, code, answer>>
  BY DEF CopyFromEnv, Goto
<1>2. EnvType /\ args \in Args /\ code = 1 /\ answer = Null
  BY <1>1 DEF EnvInv, EnvType, Nothing, Answered
<1>3. PICK p \in Inputs : p = env
  BY <1>1, <1>2, UsableFacts
<1>4. Holds(p)'
  BY <1>1, <1>2, <1>3, CopiedHeld
<1>5. Fits(p)'
  BY <1>1, <1>3 DEF Fits
<1>6. path' \in Seq(Tokens) /\ InBuffer'
  BY <1>1, <1>2, <1>4, <1>5, HeldFitsNext
<1>7. EnvType'
  BY <1>1, <1>2, <1>6 DEF EnvType
<1>8. FromEnv'
  <2>1. Holds(env)'
    BY <1>1, <1>3, <1>4 DEF Holds
  <2> QED
    BY <1>1, <2>1 DEF FromEnv, Usable, IsUnset, Relative, TooLong, Fits
<1>9. Nothing' /\ EnvFound' /\ FromGiven' /\ NoCodeYet' /\ Answered'
  BY <1>1, <1>2 DEF Nothing, EnvFound, FromGiven, NoCodeYet, Answered
<1> QED
  BY <1>6, <1>7, <1>8, <1>9 DEF EnvInv

(* A copy of the default, which fits. *)
LEMMA CopyDefaultInv == ASSUME EnvInv, CopyDefault PROVE EnvInv'
<1>1. /\ at = "default" /\ DefaultUsable /\ Copy(args.default) /\ at' = "fromDefault"
      /\ UNCHANGED <<env, args, code, answer>>
  BY DEF CopyDefault, Goto
<1>2. EnvType /\ args \in Args /\ code = 1 /\ answer = Null
  BY <1>1 DEF EnvInv, EnvType, Nothing, Answered
<1>3. PICK p \in Inputs : p = args.default
  BY <1>2, ArgFacts
<1>4. Holds(p)'
  BY <1>1, <1>2, <1>3, CopiedHeld
<1>5. Fits(p)'
  BY <1>1, <1>3 DEF Fits, DefaultUsable
<1>6. path' \in Seq(Tokens) /\ InBuffer'
  BY <1>1, <1>2, <1>4, <1>5, HeldFitsNext
<1>7. EnvType'
  BY <1>1, <1>2, <1>6 DEF EnvType
<1>8. FromGiven'
  <2>1. Holds(args.default)'
    BY <1>1, <1>3, <1>4 DEF Holds
  <2> QED
    BY <1>1, <2>1 DEF FromGiven, DefaultUsable, Fits
<1>9. Nothing' /\ EnvFound' /\ FromEnv' /\ NoCodeYet' /\ Answered'
  BY <1>1, <1>2 DEF Nothing, EnvFound, FromEnv, NoCodeYet, Answered
<1> QED
  BY <1>6, <1>7, <1>8, <1>9 DEF EnvInv

(* normalizePath() at work keeps what the buffer holds, and that it fits. *)
LEMMA NormalizeInv == ASSUME EnvInv, Normalize PROVE EnvInv'
<1>1. /\ at \in {"fromEnv", "fromDefault"} /\ Normalizing
      /\ UNCHANGED <<env, args, at, code, answer>>
  BY DEF Normalize, Normalizing
<1>2. EnvType /\ args \in Args /\ code = 1 /\ answer = Null
  BY <1>1 DEF EnvInv, EnvType, NoCodeYet, Answered
<1>3. PICK p \in Inputs :
        /\ Holds(p) /\ Fits(p)
        /\ at = "fromEnv" => Usable /\ p = env
        /\ at = "fromDefault" => DefaultUsable /\ p = args.default
  <2>1. CASE at = "fromEnv"
    BY <1>2, <2>1, UsableFacts DEF EnvInv, FromEnv
  <2>2. CASE at = "fromDefault"
    BY <1>2, <2>2, ArgFacts DEF EnvInv, FromGiven, DefaultUsable
  <2> QED
    BY <1>1, <2>1, <2>2
<1>4. Holds(p)'
  BY <1>3, NormalizedHeld
<1>5. path' \in Seq(Tokens) /\ InBuffer'
  <2>1. Fits(p)'
    BY <1>1, <1>3 DEF Fits
  <2> QED
    BY <1>1, <1>2, <1>4, <2>1, HeldFitsNext
<1>6. EnvType'
  BY <1>1, <1>2, <1>5 DEF EnvType
<1>7. FromEnv'
  <2> SUFFICES ASSUME at = "fromEnv"
               PROVE  Usable' /\ Fits(env)' /\ Holds(env)'
    BY <1>1 DEF FromEnv
  <2>1. Holds(env)'
    BY <1>1, <1>3, <1>4 DEF Holds
  <2> QED
    BY <1>1, <1>3, <2>1 DEF Usable, IsUnset, Relative, TooLong, Fits
<1>8. FromGiven'
  <2> SUFFICES ASSUME at = "fromDefault"
               PROVE  DefaultUsable' /\ Holds(args.default)'
    BY <1>1 DEF FromGiven
  <2>1. Holds(args.default)'
    BY <1>1, <1>3, <1>4 DEF Holds
  <2> QED
    BY <1>1, <1>3, <2>1 DEF DefaultUsable, Fits
<1>9. Nothing' /\ EnvFound' /\ NoCodeYet' /\ Answered'
  BY <1>1, <1>2 DEF Nothing, EnvFound, NoCodeYet, Answered
<1> QED
  BY <1>5, <1>6, <1>7, <1>8, <1>9 DEF EnvInv

(* getPathFromEnvOrDefault() answers what is in the buffer, or NULL. *)
LEMMA AnswerInv ==
  ASSUME EnvInv, NEW a, Answer(a),
         a # Null =>
           /\ a = path /\ path # <<>> /\ Over
           /\ Source \in Inputs /\ Holds(Source)
           /\ args.absolute => IsAbsolute(Source)
  PROVE  EnvInv'
<1> USE DEF Answer, Goto
<1>1. EnvType' /\ InBuffer'
  BY DEF EnvInv, EnvType, InBuffer, normVars
<1>2. Nothing' /\ FromEnv' /\ EnvFound' /\ FromGiven' /\ NoCodeYet'
  BY DEF Nothing, FromEnv, EnvFound, FromGiven, NoCodeYet
<1>3. Answered'
  <2> SUFFICES ASSUME a # Null
               PROVE  /\ a = path /\ path # <<>> /\ Over
                      /\ Source \in Inputs /\ Holds(Source)'
                      /\ args.absolute => IsAbsolute(Source)
    BY DEF Answered, Over, Source, normVars, Holds
  <2>1. PICK p : p = Source
    OBVIOUS
  <2>2. Holds(p)'
    BY <2>1, HeldStays
  <2>3. Source' = p
    BY <2>1 DEF Source
  <2> QED
    BY <2>2, <2>3 DEF Holds
<1> QED
  BY <1>1, <1>2, <1>3 DEF EnvInv

(* The answer is the path of the variable. *)
LEMMA AnswerFoundInv == ASSUME EnvInv, AnswerFound PROVE EnvInv'
<1>1. at = "found" /\ Answer(path)
  BY DEF AnswerFound
<1>2. /\ Usable /\ Holds(env) /\ EnvType
      /\ code = 0 /\ path # <<>> /\ Over
  BY <1>1 DEF EnvInv, FromEnv, EnvFound
<1>3. Source = env
  BY <1>2 DEF Source
<1>4. env \in Inputs /\ (args.absolute => IsAbsolute(env))
  BY <1>2, UsableFacts
<1>5. Source \in Inputs /\ Holds(Source) /\ (args.absolute => IsAbsolute(Source))
  BY <1>2, <1>3, <1>4
<1> QED
  BY <1>1, <1>2, <1>5, AnswerInv

(* The answer is the default, or NULL. *)
LEMMA AnswerDefaultInv == ASSUME EnvInv, AnswerDefault PROVE EnvInv'
<1>1. /\ at = "fromDefault" /\ ~ Normalizing
      /\ Answer(IF BecameNull \/ args.denied THEN Null ELSE path)
  BY DEF AnswerDefault
<1>2. DefaultUsable /\ Holds(args.default) /\ code = 1 /\ EnvType
  BY <1>1 DEF EnvInv, FromGiven, NoCodeYet
<1>3. Source = args.default
  BY <1>2 DEF Source
<1>4. Source \in Inputs /\ IsAbsolute(Source) /\ Source # <<>>
  BY <1>2, <1>3, ArgFacts DEF EnvType, DefaultUsable, IsAbsolute
<1>5. Holds(Source) /\ Over
  BY <1>1, <1>2, <1>3, NotNormalizing
<1>6. ~ BecameNull => path # <<>>
  BY <1>4, <1>5, NotNull
<1>7. PICK a : a = IF BecameNull \/ args.denied THEN Null ELSE path
  OBVIOUS
<1>8. a # Null => a = path /\ ~ BecameNull
  BY <1>7
<1> QED
  BY <1>1, <1>4, <1>5, <1>6, <1>7, <1>8, AnswerInv

(* Every step of the two functions keeps the invariant. *)
LEMMA EnvStep ==
  ASSUME EnvInv, [Next]_vars
  PROVE  EnvInv'
<1>1. CASE UNCHANGED vars
  <2>1. UNCHANGED normVars /\ UNCHANGED <<env, args, at, code, answer>>
    BY <1>1 DEF vars
  <2>2. EnvType' /\ InBuffer' /\ Nothing' /\ EnvFound' /\ NoCodeYet'
    BY <2>1 DEF EnvInv, EnvType, InBuffer, Nothing, EnvFound, NoCodeYet, Over, normVars
  <2>3. PICK p : p = env
    OBVIOUS
  <2>4. PICK d : d = args.default
    OBVIOUS
  <2>5. PICK s : s = Source
    OBVIOUS
  <2>6. \A q \in {p, d, s} : Holds(q) => Holds(q)'
    BY <2>1, HeldStays
  <2>7. env' = p /\ args'.default = d /\ Source' = s
    BY <2>1, <2>3, <2>4, <2>5 DEF Source
  <2>8. (Holds(env) => Holds(env)') /\ (Holds(args.default) => Holds(args.default)')
        /\ (Holds(Source) => Holds(Source)')
    BY <2>3, <2>4, <2>5, <2>6, <2>7 DEF Holds
  <2>9. FromEnv' /\ FromGiven'
    BY <2>1, <2>8 DEF EnvInv, FromEnv, FromGiven, Usable, IsUnset, Relative, TooLong,
       Fits, DefaultUsable
  <2>10. Answered'
    BY <2>1, <2>5, <2>7, <2>8 DEF EnvInv, Answered, Over, normVars
  <2> QED
    BY <2>2, <2>9, <2>10 DEF EnvInv
<1>2. CASE DefaultNotUsable
  BY <1>2, AnswerInv DEF DefaultNotUsable
<1> QED
  BY <1>1, <1>2, NotUsableInv, NoRoomInv, CopyFromEnvInv, FromEnvCopiedInv, NormalizeInv,
     AnswerFoundInv, CopyDefaultInv, AnswerDefaultInv
  DEF Next

(* The invariant of the two functions holds in every run of them. *)
THEOREM EnvCorrect == Spec => []EnvInv
<1>1. EnvInv /\ [Next]_vars => EnvInv'
  BY EnvStep
<1> QED
  BY <1>1, EnvStart, PTL DEF Spec

(* What getPathFromEnv() and normalizePath() put into the buffer of the    *)
(* caller fits in it with its NUL, and a path found in the variable is     *)
(* shorter than the maximum, for every path and every size.                *)
THEOREM BufferHoldsPath == Spec => []FitsInBuffer
<1>1. ASSUME EnvInv
      PROVE  FitsInBuffer
  <2>1. at = "found" /\ args.limit >= 1 => Length(path) < args.limit
    <3> SUFFICES ASSUME at = "found", args.limit >= 1
                 PROVE  Length(path) < args.limit
      OBVIOUS
    <3>1. EnvType /\ Usable /\ Holds(env)
      BY <1>1 DEF EnvInv, FromEnv
    <3>2. env \in Inputs /\ Length(env) < args.limit
      BY <3>1, UsableFacts
    <3>3. /\ Length(path) \in Nat /\ Length(env) \in Nat /\ args.limit \in Nat
          /\ Length(path) <= Length(env)
      BY <3>1, <3>2, HeldFacts, InputLength, ArgFacts DEF EnvType
    <3> QED
      BY <3>2, <3>3
  <2> QED
    BY <1>1, <2>1 DEF FitsInBuffer, EnvInv, InBuffer
<1> QED
  BY <1>1, EnvCorrect, PTL

(* No answer is an empty path, and one that is to be absolute is: also     *)
(* after a malloc() that failed, and for paths that start with "/~".       *)
THEOREM AnswerIsAPath == Spec => []AnswerIsPath
<1>1. ASSUME EnvInv
      PROVE  AnswerIsPath
  <2> SUFFICES ASSUME answer # Null
               PROVE  answer # <<>> /\ (args.absolute => IsAbsolute(answer))
    BY DEF AnswerIsPath
  <2>1. PICK s \in Inputs : s = Source /\ Holds(s) /\ (args.absolute => IsAbsolute(s))
    BY <1>1 DEF EnvInv, Answered
  <2>2. IsAbsolute(s) => IsAbsolute(path)
    BY <2>1, HeldFacts
  <2> QED
    BY <1>1, <2>1, <2>2 DEF EnvInv, Answered
<1> QED
  BY <1>1, EnvCorrect, PTL

(* The callers that ask for an absolute path without ".." get the normal   *)
(* form of the path of the variable, or of the default, if there was       *)
(* memory for it, although the pointer normalizePath() returns is never    *)
(* looked at: for every path that does not start with "/~".                *)
THEOREM AnswerIsNormalForm ==
  ASSUME NoRootedTilde
  PROVE  Spec => []AnswerIsNormal
<1>1. ASSUME EnvInv
      PROVE  AnswerIsNormal
  <2> SUFFICES ASSUME answer # Null, args.absolute, args.normalize, args.remove,
                      pc # "nomemory"
               PROVE  input = Source /\ answer = Expected
    BY DEF AnswerIsNormal
  <2>1. /\ answer = path /\ Over /\ Source \in Inputs /\ Holds(Source)
        /\ IsAbsolute(Source)
    BY <1>1 DEF EnvInv, Answered
  <2>2. NormInv /\ input = Source /\ removeDD
    BY <2>1 DEF Holds
  <2>3. pc = "done" /\ ~ RootedTilde(input)
    BY <2>1, <2>2 DEF Over, NormInv, NormType, NoRootedTilde
  <2>4. result = path /\ result = Expected
    BY <2>1, <2>2, <2>3 DEF NormInv, DoneInv, Asked
  <2> QED
    BY <2>1, <2>2, <2>4
<1> QED
  BY <1>1, EnvCorrect, PTL

-----------------------------------------------------------------------------
(* normalizePath() implements the walk of PathWalk.                        *)

StackLeft == Kept(SubSeq(ix, 1, i - 1))

(* What is left of a sequence from a position on, and after it. *)
LEMMA RestOf ==
  ASSUME NEW T, NEW s \in Seq(T), NEW n \in 1..Len(s),
         NEW r \in Seq(T), Len(r) = Len(s), \A k \in (n + 1)..Len(s) : r[k] = s[k]
  PROVE  /\ SubSeq(s, n, Len(s)) # <<>> /\ Head(SubSeq(s, n, Len(s))) = s[n]
         /\ Tail(SubSeq(s, n, Len(s))) = SubSeq(r, n + 1, Len(r))
<1>1. PICK a \in Nat : a = Len(s) /\ a = Len(r)
  BY LenProperties
<1>2. PICK c \in Nat : n \in Nat /\ c = a - n /\ a = n + c /\ n >= 1
  BY <1>1
<1>3. \A k \in 1..a : s[k] \in T /\ r[k] \in T
  BY <1>1, ElementOfSeq
<1>4. PICK u \in Seq(T) :
        /\ u = SubSeq(s, n, a) /\ Len(u) = c + 1
        /\ \A k \in 1..(c + 1) : u[k] = s[n + k - 1]
  <2>1. \A k \in n..a : s[k] \in T
    BY <1>2, <1>3
  <2>2. PICK u : u = SubSeq(s, n, a)
    OBVIOUS
  <2>3. /\ u \in Seq(T) /\ Len(u) = IF n <= a THEN a - n + 1 ELSE 0
        /\ \A k \in 1..(a - n + 1) : u[k] = s[n + k - 1]
    BY SMTT(30), <1>2, <2>1, <2>2, SubSeqProperties
  <2>4. n <= a /\ a - n + 1 = c + 1
    BY <1>2
  <2>5. Len(u) = c + 1 /\ \A k \in 1..(c + 1) : u[k] = s[n + k - 1]
    BY <2>3, <2>4
  <2> QED
    BY <2>2, <2>3, <2>5
<1>5. PICK v \in Seq(T) :
        /\ v = SubSeq(r, n + 1, a) /\ Len(v) = c
        /\ \A k \in 1..c : v[k] = r[n + 1 + k - 1]
  <2>1. \A k \in (n + 1)..a : r[k] \in T
    BY <1>2, <1>3
  <2>2. PICK v : v = SubSeq(r, n + 1, a)
    OBVIOUS
  <2>3. /\ v \in Seq(T) /\ Len(v) = IF n + 1 <= a THEN a - (n + 1) + 1 ELSE 0
        /\ \A k \in 1..(a - (n + 1) + 1) : v[k] = r[n + 1 + k - 1]
    BY <1>2, <2>1, <2>2, SubSeqProperties
  <2>4. a - (n + 1) + 1 = c /\ (IF n + 1 <= a THEN c ELSE 0) = c
    BY <1>2
  <2>5. Len(v) = c /\ \A k \in 1..c : v[k] = r[n + 1 + k - 1]
    BY <2>3, <2>4
  <2> QED
    BY <2>2, <2>3, <2>5
<1>6. Len(u) # 0 /\ Len(u) - 1 = c
  BY <1>4
<1>7. u # <<>>
  BY <1>6, EmptySeq
<1>8. Head(u) = s[n]
  <2>1. Head(u) = u[1] /\ n + 1 - 1 = n /\ 1 \in 1..(c + 1)
    BY <1>2, <1>7
  <2> QED
    BY <1>4, <2>1
<1>9. Tail(u) = v
  <2>1. PICK w : w = Tail(u)
    OBVIOUS
  <2>2. w \in Seq(T) /\ Len(w) = Len(u) - 1 /\ \A k \in 1..Len(w) : w[k] = u[k + 1]
    BY <1>7, <2>1, HeadTailProperties
  <2>3. Len(w) = c
    BY <1>6, <2>2
  <2>4. \A k \in 1..c : w[k] = v[k]
    <3> TAKE k \in 1..c
    <3>1. k + 1 \in 1..(c + 1) /\ n + k \in (n + 1)..a
      BY <1>2
    <3>2. w[k] = u[k + 1] /\ u[k + 1] = s[n + (k + 1) - 1]
      BY <1>4, <2>2, <2>3, <3>1
    <3>3. n + (k + 1) - 1 = n + k /\ n + 1 + k - 1 = n + k
      BY <1>2
    <3>4. v[k] = r[n + k] /\ r[n + k] = s[n + k]
      BY <1>1, <1>5, <3>1, <3>3
    <3> QED
      BY <3>2, <3>3, <3>4
  <2>5. Len(w) = Len(v) /\ \A k \in 1..Len(w) : w[k] = v[k]
    BY <1>5, <2>3, <2>4
  <2>6. w = v
    BY <2>2, <2>5, SeqEqual
  <2> QED
    BY <2>1, <2>6
<1> QED
  BY <1>1, <1>4, <1>5, <1>7, <1>8, <1>9

(* A step that leaves the index array and the position in it alone is a    *)
(* stutter of the walk.                                                    *)
LEMMA WalkRests ==
  ASSUME input \in Inputs, ArgsStay, UNCHANGED <<ix, i>>, ~ Lost, ~ Lost'
  PROVE  UNCHANGED Walk!walkVars
<1>1. Floor' = Floor
  BY Frozen DEF ArgsStay
<1>2. WalkTodo' = WalkTodo
  BY DEF ArgsStay, WalkTodo
<1>3. StackLeft' = StackLeft
  BY DEF StackLeft
<1>4. (IsAbsolute(input))' = IsAbsolute(input) /\ removeDD' = removeDD
  BY DEF ArgsStay
<1>5. Lost' = Lost
  BY DEF Lost
<1> QED
  BY <1>1, <1>2, <1>3, <1>4, <1>5 DEF Walk!walkVars, StackLeft

(* A step of the loop takes the first of the names to walk. *)
LEMMA WalkTakes ==
  ASSUME NormInv, AtName, NEW s \in Seq(Entries), Advance(s),
         Len(s) = Len(ix), \A k \in (i + 1)..Len(ix) : s[k] = ix[k]
  PROVE  /\ Walk!Take /\ Head(WalkTodo) = ix[i]
         /\ StackLeft = Left(ix, i - 1) /\ StackLeft' = Left(s, i)
         /\ ~ Lost /\ ~ Lost'
         /\ Left(ix, i - 1) \in Seq(Names)
<1>1. /\ input \in Inputs /\ pc = "loop" /\ i \in 1..Len(ix) /\ Len(ix) \in Nat
      /\ ix \in Seq(Entries) /\ Left(ix, i - 1) \in Seq(Names)
  BY InLoop
<1>2. pc' = "loop" /\ ix' = s /\ i' = i + 1 /\ ArgsStay
  BY <1>1 DEF Advance, argVars, ArgsStay
<1>3. ~ Lost /\ ~ Lost'
  BY <1>1, <1>2 DEF Lost
<1>4. WalkTodo = SubSeq(ix, i, Len(ix))
  BY <1>1, <1>3 DEF WalkTodo
<1>5. WalkTodo' = SubSeq(s, i + 1, Len(s))
  <2>1. i' # 0 /\ ~ Lost'
    BY <1>1, <1>2, <1>3
  <2>2. WalkTodo' = SubSeq(ix', i', Len(ix'))
    BY <2>1 DEF WalkTodo
  <2> QED
    BY <1>2, <2>2
<1>6. /\ WalkTodo # <<>> /\ Head(WalkTodo) = ix[i]
      /\ WalkTodo' = Tail(WalkTodo)
  BY ZenonT(40), <1>1, <1>4, <1>5, RestOf
<1>7. StackLeft = Left(ix, i - 1) /\ StackLeft' = Left(s, i)
  <2>1. (i + 1) - 1 = i
    BY <1>1
  <2>2. StackLeft' = Kept(SubSeq(s, 1, (i + 1) - 1))
    BY <1>2 DEF StackLeft
  <2> QED
    BY <2>1, <2>2 DEF StackLeft, Left, Upto
<1>8. Floor' = Floor /\ removeDD' = removeDD
      /\ (IsAbsolute(input))' = IsAbsolute(input)
  BY <1>1, <1>2, Frozen DEF ArgsStay
<1>9. Walk!Take
  BY <1>6, <1>8 DEF Walk!Take
<1> QED
  BY <1>1, <1>3, <1>6, <1>7, <1>9

(* A name that is left is a step down of the walk. *)
LEMMA SkipWalks ==
  ASSUME NormInv, SkipName
  PROVE  Walk!Down
<1>1. /\ AtName /\ Advance(ix) /\ ix[i] # Dot /\ (ix[i] = DotDot => ~ removeDD)
  BY DEF SkipName
<1>2. /\ ix \in Seq(Entries) /\ i \in 1..Len(ix) /\ ix[i] \in Names
  BY <1>1, InLoop
<1>3. /\ Walk!Take /\ Head(WalkTodo) = ix[i]
      /\ StackLeft = Left(ix, i - 1) /\ StackLeft' = Left(ix, i)
      /\ ~ Lost /\ ~ Lost'
  BY <1>1, <1>2, WalkTakes
<1>4. Left(ix, i) = Append(Left(ix, i - 1), ix[i])
  <2>1. ix[i] # Gone
    BY <1>2, TokenFacts
  <2> QED
    BY <1>2, <2>1, LeftStep
<1>5. StackLeft' = Append(StackLeft, Head(WalkTodo))
  BY <1>3, <1>4
<1>6. Lost' = Lost
  BY <1>3 DEF Lost
<1> QED
  BY <1>1, <1>3, <1>5, <1>6 DEF Walk!Down, Walk!GoesUp, StackLeft

(* Clearing entry i is a step that stays where the walk is. *)
LEMMA ClearWalks ==
  ASSUME NormInv, AtName, Advance([ix EXCEPT ![i] = Gone])
  PROVE  /\ Walk!Take /\ Head(WalkTodo) = ix[i]
         /\ StackLeft = Left(ix, i - 1) /\ StackLeft' = StackLeft
         /\ Lost' = Lost
<1>1. PICK s \in Seq(Entries) :
        /\ s = [ix EXCEPT ![i] = Gone] /\ Len(s) = Len(ix)
        /\ \A k \in 1..Len(ix) : s[k] = IF k = i THEN Gone ELSE ix[k]
        /\ Left(s, i) = Left(ix, i - 1)
  BY ClearLeft
<1>2. i \in 1..Len(ix) /\ Len(ix) \in Nat
  BY InLoop
<1>3. \A k \in (i + 1)..Len(ix) : s[k] = ix[k]
  BY <1>1, <1>2
<1>4. /\ Walk!Take /\ Head(WalkTodo) = ix[i]
      /\ StackLeft = Left(ix, i - 1) /\ StackLeft' = Left(s, i)
      /\ ~ Lost /\ ~ Lost'
  BY <1>1, <1>3, WalkTakes
<1>5. Lost' = Lost
  BY <1>4 DEF Lost
<1> QED
  BY <1>1, <1>4, <1>5

(* A "." that is cleared is a step of the walk that stays. *)
LEMMA DotWalks ==
  ASSUME NormInv, RemoveDot
  PROVE  Walk!Stay
<1>1. AtName /\ ix[i] = Dot /\ Advance([ix EXCEPT ![i] = Gone])
  BY DEF RemoveDot
<1> QED
  BY <1>1, ClearWalks DEF Walk!Stay, StackLeft

(* A ".." that is cleared at the root is a step of the walk that stays at  *)
(* the root.                                                               *)
LEMMA AtRootWalks ==
  ASSUME NormInv, DoubleDotAtRoot
  PROVE  Walk!UpFromRoot
<1>1. /\ AtName /\ ix[i] = DotDot /\ removeDD /\ Above = {}
      /\ IsAbsolute(path) /\ Advance([ix EXCEPT ![i] = Gone])
  BY DEF DoubleDotAtRoot, AtDoubleDot
<1>2. /\ ix \in Seq(Entries) /\ i - 1 \in 0..Len(ix) /\ IsAbsolute(input)
  BY <1>1, InLoop
<1>3. Left(ix, i - 1) = <<>>
  BY <1>1, <1>2, LastLeft DEF Above
<1>4. /\ Walk!Take /\ Head(WalkTodo) = DotDot
      /\ StackLeft = <<>> /\ StackLeft' = StackLeft /\ Lost' = Lost
  BY <1>1, <1>3, ClearWalks
<1> QED
  BY <1>1, <1>2, <1>4 DEF Walk!UpFromRoot, Walk!GoesUp, StackLeft

(* A ".." that is cleared with the name above it is a step up. *)
LEMMA DoubleDotWalks ==
  ASSUME NormInv, RemoveDoubleDot
  PROVE  Walk!Up
<1>1. PICK j : j = Max(Above)
  OBVIOUS
<1>2. /\ AtName /\ ix[i] = DotDot /\ removeDD /\ Above # {}
      /\ Max(Above) = j
  BY <1>1, AboveFacts DEF RemoveDoubleDot, AtDoubleDot
<1>3. /\ ~ (j = 1 /\ ix[j] \in TildeNames)
      /\ Advance([ix EXCEPT ![i] = Gone, ![j] = Gone])
  BY <1>2 DEF RemoveDoubleDot
<1>4. LET s == [ix EXCEPT ![i] = Gone, ![j] = Gone]
      IN  /\ j \in 1..(i - 1)
          /\ s \in Seq(Entries) /\ Len(s) = Len(ix)
          /\ \A k \in 1..Len(ix) : s[k] = IF k = i \/ k = j THEN Gone ELSE ix[k]
          /\ Left(s, i) = DropEnd(Left(ix, i - 1))
          /\ Len(Left(ix, i - 1)) > Floor
          /\ Floor = 1 => ix[1] = TheNames[1] /\ j # 1
  BY <1>1, <1>2, <1>3, ClearAbove
<1>5. PICK s : s = [ix EXCEPT ![i] = Gone, ![j] = Gone]
  OBVIOUS
<1>6. i \in 1..Len(ix) /\ Len(ix) \in Nat /\ s \in Seq(Entries) /\ Len(s) = Len(ix)
      /\ Advance(s)
  BY <1>2, <1>3, <1>4, <1>5, InLoop
<1>7. \A k \in (i + 1)..Len(ix) : s[k] = ix[k]
  BY <1>4, <1>5, <1>6
<1>8. /\ Walk!Take /\ Head(WalkTodo) = ix[i]
      /\ StackLeft = Left(ix, i - 1) /\ StackLeft' = Left(s, i)
      /\ ~ Lost /\ ~ Lost'
  BY <1>2, <1>6, <1>7, WalkTakes
<1>9. /\ StackLeft' = SubSeq(StackLeft, 1, Len(StackLeft) - 1)
      /\ Len(StackLeft) > Floor
  BY <1>4, <1>5, <1>8 DEF DropEnd
<1>10. Lost' = Lost
  BY <1>8 DEF Lost
<1> QED
  BY <1>2, <1>8, <1>9, <1>10 DEF Walk!Up, Walk!GoesUp, StackLeft

(* Where a ".." cannot be removed the walk loses the way. *)
LEMMA CannotRemoveWalks ==
  ASSUME NoRootedTilde, NormInv, CannotRemove
  PROVE  Walk!GetLost
<1>1. /\ AtName /\ ix[i] = DotDot /\ removeDD
      /\ pc' = "done" /\ ix' = ix /\ i' = i /\ ArgsStay
  BY DEF CannotRemove, AtDoubleDot, Return, argVars, ArgsStay
<1>2. /\ input \in Inputs /\ pc = "loop" /\ i \in 1..Len(ix) /\ Len(ix) \in Nat
      /\ ix \in Seq(Entries) /\ Left(ix, i - 1) \in Seq(Names)
  BY <1>1, InLoop
<1>3. ~ IsAbsolute(input)
  BY <1>2, AtFloor DEF NoRootedTilde
<1>4. Len(StackLeft) <= Floor
  <2>1. PICK h \in Seq(Names) : h = Left(ix, i - 1) /\ Len(h) \in Nat
    BY <1>2, LenProperties
  <2>2. ~ (Len(h) > Floor) /\ Floor \in {0, 1}
    BY <1>3, <2>1, AtFloor, FloorIs
  <2>3. StackLeft = h
    BY <2>1 DEF StackLeft, Left, Upto
  <2> QED
    BY <2>1, <2>2, <2>3
<1>5. ~ Lost /\ Lost'
  BY <1>1, <1>2 DEF Lost
<1>6. WalkTodo # <<>> /\ Head(WalkTodo) = ix[i]
  <2>1. WalkTodo = SubSeq(ix, i, Len(ix))
    BY <1>2, <1>5 DEF WalkTodo
  <2> QED
    BY <1>2, <2>1, RestOf
<1>7. WalkTodo' = <<>>
  BY <1>5 DEF WalkTodo
<1>8. StackLeft' = StackLeft
  BY <1>1 DEF StackLeft
<1>9. Floor' = Floor /\ removeDD' = removeDD
      /\ (IsAbsolute(input))' = IsAbsolute(input)
  BY <1>1, <1>2, Frozen DEF ArgsStay
<1> QED
  BY <1>1, <1>3, <1>4, <1>5, <1>6, <1>7, <1>8, <1>9
  DEF Walk!GetLost, Walk!GoesUp, StackLeft

(* Splitting a path into its names is no step of the walk over them. *)
LEMMA SplitWalks ==
  ASSUME NormInv, Split
  PROVE  UNCHANGED Walk!walkVars
<1>1. /\ input \in Inputs /\ Once = OnceOf /\ ix = <<>> /\ i = 0 /\ pc = "start"
  BY AtStart DEF Split
<1>2. TheNames \in Seq(Names) /\ NamesOf(OnceOf) = TheNames
  BY <1>1, GivenFacts
<1>3. ArgsStay /\ pc' = "loop" /\ ix' = TheNames /\ i' = 1
  BY <1>1, <1>2 DEF Split, argVars, ArgsStay
<1>4. ~ Lost /\ ~ Lost'
  BY <1>1, <1>3 DEF Lost
<1>5. WalkTodo' = WalkTodo
  <2>1. WalkTodo = TheNames
    BY <1>1, <1>4 DEF WalkTodo, TheNames
  <2>2. i' # 0
    BY <1>3
  <2>3. WalkTodo' = SubSeq(ix', i', Len(ix'))
    BY <1>4, <2>2 DEF WalkTodo
  <2>4. SubSeq(TheNames, 1, Len(TheNames)) = TheNames
    BY <1>2, SubSeqFull
  <2> QED
    BY <1>3, <2>1, <2>3, <2>4
<1>6. StackLeft' = StackLeft
  <2>1. SubSeq(ix, 1, i - 1) = <<>>
    <3>1. i - 1 = -1
      BY <1>1
    <3>2. SubSeq(<<>>, 1, -1) = <<>>
      BY SubSeqEmpty
    <3> QED
      BY <1>1, <3>1, <3>2
  <2>2. SubSeq(ix, 1, i - 1)' = <<>>
    <3>1. SubSeq(TheNames, 1, 0) = <<>>
      BY SubSeqEmpty
    <3>2. i' - 1 = 0
      BY <1>3
    <3> QED
      BY <1>3, <3>1, <3>2
  <2> QED
    BY <2>1, <2>2 DEF StackLeft
<1>7. Floor' = Floor /\ removeDD' = removeDD
      /\ (IsAbsolute(input))' = IsAbsolute(input)
  BY <1>1, <1>3, Frozen DEF ArgsStay
<1>8. Lost' = Lost
  BY <1>4 DEF Lost
<1> QED
  BY <1>5, <1>6, <1>7, <1>8 DEF Walk!walkVars, StackLeft

(* The walk starts with the names of the path. *)
LEMMA WalkStarts == NormInit => Walk!Init
<1> SUFFICES ASSUME NormInit
             PROVE  Walk!Init
  OBVIOUS
<1>1. /\ input \in Inputs /\ removeDD \in BOOLEAN /\ pc = "start" /\ ix = <<>> /\ i = 0
  BY DEF NormInit
<1>2. TheNames \in Seq(Names)
  BY <1>1, GivenFacts
<1>3. ~ Lost /\ Lost = FALSE
  BY <1>1 DEF Lost
<1>4. WalkTodo = TheNames
  BY <1>1, <1>3 DEF WalkTodo, TheNames
<1>5. StackLeft = <<>>
  <2>1. i - 1 = -1
    BY <1>1
  <2>2. SubSeq(<<>>, 1, -1) = <<>>
    BY SubSeqEmpty
  <2> QED
    BY <1>1, <2>1, <2>2, KeptStep DEF StackLeft
<1>6. IsAbsolute(input) \in BOOLEAN
  BY DEF IsAbsolute
<1>7. Walk!Names = Names
  BY DEF Walk!Names, Names
<1>8. Floor = IF Walk!StartsAtHome(IsAbsolute(input), TheNames) THEN 1 ELSE 0
  BY DEF Floor, Walk!StartsAtHome, TheNames
<1> QED
  BY <1>1, <1>2, <1>3, <1>4, <1>5, <1>6, <1>7, <1>8 DEF Walk!Init, StackLeft

(* A step that is not of the loop is no step of the walk. *)
LEMMA OthersRest ==
  ASSUME NormInv,
         \/ ReturnSpecial \/ NothingToCollapse \/ MallocFails
         \/ JoinNames \/ TrimEnds \/ UNCHANGED normVars
  PROVE  UNCHANGED Walk!walkVars
<1>1. input \in Inputs
  BY DEF NormInv, NormType
<1>2. ArgsStay /\ ix' = ix /\ i' = i
  BY DEF ReturnSpecial, NothingToCollapse, MallocFails, JoinNames,
     TrimEnds, Return, normVars, argVars, ArgsStay
<1>3. CASE UNCHANGED normVars
  <2>1. /\ Floor' = Floor /\ StackLeft' = StackLeft
        /\ (IsAbsolute(input))' = IsAbsolute(input) /\ removeDD' = removeDD
    BY <1>1, <1>2, Frozen DEF ArgsStay, StackLeft
  <2>2. Lost' = Lost /\ WalkTodo' = WalkTodo
    BY <1>3 DEF normVars, argVars, Lost, WalkTodo
  <2> QED
    BY <2>1, <2>2 DEF Walk!walkVars, StackLeft
<1>4. CASE ReturnSpecial \/ NothingToCollapse \/ MallocFails
  <2>1. pc = "start"
    BY <1>4 DEF ReturnSpecial, NothingToCollapse, MallocFails
  <2>2. i = 0
    BY <2>1, AtStart
  <2>3. ~ Lost /\ ~ Lost'
    BY <1>2, <2>2 DEF Lost
  <2> QED
    BY <1>1, <1>2, <2>3, WalkRests
<1>5. CASE JoinNames
  <2>1. ~ Lost /\ ~ Lost'
    BY <1>5 DEF JoinNames, Lost
  <2> QED
    BY <1>1, <1>2, <2>1, WalkRests
<1>6. CASE TrimEnds
  <2>1. pc = "ends" /\ i \notin 1..Len(ix)
    BY <1>6 DEF TrimEnds, NormInv, EndsInv
  <2>2. ~ Lost /\ ~ Lost'
    BY <1>2, <2>1 DEF Lost
  <2> QED
    BY <1>1, <1>2, <2>2, WalkRests
<1> QED
  BY <1>3, <1>4, <1>5, <1>6

(* The loop over the index array, which clears entries of names and looks  *)
(* back over the cleared ones, is the walk with a stack of PathWalk, for   *)
(* every path that does not start with "/~".                               *)
THEOREM LoopIsWalk ==
  ASSUME NoRootedTilde
  PROVE  NormSpec => ImplementsWalk
<1>1. NormInv /\ [NormNext]_(normVars) => [Walk!Next]_(Walk!walkVars)
  BY SkipWalks, DotWalks, AtRootWalks, DoubleDotWalks, CannotRemoveWalks, SplitWalks, OthersRest
  DEF NormNext, Walk!Next
<1> QED
  BY <1>1, NormCorrect, WalkStarts, PTL DEF NormSpec, ImplementsWalk, Walk!Spec

=============================================================================
