----------------------------- MODULE Target_proofs -----------------------------
(***************************************************************************)
(* What Target computes, for paths, servers and locations of any length.   *)
(* Its operators are folds over sequences: a lemma gives induction over    *)
(* the natural numbers for sets of them, and another that a fold is what   *)
(* its steps make of it.                                                   *)
(***************************************************************************)
EXTENDS Target, NaturalsInduction, WellFoundedInduction, TLAPS

-----------------------------------------------------------------------------
(* Induction and folds. *)

(* A set of numbers that has 0, and the next of each that it has, has all. *)
LEMMA SetInduction ==
    ASSUME NEW S \in SUBSET Nat, 0 \in S, \A n \in S : n + 1 \in S
    PROVE  S = Nat
<1> SUFFICES ASSUME S # Nat PROVE FALSE
  OBVIOUS
<1> DEFINE T == Nat \ S
           R == OpToRel(<, Nat)
<1>1. T \subseteq Nat /\ T # {}
  OBVIOUS
<1>2. IsWellFoundedOn(R, Nat)
  BY NatLessThanWellFounded
<1> HIDE DEF T, R
<1>3. PICK x \in T : \A y \in T : ~ (<< y, x >> \in R)
  BY <1>1, <1>2, WFMin
<1>4. \A y \in T : ~ (y < x)
  BY <1>1, <1>3 DEF R, OpToRel
<1> QED
  BY <1>3, <1>4 DEF T

LEMMA MaxExists ==
    ASSUME NEW n \in Nat, NEW s \in SUBSET (1 .. n), s # {}
    PROVE  Max(s) \in s /\ \A y \in s : y =< Max(s)
<1> DEFINE HasMax(r) == \E m \in r : \A y \in r : m >= y
           S == { k \in Nat : \A r \in SUBSET (1 .. k) : r # {} => HasMax(r) }
<1>1. 0 \in S
  <2>1. 1 .. 0 = {}
    OBVIOUS
  <2> QED
    BY <2>1
<1>2. ASSUME NEW k \in S PROVE k + 1 \in S
  <2> SUFFICES ASSUME NEW r \in SUBSET (1 .. k + 1), r # {} PROVE HasMax(r)
    OBVIOUS
  <2>1. CASE k + 1 \in r
    BY <2>1
  <2>2. CASE k + 1 \notin r
    <3>1. r \in SUBSET (1 .. k)
      BY <2>2
    <3> QED
      BY <3>1
  <2> QED
    BY <2>1, <2>2
<1> HIDE DEF S
<1>3. S = Nat
  <2>1. S \in SUBSET Nat
    BY DEF S
  <2> QED
    BY <1>1, <1>2, <2>1, SetInduction
<1>4. HasMax(s)
  BY <1>3 DEF S
<1>5. Max(s) \in s /\ \A y \in s : Max(s) >= y
  BY <1>4 DEF Max
<1> QED
  BY <1>5

(* A function that takes in the subsets of 1 .. n by their maximum. *)
TakesIn(h, n, b, F) ==
    \A s \in SUBSET (1 .. n) : h[s] = IF s = {} THEN b ELSE F[<< h[s \ {Max(s)}], Max(s) >>]

(* There is one, whatever the step. *)
LEMMA FoldExists ==
    ASSUME NEW X, NEW n \in Nat, NEW b \in X, NEW F \in [X \X (1 .. n) -> X]
    PROVE  \E h \in [SUBSET (1 .. n) -> X] : TakesIn(h, n, b, F)
<1> DEFINE Folds(h, k) ==
              \A s \in SUBSET (1 .. k) :
                 h[s] = IF s = {} THEN b ELSE F[<< h[s \ {Max(s)}], Max(s) >>]
           Exists(k) == \E h \in [SUBSET (1 .. k) -> X] : Folds(h, k)
           S == { k \in Nat : k =< n => Exists(k) }
<1>1. Exists(0)
  <2> DEFINE h == [s \in SUBSET (1 .. 0) |-> b]
  <2>1. h \in [SUBSET (1 .. 0) -> X]
    OBVIOUS
  <2>2. Folds(h, 0)
    OBVIOUS
  <2> QED
    BY <2>1, <2>2
<1>2. ASSUME NEW k \in Nat, k + 1 =< n, Exists(k) PROVE Exists(k + 1)
  <2>1. PICK g \in [SUBSET (1 .. k) -> X] : Folds(g, k)
    BY <1>2
  <2> DEFINE h == [s \in SUBSET (1 .. k + 1) |->
                      IF k + 1 \in s THEN F[<< g[s \ {k + 1}], k + 1 >>] ELSE g[s]]
  <2>2. \A s \in SUBSET (1 .. k + 1) : s \ {k + 1} \in SUBSET (1 .. k)
    OBVIOUS
  <2>3. h \in [SUBSET (1 .. k + 1) -> X]
    <3> SUFFICES ASSUME NEW s \in SUBSET (1 .. k + 1)
                 PROVE  (IF k + 1 \in s THEN F[<< g[s \ {k + 1}], k + 1 >>] ELSE g[s]) \in X
      OBVIOUS
    <3>1. CASE k + 1 \in s
      <4>1. g[s \ {k + 1}] \in X /\ k + 1 \in 1 .. n
        BY <1>2, <2>2
      <4> QED
        BY <3>1, <4>1
    <3>2. CASE k + 1 \notin s
      <4>1. s \in SUBSET (1 .. k)
        BY <3>2
      <4> QED
        BY <3>2, <4>1
    <3> QED
      BY <3>1, <3>2
  <2>4. Folds(h, k + 1)
    <3> SUFFICES ASSUME NEW s \in SUBSET (1 .. k + 1)
                 PROVE  h[s] = IF s = {} THEN b ELSE F[<< h[s \ {Max(s)}], Max(s) >>]
      OBVIOUS
    <3>1. CASE s = {}
      <4>1. h[{}] = g[{}] /\ g[{}] = b
        BY <2>1
      <4> QED
        BY <3>1, <4>1
    <3>2. CASE k + 1 \in s
      <4>1. Max(s) = k + 1
        <5>1. k + 1 \in Nat /\ s \in SUBSET (1 .. k + 1) /\ s # {}
          BY <3>2
        <5>2. Max(s) \in s /\ \A y \in s : y =< Max(s)
          BY <5>1, MaxExists
        <5>3. Max(s) \in 1 .. k + 1 /\ k + 1 =< Max(s)
          BY <3>2, <5>2
        <5> QED
          BY <5>3
      <4>2. h[s \ {k + 1}] = g[s \ {k + 1}]
        BY <2>2
      <4>3. h[s] = F[<< g[s \ {k + 1}], k + 1 >>]
        BY <3>2
      <4> QED
        BY <3>2, <4>1, <4>2, <4>3
    <3>3. CASE s # {} /\ k + 1 \notin s
      <4>1. s \in SUBSET (1 .. k)
        BY <3>3
      <4> HIDE DEF h, Folds
      <4>2. h[s] = g[s] /\ h[s \ {Max(s)}] = g[s \ {Max(s)}]
        BY <3>3, <4>1 DEF h
      <4>3. g[s] = F[<< g[s \ {Max(s)}], Max(s) >>]
        BY <2>1, <3>3, <4>1 DEF Folds
      <4> QED
        BY <3>3, <4>2, <4>3
    <3> QED
      BY <3>1, <3>2, <3>3
  <2> QED
    BY <2>3, <2>4
<1> HIDE DEF Exists
<1>3. 0 \in S /\ \A k \in S : k + 1 \in S
  BY <1>1, <1>2
<1>4. S = Nat
  <2> HIDE DEF S
  <2>1. S \in SUBSET Nat
    BY DEF S
  <2> QED
    BY <1>3, <2>1, SetInduction
<1>5. Exists(n)
  BY <1>4
<1> QED
  BY <1>5 DEF Exists, TakesIn

(* The sets 1 .. k are taken in one by one. *)
LEMMA Segments ==
    ASSUME NEW k \in Nat
    PROVE  /\ 1 .. 0 = {}
           /\ 1 .. k + 1 # {}
           /\ Max(1 .. k + 1) = k + 1
           /\ (1 .. k + 1) \ {k + 1} = 1 .. k
<1> DEFINE s == 1 .. k + 1
<1>1. k + 1 \in Nat /\ s \in SUBSET (1 .. k + 1) /\ k + 1 \in s
  OBVIOUS
<1>2. s # {}
  BY <1>1
<1>3. Max(s) \in s /\ \A y \in s : y =< Max(s)
  <2> HIDE DEF s
  <2> QED
    BY <1>1, <1>2, MaxExists
<1> QED
  BY <1>1, <1>3

LEMMA Singleton ==
    ASSUME NEW S, NEW x \in S
    PROVE  << x >> \in Seq(S) /\ Len(<< x >>) = 1 /\ << x >>[1] = x
  OBVIOUS

(* A prefix has the same elements. *)
LEMMA PrefixByElements ==
    ASSUME NEW S, NEW p \in Seq(S), NEW q \in Seq(S)
    PROVE  IsPrefix(p, q) <=> Len(p) =< Len(q) /\ \A i \in 1 .. Len(p) : p[i] = q[i]
<1>1. CASE Len(p) =< Len(q)
  <2> DEFINE r == SubSeq(q, 1, Len(p))
  <2>1. r \in Seq(S) /\ Len(r) = Len(p) /\ \A i \in 1 .. Len(p) : r[i] = q[i]
    BY <1>1
  <2>2. SubSeq(p, 1, Len(p)) = p
    OBVIOUS
  <2> HIDE DEF r
  <2>3. p = r <=> \A i \in 1 .. Len(p) : p[i] = r[i]
    BY <2>1
  <2>4. IsPrefix(p, q) <=> p = r
    BY <1>1, <2>2 DEF IsPrefix, r
  <2> QED
    BY <1>1, <2>1, <2>3, <2>4
<1>2. CASE ~ (Len(p) =< Len(q))
  BY <1>2 DEF IsPrefix
<1> QED
  BY <1>1, <1>2

-----------------------------------------------------------------------------
(* CleanUpPath. *)

(* What one more word makes of a path that is clean. *)
Cleaned(p, c) == IF c = "/" /\ p # << >> /\ Last(p) = "/" THEN p ELSE Append(p, c)

(* What a path is after each of its words. *)
IsCleaning(g, path) ==
    /\ g \in [0 .. Len(path) -> Seq(STRING)]
    /\ g[0] = << >>
    /\ \A k \in 1 .. Len(path) : g[k] = Cleaned(g[k - 1], path[k])

LEMMA CleanedType ==
    ASSUME NEW p \in Seq(STRING), NEW c \in STRING
    PROVE  /\ Cleaned(p, c) \in Seq(STRING)
           /\ IsPrefix(p, Cleaned(p, c))
           /\ Cleaned(p, c) # << >>
           /\ Last(Cleaned(p, c)) = c
<1>1. CASE c = "/" /\ p # << >> /\ Last(p) = "/"
  BY <1>1 DEF Cleaned, IsPrefix
<1>2. CASE ~ (c = "/" /\ p # << >> /\ Last(p) = "/")
  <2> DEFINE r == Append(p, c)
  <2>1. Cleaned(p, c) = r
    BY <1>2 DEF Cleaned
  <2>2. /\ r \in Seq(STRING)
        /\ Len(r) = Len(p) + 1
        /\ r[Len(p) + 1] = c
        /\ \A i \in 1 .. Len(p) : r[i] = p[i]
    OBVIOUS
  <2> HIDE DEF r
  <2>3. IsPrefix(p, r)
    BY <2>2, PrefixByElements
  <2>4. r # << >>
    BY <2>2
  <2>5. Last(r) = c
    BY <2>2 DEF Last
  <2> QED
    BY <2>1, <2>2, <2>3, <2>4, <2>5
<1> QED
  BY <1>1, <1>2

LEMMA CleaningExists ==
    ASSUME NEW path \in Seq(STRING)
    PROVE  \E g : IsCleaning(g, path) /\ CleanUpPath(path) = g[Len(path)]
<1> DEFINE n == Len(path)
           X == Seq(STRING)
           IsFold(iter) == iter = [s \in SUBSET (1 .. n) |->
                              IF s = {} THEN << >> ELSE Cleaned(iter[s \ {Max(s)}], path[Max(s)])]
           f == CHOOSE iter : IsFold(iter)
           F == [q \in X \X (1 .. n) |-> Cleaned(q[1], path[q[2]])]
           g == [k \in 0 .. n |-> f[1 .. k]]
<1>0. n \in Nat /\ DOMAIN path = 1 .. n
  OBVIOUS
<1>1. CleanUpPath(path) = f[1 .. n]
  BY <1>0, Zenon DEF CleanUpPath, FoldLeft, MapThenFoldSet, Cleaned
<1>2. F \in [X \X (1 .. n) -> X]
  <2>1. ASSUME NEW q \in X \X (1 .. n) PROVE Cleaned(q[1], path[q[2]]) \in X
    <3>1. q[1] \in Seq(STRING) /\ path[q[2]] \in STRING
      OBVIOUS
    <3> QED
      BY <3>1, CleanedType
  <2> QED
    BY <2>1
<1>3. \E h : IsFold(h)
  <2>1. << >> \in X
    OBVIOUS
  <2>2. PICK h \in [SUBSET (1 .. n) -> X] : TakesIn(h, n, << >>, F)
    <3> HIDE DEF F, X, n, IsFold, f, g
    <3> QED
      BY <1>0, <1>2, <2>1, FoldExists
  <2>3. ASSUME NEW s \in SUBSET (1 .. n), s # {}
        PROVE  h[s] = Cleaned(h[s \ {Max(s)}], path[Max(s)])
    <3>1. Max(s) \in 1 .. n /\ s \ {Max(s)} \in SUBSET (1 .. n)
      BY <1>0, <2>3, MaxExists
    <3>2. h[s \ {Max(s)}] \in X
      BY <3>1
    <3>3. << h[s \ {Max(s)}], Max(s) >> \in X \X (1 .. n)
      BY <3>1, <3>2
    <3>4. h[s] = F[<< h[s \ {Max(s)}], Max(s) >>]
      BY <2>2, <2>3 DEF TakesIn
    <3> QED
      BY <3>3, <3>4
  <2>4. h[{}] = << >>
    BY <2>2 DEF TakesIn
  <2>5. IsFold(h)
    BY <2>3, <2>4
  <2> QED
    BY <2>5
<1>4. IsFold(f)
  <2> HIDE DEF IsFold
  <2> QED
    BY <1>3
<1>5. f[{}] = << >>
  BY <1>4
<1>6. ASSUME NEW k \in Nat, k + 1 =< n
      PROVE  f[1 .. k + 1] = Cleaned(f[1 .. k], path[k + 1])
  <2> DEFINE s == 1 .. k + 1
  <2>1. s \in SUBSET (1 .. n)
    BY <1>0, <1>6
  <2>2. s # {} /\ Max(s) = k + 1 /\ s \ {k + 1} = 1 .. k
    BY Segments
  <2> HIDE DEF s
  <2>3. f[s] = Cleaned(f[s \ {Max(s)}], path[Max(s)])
    BY <1>4, <2>1, <2>2
  <2>4. f[s] = Cleaned(f[1 .. k], path[k + 1])
    BY <2>2, <2>3
  <2> QED
    BY <2>4 DEF s
<1> HIDE DEF f
<1>7. \A k \in Nat : k =< n => f[1 .. k] \in X
  <2> DEFINE S == { k \in Nat : k =< n => f[1 .. k] \in X }
  <2>1. 0 \in S
    <3>1. 1 .. 0 = {} /\ << >> \in X
      OBVIOUS
    <3>2. f[1 .. 0] \in X
      BY <1>5, <3>1
    <3> HIDE DEF X
    <3> QED
      BY <3>2
  <2>2. ASSUME NEW k \in S PROVE k + 1 \in S
    <3> SUFFICES ASSUME k + 1 =< n PROVE f[1 .. k + 1] \in X
      OBVIOUS
    <3>1. f[1 .. k] \in X /\ path[k + 1] \in STRING
      BY <1>0
    <3> QED
      BY <1>6, <3>1, CleanedType, ZenonT(60)
  <2> HIDE DEF S
  <2>3. S \in SUBSET Nat
    BY DEF S
  <2>4. S = Nat
    BY <2>1, <2>2, <2>3, SetInduction
  <2> QED
    BY <2>4 DEF S
<1>8. g[0] = << >> /\ \A k \in 1 .. n : g[k] = Cleaned(g[k - 1], path[k])
  <2>1. g[0] = << >>
    BY <1>0, <1>5, Segments
  <2>2. ASSUME NEW k \in 1 .. n PROVE g[k] = Cleaned(g[k - 1], path[k])
    <3>1. k - 1 \in Nat /\ (k - 1) + 1 = k /\ k - 1 \in 0 .. n /\ k \in 0 .. n /\ k =< n
      BY <1>0
    <3>2. f[1 .. k] = Cleaned(f[1 .. k - 1], path[k])
      BY <1>6, <3>1
    <3> QED
      BY <3>1, <3>2
  <2> QED
    BY <2>1, <2>2
<1>9. g \in [0 .. n -> X] /\ g[n] = f[1 .. n]
  BY <1>0, <1>7
<1> HIDE DEF g
<1> QED
  BY <1>1, <1>8, <1>9 DEF IsCleaning

LEMMA CleaningType ==
    ASSUME NEW path \in Seq(STRING), NEW g, IsCleaning(g, path), NEW k \in 0 .. Len(path)
    PROVE  /\ g[k] \in Seq(STRING)
           /\ k # 0 => /\ path[k] \in STRING /\ g[k - 1] \in Seq(STRING)
                       /\ g[k] = Cleaned(g[k - 1], path[k])
                       /\ IsPrefix(g[k - 1], g[k])
                       /\ g[k] # << >> /\ Last(g[k]) = path[k]
<1>1. g[k] \in Seq(STRING)
  BY DEF IsCleaning
<1>2. ASSUME k # 0
      PROVE  /\ path[k] \in STRING /\ g[k - 1] \in Seq(STRING)
             /\ g[k] = Cleaned(g[k - 1], path[k])
  <2>1. k \in 1 .. Len(path) /\ k - 1 \in 0 .. Len(path)
    BY <1>2
  <2> QED
    BY <2>1 DEF IsCleaning
<1>3. ASSUME k # 0
      PROVE  IsPrefix(g[k - 1], g[k]) /\ g[k] # << >> /\ Last(g[k]) = path[k]
  <2> DEFINE p == g[k - 1]
             c == path[k]
  <2>1. p \in Seq(STRING) /\ c \in STRING /\ g[k] = Cleaned(p, c)
    BY <1>2, <1>3
  <2> HIDE DEF p, c
  <2>2. IsPrefix(p, g[k]) /\ g[k] # << >> /\ Last(g[k]) = c
    BY <2>1, CleanedType
  <2> QED
    BY <2>2 DEF p, c
<1> QED
  BY <1>1, <1>2, <1>3

(* A path is a path yet when it is clean, and ends as it did. *)
LEMMA CleanUpPathEnd ==
    ASSUME NEW path \in Seq(STRING)
    PROVE  /\ CleanUpPath(path) \in Seq(STRING)
           /\ path = << >> <=> CleanUpPath(path) = << >>
           /\ EndsInSlash(CleanUpPath(path)) <=> EndsInSlash(path)
<1>1. PICK g : IsCleaning(g, path) /\ CleanUpPath(path) = g[Len(path)]
  BY CleaningExists
<1>2. CleanUpPath(path) \in Seq(STRING)
  BY <1>1, CleaningType
<1>3. CASE path = << >>
  <2>1. CleanUpPath(path) = << >>
    BY <1>1, <1>3 DEF IsCleaning
  <2> QED
    BY <1>2, <1>3, <2>1
<1>4. CASE path # << >>
  <2>1. Len(path) \in 0 .. Len(path) /\ Len(path) # 0
    BY <1>4
  <2>2. CleanUpPath(path) # << >> /\ Last(CleanUpPath(path)) = path[Len(path)]
    BY <1>1, <2>1, CleaningType
  <2> QED
    BY <1>2, <1>4, <2>2 DEF EndsInSlash, Last
<1> QED
  BY <1>3, <1>4

LEMMA PrefixTransitive ==
    ASSUME NEW S, NEW p \in Seq(S), NEW q \in Seq(S), NEW r \in Seq(S), IsPrefix(p, q), IsPrefix(q, r)
    PROVE  IsPrefix(p, r)
<1>1. Len(p) =< Len(q) /\ \A i \in 1 .. Len(p) : p[i] = q[i]
  BY PrefixByElements
<1>2. Len(q) =< Len(r) /\ \A i \in 1 .. Len(q) : q[i] = r[i]
  BY PrefixByElements
<1>3. Len(p) =< Len(r) /\ \A i \in 1 .. Len(p) : p[i] = r[i]
  BY <1>1, <1>2
<1> QED
  BY <1>3, PrefixByElements

(* What is cleaned after a path leaves the path before it as it is. *)
LEMMA CleanUpPathPrefix ==
    ASSUME NEW p \in Seq(STRING), NEW q \in Seq(STRING)
    PROVE  IsPrefix(CleanUpPath(p), CleanUpPath(p \o q))
<1> DEFINE r == p \o q
<1>1. /\ r \in Seq(STRING) /\ Len(r) = Len(p) + Len(q)
      /\ \A k \in 1 .. Len(p) : r[k] = p[k]
  OBVIOUS
<1> HIDE DEF r
<1>2. PICK g : IsCleaning(g, p) /\ CleanUpPath(p) = g[Len(p)]
  BY CleaningExists
<1>3. PICK h : IsCleaning(h, r) /\ CleanUpPath(r) = h[Len(r)]
  BY <1>1, CleaningExists
<1>4. \A k \in Nat : k =< Len(p) => h[k] = g[k]
  <2> DEFINE S == { k \in Nat : k =< Len(p) => h[k] = g[k] }
  <2>1. 0 \in S
    BY <1>2, <1>3 DEF IsCleaning
  <2>2. ASSUME NEW k \in S PROVE k + 1 \in S
    <3> SUFFICES ASSUME k + 1 =< Len(p) PROVE h[k + 1] = g[k + 1]
      OBVIOUS
    <3>1. h[k] = g[k] /\ k + 1 \in 1 .. Len(p) /\ k + 1 \in 1 .. Len(r) /\ (k + 1) - 1 = k
      BY <1>1
    <3>2. g[k + 1] = Cleaned(g[k], p[k + 1])
      BY <1>2, <3>1 DEF IsCleaning
    <3>3. h[k + 1] = Cleaned(h[k], r[k + 1])
      BY <1>3, <3>1 DEF IsCleaning
    <3> QED
      BY <1>1, <3>1, <3>2, <3>3
  <2> HIDE DEF S
  <2>3. S \in SUBSET Nat
    BY DEF S
  <2>4. S = Nat
    BY <2>1, <2>2, <2>3, SetInduction
  <2> QED
    BY <2>4 DEF S
<1>5. \A k \in Nat : Len(p) + k =< Len(r) => IsPrefix(h[Len(p)], h[Len(p) + k])
  <2> DEFINE S == { k \in Nat : Len(p) + k =< Len(r) => IsPrefix(h[Len(p)], h[Len(p) + k]) }
  <2>1. 0 \in S
    <3>1. h[Len(p)] \in Seq(STRING)
      BY <1>1, <1>3, CleaningType
    <3>2. IsPrefix(h[Len(p)], h[Len(p)])
      BY <3>1, PrefixByElements
    <3>3. Len(p) + 0 = Len(p)
      OBVIOUS
    <3> QED
      BY <3>2, <3>3
  <2>2. ASSUME NEW k \in S PROVE k + 1 \in S
    <3> DEFINE i == Len(p) + k + 1
    <3> SUFFICES ASSUME i =< Len(r) PROVE IsPrefix(h[Len(p)], h[i])
      OBVIOUS
    <3>1. /\ i \in 0 .. Len(r) /\ i # 0 /\ i - 1 = Len(p) + k
          /\ Len(p) \in 0 .. Len(r) /\ i - 1 \in 0 .. Len(r)
      BY <1>1
    <3>2. IsPrefix(h[Len(p)], h[i - 1])
      BY <1>1, <3>1
    <3> HIDE DEF i
    <3>3. IsPrefix(h[i - 1], h[i]) /\ h[i] \in Seq(STRING) /\ h[i - 1] \in Seq(STRING)
      BY <1>1, <1>3, <3>1, CleaningType
    <3>4. h[Len(p)] \in Seq(STRING)
      BY <1>1, <1>3, <3>1, CleaningType
    <3> QED
      BY <3>2, <3>3, <3>4, PrefixTransitive
  <2> HIDE DEF S
  <2>3. S \in SUBSET Nat
    BY DEF S
  <2>4. S = Nat
    BY <2>1, <2>2, <2>3, SetInduction
  <2> QED
    BY <2>4 DEF S
<1>6. IsPrefix(h[Len(p)], h[Len(p) + Len(q)])
  BY <1>1, <1>5
<1>7. h[Len(p)] = g[Len(p)]
  BY <1>4
<1>8. IsPrefix(CleanUpPath(p), CleanUpPath(r))
  BY <1>1, <1>2, <1>3, <1>6, <1>7
<1> QED
  BY <1>8 DEF r

(* What a URI and a path begin with alike is not longer than the path. *)
LEMMA CommonLength ==
    ASSUME NEW u \in Seq(STRING), NEW path \in Seq(STRING)
    PROVE  Len(LongestCommonPrefix({ u, path })) \in 0 .. Len(path)
<1> DEFINE C == CommonPrefixes({ u, path })
           common == LongestCommonPrefix({ u, path })
<1>1. ASSUME NEW q \in C PROVE q \in Seq(STRING) /\ Len(q) \in 0 .. Len(path)
  <2>1. PICK seq \in { u, path } : q \in Prefixes(seq)
    BY DEF CommonPrefixes
  <2>2. PICK k \in 0 .. Len(seq) : q = SubSeq(seq, 1, k)
    BY <2>1 DEF Prefixes
  <2>3. seq \in Seq(STRING)
    OBVIOUS
  <2>4. q \in Seq(STRING)
    BY <2>2, <2>3
  <2>5. Len(q) =< Len(path)
    BY DEF CommonPrefixes, IsPrefix
  <2> QED
    BY <2>4, <2>5
<1>2. << >> \in C
  <2>1. << >> = SubSeq(path, 1, 0)
    OBVIOUS
  <2>2. 0 \in 0 .. Len(path)
    OBVIOUS
  <2>3. << >> \in Prefixes(path)
    BY <2>1, <2>2 DEF Prefixes
  <2>4. << >> \in Seq(STRING)
    OBVIOUS
  <2>5. ASSUME NEW seq \in { u, path } PROVE IsPrefix(<< >>, seq)
    <3>1. seq \in Seq(STRING)
      OBVIOUS
    <3>2. SubSeq(<< >>, 1, 0) = << >> /\ SubSeq(seq, 1, 0) = << >> /\ Len(<< >>) = 0 /\ 0 <= Len(seq)
      BY <3>1
    <3> QED
      BY <3>2 DEF IsPrefix
  <2> QED
    BY <2>3, <2>5 DEF CommonPrefixes
<1> DEFINE L == { Len(q) + 1 : q \in C }
<1>3. L # {} /\ L \in SUBSET (1 .. Len(path) + 1)
  <2> HIDE DEF C
  <2>1. \A q \in C : Len(q) + 1 \in 1 .. Len(path) + 1
    BY <1>1
  <2> QED
    BY <1>2, <2>1
<1> HIDE DEF L, C
<1>4. Max(L) \in L /\ \A y \in L : y =< Max(L)
  <2>1. Len(path) + 1 \in Nat
    OBVIOUS
  <2> QED
    BY <1>3, <2>1, MaxExists
<1>5. PICK q \in C : Max(L) = Len(q) + 1
  BY <1>4 DEF L
<1>6. ASSUME NEW r \in C PROVE Len(r) <= Len(q)
  <2>1. Len(r) + 1 =< Max(L)
    BY <1>4, <1>6 DEF L
  <2>2. Len(r) \in Nat /\ Len(q) \in Nat
    BY <1>1
  <2> QED
    BY <1>5, <2>1, <2>2
<1>7. common \in C
  BY <1>6 DEF LongestCommonPrefix, C
<1> QED
  BY <1>1, <1>7

(* Where the path of a request leads is a path, and somewhere. *)
LEMMA LocatedType ==
    ASSUME NEW target, NEW path \in Seq(STRING), path # << >>, target["uri"] \in Seq(STRING),
           target["root"] \in Seq(STRING), target["alias"] \in Seq(STRING)
    PROVE  Located(target, path) \in Seq(STRING) /\ Located(target, path) # << >>
<1> DEFINE u == target["uri"]
           a == target["alias"]
           r == target["root"]
           n == Len(LongestCommonPrefix({ u, path }))
           rest == SubSeq(path, n + 1, Len(path))
<1>1. u \in Seq(STRING) /\ a \in Seq(STRING) /\ r \in Seq(STRING)
  OBVIOUS
<1>2. Located(target, path) = IF a # << >> THEN a \o rest ELSE r \o path
  BY DEF Located, ReplaceAlias, AppendRoot, IsSet
<1> HIDE DEF u, a, r
<1>3. n \in 0 .. Len(path)
  BY <1>1, CommonLength
<1> HIDE DEF n
<1>4. rest \in Seq(STRING)
  BY <1>3
<1> HIDE DEF rest
<1>5. a \o rest \in Seq(STRING) /\ r \o path \in Seq(STRING)
      /\ (a # << >> => a \o rest # << >>) /\ r \o path # << >>
  BY <1>1, <1>4
<1> QED
  BY <1>2, <1>5

-----------------------------------------------------------------------------
(* The compatible servers and locations: those of a sequence that are kept. *)

Kept(some, e, keep) == IF keep THEN Append(some, e) ELSE some

(* f takes in the elements of seq one by one, and keeps those at I. *)
Keeps(f, seq, I) ==
    \A s \in SUBSET (1 .. Len(seq)) :
       f[s] = IF s = {} THEN << >> ELSE Kept(f[s \ {Max(s)}], seq[Max(s)], Max(s) \in I)

(* some has the elements of seq at I, in their order; e tells which is which. *)
IsChoiceBy(e, some, seq, I) ==
    /\ e \in [1 .. Len(some) -> I]
    /\ \A j \in 1 .. Len(some) : some[j] = seq[e[j]]
    /\ \A i \in I : \E j \in 1 .. Len(some) : e[j] = i
    /\ \A j, k \in 1 .. Len(some) : j < k => e[j] < e[k]

IsChoice(some, seq, I) == \E e : IsChoiceBy(e, some, seq, I)

LEMMA KeepsExists ==
    ASSUME NEW S, NEW seq \in Seq(S), NEW I
    PROVE  \E f \in [SUBSET (1 .. Len(seq)) -> Seq(S)] : Keeps(f, seq, I)
<1> DEFINE n == Len(seq)
           X == Seq(S)
           F == [q \in X \X (1 .. n) |-> Kept(q[1], seq[q[2]], q[2] \in I)]
<1>1. F \in [X \X (1 .. n) -> X]
  <2>1. ASSUME NEW q \in X \X (1 .. n) PROVE Kept(q[1], seq[q[2]], q[2] \in I) \in X
    BY DEF Kept
  <2> QED
    BY <2>1
<1>2. n \in Nat /\ << >> \in X
  OBVIOUS
<1>3. PICK f \in [SUBSET (1 .. n) -> X] : TakesIn(f, n, << >>, F)
  <2> HIDE DEF F, X, n
  <2> QED
    BY <1>1, <1>2, FoldExists
<1>4. ASSUME NEW s \in SUBSET (1 .. n), s # {}
      PROVE  f[s] = Kept(f[s \ {Max(s)}], seq[Max(s)], Max(s) \in I)
  <2>1. Max(s) \in 1 .. n /\ s \ {Max(s)} \in SUBSET (1 .. n)
    BY <1>2, <1>4, MaxExists
  <2>2. << f[s \ {Max(s)}], Max(s) >> \in X \X (1 .. n)
    BY <2>1
  <2>3. f[s] = F[<< f[s \ {Max(s)}], Max(s) >>]
    BY <1>3, <1>4 DEF TakesIn
  <2> QED
    BY <2>2, <2>3
<1>5. f[{}] = << >>
  BY <1>3 DEF TakesIn
<1> QED
  BY <1>3, <1>4, <1>5 DEF Keeps

LEMMA KeptType ==
    ASSUME NEW S, NEW seq \in Seq(S), NEW I, NEW some \in Seq(S), NEW k \in Nat, k + 1 =< Len(seq),
           IsChoice(some, seq, I \cap (1 .. k))
    PROVE  /\ Kept(some, seq[k + 1], k + 1 \in I) \in Seq(S)
           /\ IsChoice(Kept(some, seq[k + 1], k + 1 \in I), seq, I \cap (1 .. k + 1))
<1>1. PICK e : IsChoiceBy(e, some, seq, I \cap (1 .. k))
  BY DEF IsChoice
<1>2. CASE k + 1 \in I
  <2> DEFINE more == Append(some, seq[k + 1])
             n == Len(some)
             d == [j \in 1 .. n + 1 |-> IF j = n + 1 THEN k + 1 ELSE e[j]]
  <2>1. Kept(some, seq[k + 1], k + 1 \in I) = more
    BY <1>2 DEF Kept
  <2>2. more \in Seq(S) /\ Len(more) = n + 1 /\ more[n + 1] = seq[k + 1]
        /\ n \in Nat /\ \A j \in 1 .. n : more[j] = some[j]
    OBVIOUS
  <2>3. \A j \in 1 .. n : e[j] \in I \cap (1 .. k) /\ some[j] = seq[e[j]]
    BY <1>1 DEF IsChoiceBy
  <2> HIDE DEF more, n
  <2>4. d \in [1 .. n + 1 -> I \cap (1 .. k + 1)]
    BY <1>2, <2>2, <2>3
  <2>5. \A j \in 1 .. n + 1 : more[j] = seq[d[j]]
    BY <2>2, <2>3
  <2>6. ASSUME NEW i \in I \cap (1 .. k + 1) PROVE \E j \in 1 .. n + 1 : d[j] = i
    <3>1. CASE i = k + 1
      <4>1. n + 1 \in 1 .. n + 1 /\ d[n + 1] = i
        BY <2>2, <3>1
      <4> QED
        BY <4>1
    <3>2. CASE i # k + 1
      <4>1. i \in I \cap (1 .. k)
        BY <3>2
      <4>2. PICK j \in 1 .. n : e[j] = i
        BY <1>1, <4>1 DEF IsChoiceBy, n
      <4>3. j \in 1 .. n + 1 /\ d[j] = i
        BY <2>2, <4>2
      <4> QED
        BY <4>3
    <3> QED
      BY <3>1, <3>2
  <2>7. ASSUME NEW j \in 1 .. n + 1, NEW i \in 1 .. n + 1, j < i PROVE d[j] < d[i]
    <3>1. j \in 1 .. n /\ d[j] = e[j] /\ e[j] \in 1 .. k
      BY <2>2, <2>3, <2>7
    <3>2. CASE i = n + 1
      BY <2>2, <3>1, <3>2
    <3>3. CASE i # n + 1
      <4>1. i \in 1 .. n /\ d[i] = e[i]
        BY <2>2, <3>3
      <4>2. e[j] < e[i]
        BY <1>1, <2>7, <3>1, <4>1 DEF IsChoiceBy, n
      <4> QED
        BY <3>1, <4>1, <4>2
    <3> QED
      BY <3>2, <3>3
  <2> HIDE DEF d
  <2>8. IsChoiceBy(d, more, seq, I \cap (1 .. k + 1))
    BY <2>2, <2>4, <2>5, <2>6, <2>7 DEF IsChoiceBy
  <2> QED
    BY <2>1, <2>2, <2>8 DEF IsChoice
<1>3. CASE k + 1 \notin I
  <2>1. Kept(some, seq[k + 1], k + 1 \in I) = some
    BY <1>3 DEF Kept
  <2>2. I \cap (1 .. k + 1) = I \cap (1 .. k)
    BY <1>3
  <2> QED
    BY <2>1, <2>2
<1> QED
  BY <1>2, <1>3

LEMMA KeepsChooses ==
    ASSUME NEW S, NEW seq \in Seq(S), NEW I, NEW f, Keeps(f, seq, I)
    PROVE  /\ f[1 .. Len(seq)] \in Seq(S)
           /\ IsChoice(f[1 .. Len(seq)], seq, I \cap (1 .. Len(seq)))
<1> DEFINE Good(k) == f[1 .. k] \in Seq(S) /\ IsChoice(f[1 .. k], seq, I \cap (1 .. k))
           T == { k \in Nat : k =< Len(seq) => Good(k) }
<1>1. 0 \in T
  <2>1. 1 .. 0 = {} /\ {} \in SUBSET (1 .. Len(seq))
    OBVIOUS
  <2>2. f[{}] = << >>
    BY <2>1 DEF Keeps
  <2>3. IsChoiceBy(<< >>, << >>, seq, {})
    BY DEF IsChoiceBy
  <2>4. I \cap (1 .. 0) = {} /\ << >> \in Seq(S)
    BY <2>1
  <2>5. IsChoice(<< >>, seq, {})
    BY <2>3 DEF IsChoice
  <2>6. f[1 .. 0] = << >>
    BY <2>1, <2>2
  <2>7. Good(0)
    BY <2>4, <2>5, <2>6
  <2> QED
    BY <2>7
<1>2. ASSUME NEW k \in T PROVE k + 1 \in T
  <2> SUFFICES ASSUME k + 1 =< Len(seq) PROVE Good(k + 1)
    OBVIOUS
  <2> DEFINE s == 1 .. k + 1
  <2>1. k \in Nat /\ Good(k) /\ s \in SUBSET (1 .. Len(seq))
    OBVIOUS
  <2>2. s # {} /\ Max(s) = k + 1 /\ s \ {k + 1} = 1 .. k
    BY <2>1, Segments
  <2> HIDE DEF s
  <2>3. f[s] = Kept(f[s \ {Max(s)}], seq[Max(s)], Max(s) \in I)
    BY <2>1, <2>2 DEF Keeps
  <2>4. f[s] = Kept(f[1 .. k], seq[k + 1], k + 1 \in I)
    BY <2>2, <2>3
  <2>5. f[s] \in Seq(S) /\ IsChoice(f[s], seq, I \cap (1 .. k + 1))
    <3> DEFINE some == f[1 .. k]
    <3>1. some \in Seq(S) /\ IsChoice(some, seq, I \cap (1 .. k)) /\ f[s] = Kept(some, seq[k + 1], k + 1 \in I)
      BY <2>1, <2>4
    <3> HIDE DEF some, T, Good
    <3>2. k + 1 =< Len(seq)
      OBVIOUS
    <3>3. /\ Kept(some, seq[k + 1], k + 1 \in I) \in Seq(S)
          /\ IsChoice(Kept(some, seq[k + 1], k + 1 \in I), seq, I \cap (1 .. k + 1))
      BY <2>1, <3>1, <3>2, KeptType
    <3> QED
      BY <3>1, <3>3
  <2> QED
    BY <2>5 DEF s
<1> HIDE DEF T
<1>3. T = Nat
  <2>1. T \in SUBSET Nat
    BY DEF T
  <2> QED
    BY <1>1, <1>2, <2>1, SetInduction
<1>4. Len(seq) \in T
  BY <1>3
<1>5. Good(Len(seq))
  BY <1>4 DEF T
<1> QED
  BY <1>5

LEMMA CompatiblePortsChoice ==
    ASSUME NEW S, NEW servers \in Seq(S), NEW port
    PROVE  /\ CompatiblePorts(servers, port) \in Seq(S)
           /\ IsChoice(CompatiblePorts(servers, port), servers,
                       { i \in DOMAIN servers : PortNumber(servers[i]) = port })
<1> DEFINE n == Len(servers)
           I == { i \in DOMAIN servers : PortNumber(servers[i]) = port }
           IsFold(iter) == iter = [s \in SUBSET (1 .. n) |->
               IF s = {} THEN << >>
               ELSE IF PortNumber(servers[Max(s)]) = port
                       THEN Append(iter[s \ {Max(s)}], servers[Max(s)]) ELSE iter[s \ {Max(s)}]]
           f == CHOOSE iter : IsFold(iter)
<1>0. n \in Nat /\ DOMAIN servers = 1 .. n
  OBVIOUS
<1>1. CompatiblePorts(servers, port) = f[1 .. n]
  BY <1>0, Zenon DEF CompatiblePorts, FoldLeft, MapThenFoldSet
<1>2. ASSUME NEW s \in SUBSET (1 .. n), s # {}
      PROVE  Max(s) \in I <=> PortNumber(servers[Max(s)]) = port
  <2>1. Max(s) \in 1 .. n
    BY <1>0, <1>2, MaxExists
  <2> QED
    BY <1>0, <2>1
<1>3. PICK h \in [SUBSET (1 .. n) -> Seq(S)] : Keeps(h, servers, I)
  BY KeepsExists
<1>4. IsFold(h)
  <2>1. ASSUME NEW s \in SUBSET (1 .. n)
        PROVE  h[s] = IF s = {} THEN << >>
                      ELSE IF PortNumber(servers[Max(s)]) = port
                              THEN Append(h[s \ {Max(s)}], servers[Max(s)]) ELSE h[s \ {Max(s)}]
    <3> HIDE DEF I
    <3> QED
      BY <1>2, <1>3, Zenon DEF Keeps, Kept
  <2> QED
    BY <2>1
<1>5. IsFold(f)
  <2> HIDE DEF IsFold
  <2> QED
    BY <1>4
<1>6. Keeps(f, servers, I)
  <2> SUFFICES ASSUME NEW s \in SUBSET (1 .. n)
               PROVE  f[s] = IF s = {} THEN << >> ELSE Kept(f[s \ {Max(s)}], servers[Max(s)], Max(s) \in I)
    BY DEF Keeps
  <2>1. f[s] = IF s = {} THEN << >>
               ELSE IF PortNumber(servers[Max(s)]) = port
                       THEN Append(f[s \ {Max(s)}], servers[Max(s)]) ELSE f[s \ {Max(s)}]
    <3> HIDE DEF f
    <3> QED
      BY <1>5
  <2> HIDE DEF I, f
  <2> QED
    BY <1>2, <2>1 DEF Kept
<1>7. I \cap (1 .. n) = I
  BY <1>0
<1> HIDE DEF f, I
<1>8. f[1 .. n] \in Seq(S) /\ IsChoice(f[1 .. n], servers, I)
  <2>1. f[1 .. n] \in Seq(S) /\ IsChoice(f[1 .. n], servers, I \cap (1 .. n))
    BY <1>6, KeepsChooses, Zenon
  <2> QED
    BY <1>7, <2>1, Zenon
<1> QED
  BY <1>1, <1>8 DEF I

LEMMA CompatibleLocationsChoice ==
    ASSUME NEW S, NEW locations \in Seq(S), NEW path
    PROVE  /\ CompatibleLocations(locations, path) \in Seq(S)
           /\ IsChoice(CompatibleLocations(locations, path), locations,
                       { i \in DOMAIN locations : IsPrefix(locations[i].uri, path) })
<1> DEFINE n == Len(locations)
           I == { i \in DOMAIN locations : IsPrefix(locations[i].uri, path) }
           IsFold(iter) == iter = [s \in SUBSET (1 .. n) |->
               IF s = {} THEN << >>
               ELSE IF IsPrefix(locations[Max(s)].uri, path)
                       THEN Append(iter[s \ {Max(s)}], locations[Max(s)]) ELSE iter[s \ {Max(s)}]]
           f == CHOOSE iter : IsFold(iter)
<1>0. n \in Nat /\ DOMAIN locations = 1 .. n
  OBVIOUS
<1>1. CompatibleLocations(locations, path) = f[1 .. n]
  BY <1>0, Zenon DEF CompatibleLocations, FoldLeft, MapThenFoldSet
<1>2. ASSUME NEW s \in SUBSET (1 .. n), s # {}
      PROVE  Max(s) \in I <=> IsPrefix(locations[Max(s)].uri, path)
  <2>1. Max(s) \in 1 .. n
    BY <1>0, <1>2, MaxExists
  <2> QED
    BY <1>0, <2>1
<1>3. PICK h \in [SUBSET (1 .. n) -> Seq(S)] : Keeps(h, locations, I)
  BY KeepsExists
<1>4. IsFold(h)
  <2>1. ASSUME NEW s \in SUBSET (1 .. n)
        PROVE  h[s] = IF s = {} THEN << >>
                      ELSE IF IsPrefix(locations[Max(s)].uri, path)
                              THEN Append(h[s \ {Max(s)}], locations[Max(s)]) ELSE h[s \ {Max(s)}]
    <3> HIDE DEF I
    <3> QED
      BY <1>2, <1>3, Zenon DEF Keeps, Kept
  <2> QED
    BY <2>1
<1>5. IsFold(f)
  <2> HIDE DEF IsFold
  <2> QED
    BY <1>4
<1>6. Keeps(f, locations, I)
  <2> SUFFICES ASSUME NEW s \in SUBSET (1 .. n)
               PROVE  f[s] = IF s = {} THEN << >> ELSE Kept(f[s \ {Max(s)}], locations[Max(s)], Max(s) \in I)
    BY DEF Keeps
  <2>1. f[s] = IF s = {} THEN << >>
               ELSE IF IsPrefix(locations[Max(s)].uri, path)
                       THEN Append(f[s \ {Max(s)}], locations[Max(s)]) ELSE f[s \ {Max(s)}]
    <3> HIDE DEF f
    <3> QED
      BY <1>5
  <2> HIDE DEF I, f
  <2> QED
    BY <1>2, <2>1 DEF Kept
<1>7. I \cap (1 .. n) = I
  BY <1>0
<1> HIDE DEF f, I
<1>8. f[1 .. n] \in Seq(S) /\ IsChoice(f[1 .. n], locations, I)
  <2>1. f[1 .. n] \in Seq(S) /\ IsChoice(f[1 .. n], locations, I \cap (1 .. n))
    BY <1>6, KeepsChooses, Zenon
  <2> QED
    BY <1>7, <2>1, Zenon
<1> QED
  BY <1>1, <1>8 DEF I

LEMMA MinExists ==
    ASSUME NEW s \in SUBSET Nat, s # {}
    PROVE  Min(s) \in s /\ \A y \in s : Min(s) =< y
<1> DEFINE R == OpToRel(<, Nat)
<1>1. IsWellFoundedOn(R, Nat)
  BY NatLessThanWellFounded
<1> HIDE DEF R
<1>2. PICK x \in s : \A y \in s : ~ (<< y, x >> \in R)
  BY <1>1, WFMin
<1>3. \A y \in s : ~ (y < x)
  BY <1>2 DEF R, OpToRel
<1>4. \E m \in s : \A y \in s : m <= y
  BY <1>3
<1> QED
  BY <1>4 DEF Min

LEMMA MinIs ==
    ASSUME NEW s \in SUBSET Nat, NEW m \in s, \A y \in s : m =< y
    PROVE  Min(s) = m
<1>1. Min(s) \in s /\ Min(s) =< m
  BY MinExists
<1>2. m =< Min(s) /\ m \in Nat /\ Min(s) \in Nat
  BY <1>1
<1> QED
  BY <1>1, <1>2

LEMMA FirstOfChoice ==
    ASSUME NEW S, NEW some \in Seq(S), NEW seq, NEW I \in SUBSET Nat, NEW e, IsChoiceBy(e, some, seq, I),
           NEW J \in SUBSET (1 .. Len(some)), J # {}
    PROVE  /\ Min(J) \in J
           /\ some[Min(J)] = seq[Min({ e[j] : j \in J })]
<1> DEFINE m == Min(J)
           K == { e[j] : j \in J }
<1>1. m \in J /\ \A j \in J : m =< j
  <2>1. J \in SUBSET Nat
    OBVIOUS
  <2> QED
    BY <2>1, MinExists
<1>2. \A j \in J : e[j] \in Nat
  BY DEF IsChoiceBy
<1> HIDE DEF m
<1>3. \A j \in J : e[m] =< e[j]
  <2> SUFFICES ASSUME NEW j \in J PROVE e[m] =< e[j]
    OBVIOUS
  <2>1. CASE m = j
    BY <1>2, <2>1
  <2>2. CASE m # j
    <3>1. m \in 1 .. Len(some) /\ j \in 1 .. Len(some) /\ m < j
      BY <1>1, <2>2
    <3>2. e[m] < e[j]
      BY <3>1 DEF IsChoiceBy
    <3> QED
      BY <1>1, <1>2, <3>2
  <2> QED
    BY <2>1, <2>2
<1>4. K \in SUBSET Nat /\ e[m] \in K /\ \A y \in K : e[m] =< y
  BY <1>1, <1>2, <1>3
<1> HIDE DEF K
<1>5. Min(K) = e[m]
  BY <1>4, MinIs
<1>6. some[m] = seq[e[m]]
  BY <1>1 DEF IsChoiceBy
<1> QED
  BY <1>1, <1>5, <1>6 DEF m, K

(* Of some servers the first of that name, or else the first. *)
FirstNamed(servers, I, host) ==
    LET named == { j \in I : host \in ServerNames(servers[j]) }
    IN  Min(IF named = {} THEN I ELSE named)

LEMMA ServerNameOfChoice ==
    ASSUME NEW S, NEW servers \in Seq(S), NEW I \in SUBSET DOMAIN servers, I # {},
           NEW some \in Seq(S), IsChoice(some, servers, I), NEW host
    PROVE  CompatibleServerName(some, host) = servers[FirstNamed(servers, I, host)]
<1> DEFINE named == { j \in I : host \in ServerNames(servers[j]) }
           J == { j \in 1 .. Len(some) : host \in ServerNames(some[j]) }
<1>1. PICK e : IsChoiceBy(e, some, servers, I)
  BY DEF IsChoice
<1>2. CompatibleServerName(some, host) = IF J = {} THEN some[1] ELSE some[Min(J)]
  <2>1. SelectInSeq(some, LAMBDA s : host \in ServerNames(s)) = IF J # {} THEN Min(J) ELSE 0
    BY DEF SelectInSeq
  <2>2. J # {} => Min(J) # 0
    <3>1. J \in SUBSET Nat
      OBVIOUS
    <3>2. ASSUME J # {} PROVE Min(J) \in J
      BY <3>1, <3>2, MinExists
    <3> QED
      BY <3>2
  <2> HIDE DEF J
  <2> QED
    BY <2>1, <2>2 DEF CompatibleServerName
<1>3. I \in SUBSET Nat
  OBVIOUS
<1>4. named = { e[j] : j \in J }
  <2>1. \A j \in 1 .. Len(some) : e[j] \in I /\ some[j] = servers[e[j]]
    BY <1>1 DEF IsChoiceBy
  <2>2. \A i \in I : \E j \in 1 .. Len(some) : e[j] = i
    BY <1>1 DEF IsChoiceBy
  <2> QED
    BY <2>1, <2>2
<1>5. I = { e[j] : j \in 1 .. Len(some) }
  BY <1>1 DEF IsChoiceBy
<1>6. CASE J # {}
  <2>1. J \in SUBSET (1 .. Len(some))
    OBVIOUS
  <2>2. named # {}
    BY <1>4, <1>6
  <2> HIDE DEF J
  <2>3. some[Min(J)] = servers[Min({ e[j] : j \in J })]
    BY <1>1, <1>3, <1>6, <2>1, FirstOfChoice
  <2> HIDE DEF named
  <2>4. some[Min(J)] = servers[Min(named)]
    BY <1>4, <2>3
  <2>5. CompatibleServerName(some, host) = servers[Min(IF named = {} THEN I ELSE named)]
    BY <1>2, <1>6, <2>2, <2>4
  <2> QED
    BY <2>5 DEF named, FirstNamed
<1>7. CASE J = {}
  <2> DEFINE A == 1 .. Len(some)
  <2>1. named = {}
    BY <1>4, <1>7
  <2>2. A # {} /\ A \in SUBSET Nat /\ 1 \in A /\ \A j \in A : 1 =< j
    <3>1. Len(some) # 0
      BY <1>5
    <3>2. Len(some) \in Nat
      OBVIOUS
    <3>3. 1 \in A
      BY <3>1, <3>2
    <3> QED
      BY <3>3
  <2> HIDE DEF J
  <2>3. some[Min(A)] = servers[Min({ e[j] : j \in A })]
    <3>1. A \in SUBSET (1 .. Len(some))
      OBVIOUS
    <3> HIDE DEF A
    <3> QED
      BY <1>1, <1>3, <2>2, <3>1, FirstOfChoice
  <2> HIDE DEF named
  <2>4. Min(A) = 1
    <3> HIDE DEF A
    <3> QED
      BY <2>2, MinIs
  <2>5. some[1] = servers[Min(I)]
    BY <1>5, <2>3, <2>4
  <2>6. CompatibleServerName(some, host) = servers[Min(IF named = {} THEN I ELSE named)]
    BY <1>2, <1>7, <2>1, <2>5
  <2> QED
    BY <2>6 DEF named, FirstNamed
<1> QED
  BY <1>6, <1>7

(* A sequence is the choice of all that it has. *)
LEMMA ChoiceOfAll ==
    ASSUME NEW S, NEW seq \in Seq(S)
    PROVE  IsChoice(seq, seq, DOMAIN seq)
<1> DEFINE e == [j \in 1 .. Len(seq) |-> j]
<1>1. IsChoiceBy(e, seq, seq, DOMAIN seq)
  BY DEF IsChoiceBy
<1> HIDE DEF e
<1> QED
  BY <1>1 DEF IsChoice

(* The servers a request with this port may be for. *)
OfPort(servers, port) == { i \in DOMAIN servers : PortNumber(servers[i]) = port }
Candidate(servers, port) == IF OfPort(servers, port) = {} THEN DOMAIN servers ELSE OfPort(servers, port)

(***************************************************************************)
(* ServerSelection takes the first server of the port and the name, or the *)
(* first of the port; or, where none is of the port, the first of the name *)
(* or of all.                                                              *)
(***************************************************************************)
THEOREM ServerSelected ==
    ASSUME NEW S, NEW servers \in Seq(S), servers # << >>, NEW host, NEW port
    PROVE  LET i == FirstNamed(servers, Candidate(servers, port), host)
           IN  i \in DOMAIN servers /\ ServerSelection(servers, host, port) = servers[i]
<1> DEFINE candidates == Candidate(servers, port)
           i == FirstNamed(servers, candidates, host)
           compatible == CompatiblePorts(servers, port)
<1>1. compatible \in Seq(S) /\ IsChoice(compatible, servers, OfPort(servers, port))
  BY CompatiblePortsChoice DEF OfPort
<1>2. compatible = << >> <=> OfPort(servers, port) = {}
  <2>1. PICK e : IsChoiceBy(e, compatible, servers, OfPort(servers, port))
    BY <1>1 DEF IsChoice
  <2>2. \A j \in 1 .. Len(compatible) : e[j] \in OfPort(servers, port)
    BY <2>1 DEF IsChoiceBy
  <2>3. \A k \in OfPort(servers, port) : \E j \in 1 .. Len(compatible) : e[j] = k
    BY <2>1 DEF IsChoiceBy
  <2> HIDE DEF compatible
  <2>4. ASSUME compatible # << >> PROVE 1 \in 1 .. Len(compatible)
    BY <1>1, <2>4
  <2>5. ASSUME compatible = << >> PROVE 1 .. Len(compatible) = {}
    BY <2>5
  <2> QED
    BY <2>2, <2>3, <2>4, <2>5
<1>3. /\ candidates # {} /\ candidates \in SUBSET DOMAIN servers
      /\ ServerSelection(servers, host, port) = servers[i]
  <2>1. CASE OfPort(servers, port) = {}
    <3>1. candidates = DOMAIN servers /\ DOMAIN servers # {}
      BY <2>1 DEF Candidate
    <3>2. ServerSelection(servers, host, port) = CompatibleServerName(servers, host)
      BY <1>2, <2>1 DEF ServerSelection
    <3>3. IsChoice(servers, servers, DOMAIN servers)
      BY ChoiceOfAll
    <3>4. IsChoice(servers, servers, candidates)
      BY <3>1, <3>3
    <3> HIDE DEF candidates
    <3>5. CompatibleServerName(servers, host) = servers[i]
      BY <3>1, <3>4, ServerNameOfChoice
    <3> QED
      BY <3>1, <3>2, <3>5
  <2>2. CASE OfPort(servers, port) # {}
    <3>1. candidates = OfPort(servers, port) /\ candidates \in SUBSET DOMAIN servers
      BY <2>2 DEF Candidate, OfPort
    <3>2. ServerSelection(servers, host, port) = CompatibleServerName(compatible, host)
      BY <1>2, <2>2 DEF ServerSelection
    <3>3. compatible \in Seq(S) /\ IsChoice(compatible, servers, candidates)
      BY <1>1, <3>1
    <3> HIDE DEF candidates, compatible
    <3>5. CompatibleServerName(compatible, host) = servers[i]
      BY <2>2, <3>1, <3>3, ServerNameOfChoice
    <3> QED
      BY <2>2, <3>1, <3>2, <3>5
  <2> QED
    BY <2>1, <2>2
<1>4. i \in DOMAIN servers
  <2> DEFINE named == { j \in candidates : host \in ServerNames(servers[j]) }
             best == IF named = {} THEN candidates ELSE named
  <2>1. best # {} /\ best \in SUBSET DOMAIN servers /\ best \in SUBSET Nat
    <3> HIDE DEF candidates
    <3> QED
      BY <1>3
  <2> HIDE DEF best
  <2>2. Min(best) \in best
    BY <2>1, MinExists
  <2> QED
    BY <2>1, <2>2 DEF best, FirstNamed
<1> QED
  BY <1>3, <1>4

-----------------------------------------------------------------------------
(* GetLongestMatch, and what is selected. *)

Longer(best, l) == IF Len(l.uri) > Len(best.uri) THEN l ELSE best

LEMMA LongestMatchIsLongest ==
    ASSUME NEW S, \A l \in S : l.uri \in Seq(STRING), NEW locations \in Seq(S), locations # << >>
    PROVE  \E j \in DOMAIN locations :
              /\ LongestMatch(locations) = locations[j]
              /\ \A k \in DOMAIN locations : Len(locations[k].uri) =< Len(locations[j].uri)
<1> DEFINE n == Len(locations)
           b == locations[1]
           IsFold(iter) == iter = [s \in SUBSET (1 .. n) |->
                              IF s = {} THEN b ELSE Longer(iter[s \ {Max(s)}], locations[Max(s)])]
           f == CHOOSE iter : IsFold(iter)
           F == [q \in S \X (1 .. n) |-> Longer(q[1], locations[q[2]])]
<1>0. n \in Nat /\ DOMAIN locations = 1 .. n /\ 1 \in 1 .. n /\ b \in S
  OBVIOUS
<1>1. LongestMatch(locations) = f[1 .. n]
  BY <1>0, Zenon DEF LongestMatch, FoldLeft, MapThenFoldSet, Longer
<1>2. F \in [S \X (1 .. n) -> S]
  <2>1. ASSUME NEW q \in S \X (1 .. n) PROVE Longer(q[1], locations[q[2]]) \in S
    BY DEF Longer
  <2> QED
    BY <2>1
<1>3. \E h : IsFold(h)
  <2>1. PICK h \in [SUBSET (1 .. n) -> S] : TakesIn(h, n, b, F)
    <3> HIDE DEF F, n, b, IsFold, f
    <3> QED
      BY <1>0, <1>2, FoldExists
  <2>2. ASSUME NEW s \in SUBSET (1 .. n), s # {}
        PROVE  h[s] = Longer(h[s \ {Max(s)}], locations[Max(s)])
    <3>1. Max(s) \in 1 .. n /\ s \ {Max(s)} \in SUBSET (1 .. n)
      BY <1>0, <2>2, MaxExists
    <3>2. << h[s \ {Max(s)}], Max(s) >> \in S \X (1 .. n)
      BY <3>1
    <3>3. h[s] = F[<< h[s \ {Max(s)}], Max(s) >>]
      BY <2>1, <2>2 DEF TakesIn
    <3> QED
      BY <3>2, <3>3
  <2>3. h[{}] = b
    BY <2>1 DEF TakesIn
  <2>4. IsFold(h)
    BY <2>2, <2>3
  <2> QED
    BY <2>4
<1>4. IsFold(f)
  <2> HIDE DEF IsFold
  <2> QED
    BY <1>3
<1>5. f[{}] = b
  BY <1>4
<1>6. ASSUME NEW k \in Nat, k + 1 =< n
      PROVE  f[1 .. k + 1] = Longer(f[1 .. k], locations[k + 1])
  <2> DEFINE s == 1 .. k + 1
  <2>1. s \in SUBSET (1 .. n)
    BY <1>0, <1>6
  <2>2. s # {} /\ Max(s) = k + 1 /\ s \ {k + 1} = 1 .. k
    BY Segments
  <2> HIDE DEF s
  <2>3. f[s] = Longer(f[s \ {Max(s)}], locations[Max(s)])
    BY <1>4, <2>1, <2>2
  <2>4. f[s] = Longer(f[1 .. k], locations[k + 1])
    BY <2>2, <2>3
  <2> QED
    BY <2>4 DEF s
<1> HIDE DEF f
<1> DEFINE Best(l, k) == \E j \in 1 .. n : /\ l = locations[j]
                                           /\ \A i \in 1 .. k : Len(locations[i].uri) =< Len(locations[j].uri)
           T == { k \in Nat : k =< n => Best(f[1 .. k], k) }
<1>7. 0 \in T
  <2>1. 1 .. 0 = {}
    OBVIOUS
  <2>2. f[1 .. 0] = locations[1]
    BY <1>5, <2>1
  <2>3. Best(locations[1], 0)
    BY <1>0, <2>1
  <2>4. Best(f[1 .. 0], 0)
    BY <2>2, <2>3
  <2> QED
    BY <2>4
<1>8. ASSUME NEW k \in T PROVE k + 1 \in T
  <2> SUFFICES ASSUME k + 1 =< n PROVE Best(f[1 .. k + 1], k + 1)
    OBVIOUS
  <2>1. PICK j \in 1 .. n : /\ f[1 .. k] = locations[j]
                            /\ \A i \in 1 .. k : Len(locations[i].uri) =< Len(locations[j].uri)
    BY <1>0
  <2>2. f[1 .. k + 1] = Longer(locations[j], locations[k + 1])
    BY <1>6, <2>1
  <2>3. \A i \in 1 .. n : Len(locations[i].uri) \in Nat
    BY <1>0
  <2>4. k + 1 \in 1 .. n /\ \A i \in 1 .. k + 1 : i \in 1 .. n /\ (i = k + 1 \/ i \in 1 .. k)
    BY <1>0
  <2>5. CASE Len(locations[k + 1].uri) > Len(locations[j].uri)
    <3>1. f[1 .. k + 1] = locations[k + 1]
      BY <2>2, <2>5 DEF Longer
    <3>2. ASSUME NEW i \in 1 .. k + 1 PROVE Len(locations[i].uri) =< Len(locations[k + 1].uri)
      <4>1. /\ Len(locations[i].uri) \in Nat /\ Len(locations[j].uri) \in Nat
            /\ Len(locations[k + 1].uri) \in Nat
        BY <2>3, <2>4
      <4>2. CASE i = k + 1
        BY <4>1, <4>2
      <4>3. CASE i \in 1 .. k
        <5> DEFINE a == Len(locations[i].uri)
                   c == Len(locations[j].uri)
                   d == Len(locations[k + 1].uri)
        <5>1. a \in Nat /\ c \in Nat /\ d \in Nat /\ a =< c /\ d > c
          BY <2>1, <2>5, <4>1, <4>3
        <5> HIDE DEF a, c, d
        <5>2. a =< d
          BY <5>1
        <5> QED
          BY <5>2 DEF a, d
      <4> QED
        BY <2>4, <4>2, <4>3
    <3> QED
      BY <2>4, <3>1, <3>2
  <2>6. CASE ~ (Len(locations[k + 1].uri) > Len(locations[j].uri))
    <3>1. f[1 .. k + 1] = locations[j]
      BY <2>2, <2>6 DEF Longer
    <3>2. \A i \in 1 .. k + 1 : Len(locations[i].uri) =< Len(locations[j].uri)
      BY <2>1, <2>3, <2>4, <2>6
    <3> QED
      BY <3>1, <3>2
  <2> QED
    BY <2>5, <2>6
<1> HIDE DEF T
<1>9. T = Nat
  <2>1. T \in SUBSET Nat
    BY DEF T
  <2> QED
    BY <1>7, <1>8, <2>1, SetInduction
<1>10. n \in T
  BY <1>0, <1>9
<1>11. Best(f[1 .. n], n)
  BY <1>0, <1>10 DEF T
<1> QED
  BY <1>0, <1>1, <1>11

(***************************************************************************)
(* LocationSelection takes the location with the longest URI that the path *)
(* begins with, if there is one that it begins with.                       *)
(***************************************************************************)
THEOREM LocationSelected ==
    ASSUME NEW S, \A l \in S : l.uri \in Seq(STRING), NEW server, server.locations \in Seq(S), NEW path,
           \E l \in DOMAIN server.locations : IsPrefix(server.locations[l].uri, path)
    PROVE  \E l \in DOMAIN server.locations :
              /\ LocationSelection(server, path) = server.locations[l]
              /\ IsPrefix(server.locations[l].uri, path)
              /\ \A k \in DOMAIN server.locations :
                    IsPrefix(server.locations[k].uri, path)
                       => Len(server.locations[k].uri) =< Len(server.locations[l].uri)
<1> DEFINE locations == server.locations
           compatible == CompatibleLocations(locations, path)
           I == { i \in DOMAIN locations : IsPrefix(locations[i].uri, path) }
<1>0. locations \in Seq(S)
  OBVIOUS
<1>1. compatible \in Seq(S) /\ IsChoice(compatible, locations, I)
  <2> HIDE DEF locations
  <2> QED
    BY <1>0, CompatibleLocationsChoice
<1>2. PICK e : IsChoiceBy(e, compatible, locations, I)
  BY <1>1 DEF IsChoice
<1> HIDE DEF compatible
<1>3. /\ \A j \in 1 .. Len(compatible) : e[j] \in I /\ compatible[j] = locations[e[j]]
      /\ \A i \in I : \E j \in 1 .. Len(compatible) : e[j] = i
  BY <1>2 DEF IsChoiceBy
<1>4. compatible # << >>
  <2>1. \E i \in I : TRUE
    OBVIOUS
  <2> HIDE DEF I
  <2>2. PICK j \in 1 .. Len(compatible) : TRUE
    BY <1>3, <2>1
  <2> QED
    BY <1>1, <2>2
<1>5. LocationSelection(server, path) = LongestMatch(compatible)
  BY <1>4 DEF LocationSelection, compatible
<1>6. PICK j \in DOMAIN compatible :
         /\ LongestMatch(compatible) = compatible[j]
         /\ \A k \in DOMAIN compatible : Len(compatible[k].uri) =< Len(compatible[j].uri)
  BY <1>1, <1>4, LongestMatchIsLongest
<1>7. DOMAIN compatible = 1 .. Len(compatible)
  BY <1>1
<1>8. e[j] \in I /\ compatible[j] = locations[e[j]]
  BY <1>3, <1>6, <1>7
<1>9. ASSUME NEW i \in I PROVE Len(locations[i].uri) =< Len(locations[e[j]].uri)
  <2>1. PICK k \in 1 .. Len(compatible) : e[k] = i
    BY <1>3, <1>9
  <2>2. compatible[k] = locations[i]
    BY <1>3, <2>1
  <2> QED
    BY <1>6, <1>7, <1>8, <2>1, <2>2
<1>10. /\ e[j] \in DOMAIN locations
       /\ LocationSelection(server, path) = locations[e[j]]
       /\ IsPrefix(locations[e[j]].uri, path)
       /\ \A k \in DOMAIN locations :
             IsPrefix(locations[k].uri, path) => Len(locations[k].uri) =< Len(locations[e[j]].uri)
  BY <1>5, <1>6, <1>8, <1>9
<1> QED
  BY <1>10
=============================================================================
