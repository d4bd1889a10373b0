-------------------------- MODULE MessageBody_proofs ---------------------------
(***************************************************************************)
(* What MessageBody promises, for messages of any number of chunks, fields *)
(* and octets, cut anywhere.  From Target_proofs come the facts about      *)
(* induction, folds and sequences.                                         *)
(***************************************************************************)
EXTENDS MessageBody, Target_proofs, SequenceTheorems

-----------------------------------------------------------------------------
(* The loop of the parser: Turn by turn. *)

(* h has the parser after the characters of s at the places of each set. *)
TakesTurns(h, p, s, n) ==
    \A t \in SUBSET (1 .. n) : h[t] = IF t = {} THEN p ELSE Turn(h[t \ {Max(t)}], s[Max(t)])

LEMMA TurnsExist ==
    ASSUME NEW p, NEW s, NEW n \in Nat
    PROVE  \E h : DOMAIN h = SUBSET (1 .. n) /\ TakesTurns(h, p, s, n)
<1> DEFINE Exists(k) == \E h : DOMAIN h = SUBSET (1 .. k) /\ TakesTurns(h, p, s, k)
           S == { k \in Nat : Exists(k) }
<1>1. Exists(0)
  <2> DEFINE h == [t \in SUBSET (1 .. 0) |-> p]
  <2>1. DOMAIN h = SUBSET (1 .. 0) /\ TakesTurns(h, p, s, 0)
    BY DEF TakesTurns
  <2> QED
    BY <2>1
<1>2. ASSUME NEW k \in Nat, Exists(k) PROVE Exists(k + 1)
  <2>1. PICK g : DOMAIN g = SUBSET (1 .. k) /\ TakesTurns(g, p, s, k)
    BY <1>2
  <2> DEFINE h == [t \in SUBSET (1 .. k + 1) |->
                      IF k + 1 \in t THEN Turn(g[t \ {k + 1}], s[k + 1]) ELSE g[t]]
  <2>2. \A t \in SUBSET (1 .. k + 1) : t \ {k + 1} \in SUBSET (1 .. k)
    OBVIOUS
  <2>3. ASSUME NEW t \in SUBSET (1 .. k + 1)
        PROVE  h[t] = IF t = {} THEN p ELSE Turn(h[t \ {Max(t)}], s[Max(t)])
    <3>1. CASE t = {}
      <4>1. h[{}] = g[{}] /\ g[{}] = p
        BY <2>1 DEF TakesTurns
      <4> QED
        BY <3>1, <4>1
    <3>2. CASE k + 1 \in t
      <4>1. Max(t) = k + 1
        <5>1. k + 1 \in Nat /\ t # {}
          BY <3>2
        <5>2. Max(t) \in t /\ \A y \in t : y =< Max(t)
          BY <5>1, MaxExists
        <5>3. Max(t) \in 1 .. k + 1 /\ k + 1 =< Max(t)
          BY <3>2, <5>2
        <5> QED
          BY <5>3
      <4>2. h[t \ {k + 1}] = g[t \ {k + 1}]
        BY <2>2
      <4>3. h[t] = Turn(g[t \ {k + 1}], s[k + 1])
        BY <3>2
      <4> HIDE DEF h
      <4> QED
        BY <3>2, <4>1, <4>2, <4>3
    <3>3. CASE t # {} /\ k + 1 \notin t
      <4>1. t \in SUBSET (1 .. k)
        BY <3>3
      <4>2. h[t] = g[t] /\ h[t \ {Max(t)}] = g[t \ {Max(t)}]
        BY <3>3
      <4>3. g[t] = Turn(g[t \ {Max(t)}], s[Max(t)])
        BY <2>1, <3>3, <4>1 DEF TakesTurns
      <4> HIDE DEF h
      <4> QED
        BY <3>3, <4>2, <4>3
    <3> QED
      BY <3>1, <3>2, <3>3
  <2>4. DOMAIN h = SUBSET (1 .. k + 1)
    OBVIOUS
  <2> HIDE DEF h
  <2>5. TakesTurns(h, p, s, k + 1)
    BY <2>3 DEF TakesTurns
  <2> QED
    BY <2>4, <2>5
<1> HIDE DEF Exists
<1>3. 0 \in S /\ \A k \in S : k + 1 \in S
  BY <1>1, <1>2
<1>4. S = Nat
  <2> HIDE DEF S
  <2>1. S \in SUBSET Nat
    BY DEF S
  <2> QED
    BY <1>3, <2>1, SetInduction
<1>5. Exists(n)
  BY <1>4
<1> QED
  BY <1>5 DEF Exists

TurnsOf(p, s) == FoldLeft(Turn, p, s)

LEMMA ParseIs ==
    ASSUME NEW p, NEW input
    PROVE  Parse(p, input)
             = AfterParseCheck(TurnsOf([p EXCEPT !.error = NoError], Append(input, "NUL")))
  BY Zenon DEF Parse, TurnsOf, FoldLeft, MapThenFoldSet

(* h[k] is the parser behind the first k of n characters of s. *)
TurnsAre(h, p, s, n) ==
    h[0] = p /\ \A k \in 0 .. n - 1 : h[k + 1] = Turn(h[k], s[k + 1])

(* A piece is parsed by as many turns as it has characters. *)
LEMMA TurnByTurn ==
    ASSUME NEW p, NEW s, NEW n \in Nat, DOMAIN s = 1 .. n
    PROVE  \E h : TurnsAre(h, p, s, n) /\ TurnsOf(p, s) = h[n]
<1> DEFINE IsFold(iter) == iter = [t \in SUBSET (1 .. n) |->
               IF t = {} THEN p ELSE Turn(iter[t \ {Max(t)}], s[Max(t)])]
           f == CHOOSE iter : IsFold(iter)
<1>1. TurnsOf(p, s) = f[1 .. n]
  BY Zenon DEF TurnsOf, FoldLeft, MapThenFoldSet
<1>2. PICK h : DOMAIN h = SUBSET (1 .. n) /\ TakesTurns(h, p, s, n)
  BY TurnsExist
<1>3. \E iter : IsFold(iter)
  <2> DEFINE g == [t \in SUBSET (1 .. n) |-> h[t]]
  <2>1. \A t \in SUBSET (1 .. n) : g[t] = h[t] /\ t \ {Max(t)} \in SUBSET (1 .. n)
    OBVIOUS
  <2>2. ASSUME NEW t \in SUBSET (1 .. n)
        PROVE  h[t] = IF t = {} THEN p ELSE Turn(g[t \ {Max(t)}], s[Max(t)])
    <3> HIDE DEF g
    <3> QED
      BY <1>2, <2>1, Zenon DEF TakesTurns
  <2>3. IsFold(g)
    BY <2>2
  <2> HIDE DEF IsFold, g
  <2> QED
    BY <2>3
<1>4. IsFold(f)
  <2> HIDE DEF IsFold
  <2> QED
    BY <1>3
<1> HIDE DEF f
<1>5. TakesTurns(f, p, s, n)
  BY <1>4 DEF TakesTurns
<1> DEFINE g == [k \in 0 .. n |-> f[1 .. k]]
<1>6. g[0] = p
  <2>1. 1 .. 0 = {} /\ 0 \in 0 .. n /\ {} \in SUBSET (1 .. n)
    OBVIOUS
  <2> QED
    BY <1>5, <2>1 DEF TakesTurns
<1>7. ASSUME NEW k \in 0 .. n - 1 PROVE g[k + 1] = Turn(g[k], s[k + 1])
  <2>1. k \in Nat /\ k \in 0 .. n /\ k + 1 \in 0 .. n /\ 1 .. k + 1 \in SUBSET (1 .. n)
    OBVIOUS
  <2>2. f[1 .. k + 1] = Turn(f[1 .. k], s[k + 1])
    <3>1. 1 .. k + 1 # {} /\ Max(1 .. k + 1) = k + 1 /\ (1 .. k + 1) \ {k + 1} = 1 .. k
      BY <2>1, Segments
    <3>2. PICK t \in SUBSET (1 .. n) : t = 1 .. k + 1
      BY <2>1
    <3>3. f[t] = Turn(f[t \ {Max(t)}], s[Max(t)])
      BY <1>5, <3>1, <3>2, Zenon DEF TakesTurns
    <3> QED
      BY <3>1, <3>2, <3>3, Zenon
  <2> QED
    BY <2>1, <2>2
<1>8. g[n] = f[1 .. n]
  OBVIOUS
<1> HIDE DEF g
<1> QED
  BY <1>1, <1>6, <1>7, <1>8 DEF TurnsAre

-----------------------------------------------------------------------------
(* Texts put together of parts. *)

(* The characters of two texts behind each other. *)
LEMMA Joined ==
    ASSUME NEW S, NEW p \in Seq(S), NEW q \in Seq(S)
    PROVE  /\ p \o q \in Seq(S) /\ Len(p \o q) = Len(p) + Len(q)
           /\ \A i \in 1 .. Len(p) : (p \o q)[i] = p[i]
           /\ \A i \in 1 .. Len(q) : (p \o q)[Len(p) + i] = q[i]
  OBVIOUS

(* Where the parts ss of the text w are: the i-th is what ends at o[i]. *)
IsFlat(o, ss, w) ==
    /\ o \in [0 .. Len(ss) -> Nat] /\ o[0] = 0
    /\ Len(w) = o[Len(ss)]
    /\ \A i \in 1 .. Len(ss) : o[i] = o[i - 1] + Len(ss[i])
    /\ \A i \in 0 .. Len(ss) : o[i] =< Len(w)
    /\ \A i \in 1 .. Len(ss) : \A j \in 1 .. Len(ss[i]) : w[o[i - 1] + j] = ss[i][j]

(* f has what the first parts of ss are together. *)
Flattens(f, ss, n) ==
    \A i \in 1 .. n : f[i] = IF i = 1 THEN ss[i] ELSE f[i - 1] \o ss[i]

LEMMA FlatteningExists ==
    ASSUME NEW ss, NEW n \in Nat
    PROVE  \E f : DOMAIN f = 1 .. n /\ Flattens(f, ss, n)
<1> DEFINE Exists(k) == \E f : DOMAIN f = 1 .. k /\ Flattens(f, ss, k)
           S == { k \in Nat : Exists(k) }
<1>1. Exists(0)
  <2> DEFINE f == [i \in 1 .. 0 |-> ss]
  <2>1. DOMAIN f = 1 .. 0 /\ Flattens(f, ss, 0)
    BY DEF Flattens
  <2> QED
    BY <2>1
<1>2. ASSUME NEW k \in Nat, Exists(k) PROVE Exists(k + 1)
  <2>1. PICK g : DOMAIN g = 1 .. k /\ Flattens(g, ss, k)
    BY <1>2
  <2> DEFINE f == [i \in 1 .. k + 1 |->
                      IF i = k + 1 THEN IF i = 1 THEN ss[i] ELSE g[i - 1] \o ss[i] ELSE g[i]]
  <2>2. ASSUME NEW i \in 1 .. k + 1
        PROVE  f[i] = IF i = 1 THEN ss[i] ELSE f[i - 1] \o ss[i]
    <3>1. i # 1 => f[i - 1] = g[i - 1]
      OBVIOUS
    <3>2. CASE i = k + 1
      BY <3>1, <3>2
    <3>3. CASE i # k + 1
      <4>1. i \in 1 .. k /\ f[i] = g[i]
        BY <3>3
      <4>2. g[i] = IF i = 1 THEN ss[i] ELSE g[i - 1] \o ss[i]
        BY <2>1, <4>1 DEF Flattens
      <4> HIDE DEF f
      <4> QED
        BY <3>1, <4>1, <4>2
    <3> QED
      BY <3>2, <3>3
  <2>3. DOMAIN f = 1 .. k + 1
    OBVIOUS
  <2> HIDE DEF f
  <2> QED
    BY <2>2, <2>3 DEF Flattens
<1> HIDE DEF Exists
<1>3. 0 \in S /\ \A k \in S : k + 1 \in S
  BY <1>1, <1>2
<1>4. S = Nat
  <2> HIDE DEF S
  <2>1. S \in SUBSET Nat
    BY DEF S
  <2> QED
    BY <1>3, <2>1, SetInduction
<1>5. Exists(n)
  BY <1>4
<1> QED
  BY <1>5 DEF Exists

LEMMA FlattenedType ==
    ASSUME NEW S, NEW ss, NEW n \in Nat, \A i \in 1 .. n : ss[i] \in Seq(S),
           NEW f, Flattens(f, ss, n)
    PROVE  \A i \in 1 .. n : f[i] \in Seq(S)
<1> DEFINE T == { k \in Nat : k + 1 =< n => f[k + 1] \in Seq(S) }
<1>1. 0 \in T
  <2>1. ASSUME 1 =< n PROVE f[1] \in Seq(S)
    BY <2>1 DEF Flattens
  <2> QED
    BY <2>1
<1>2. ASSUME NEW k \in T PROVE k + 1 \in T
  <2>1. ASSUME (k + 1) + 1 =< n PROVE f[(k + 1) + 1] \in Seq(S)
    <3>1. f[k + 1] \in Seq(S)
      BY <2>1
    <3>2. (k + 1) + 1 \in 1 .. n /\ (k + 1) + 1 # 1 /\ ((k + 1) + 1) - 1 = k + 1
      BY <2>1
    <3>3. f[(k + 1) + 1] = f[k + 1] \o ss[(k + 1) + 1]
      BY <3>2 DEF Flattens
    <3>4. ss[(k + 1) + 1] \in Seq(S)
      BY <3>2
    <3> QED
      BY <3>1, <3>3, <3>4
  <2> QED
    BY <2>1
<1>3. T = Nat
  <2> HIDE DEF T
  <2>1. T \in SUBSET Nat
    BY DEF T
  <2> QED
    BY <1>1, <1>2, <2>1, SetInduction
<1>4. ASSUME NEW i \in 1 .. n PROVE f[i] \in Seq(S)
  <2>1. i - 1 \in Nat /\ (i - 1) + 1 = i /\ i =< n
    OBVIOUS
  <2> HIDE DEF T
  <2>2. i - 1 \in T
    BY <1>3, <2>1
  <2> QED
    BY <2>1, <2>2 DEF T
<1> QED
  BY <1>4

(* Sums of numbers that are not negative. *)
LEMMA SumsGrow ==
    ASSUME NEW n \in Nat, NEW o \in [0 .. n -> Nat], \A i \in 1 .. n : o[i - 1] =< o[i]
    PROVE  \A k \in 0 .. n : \A i \in 0 .. k : o[i] =< o[k]
<1> DEFINE T == { k \in Nat : k =< n => \A i \in 0 .. k : o[i] =< o[k] }
<1>1. 0 \in T
  OBVIOUS
<1>2. ASSUME NEW k \in T PROVE k + 1 \in T
  <2>1. ASSUME k + 1 =< n, NEW i \in 0 .. k + 1 PROVE o[i] =< o[k + 1]
    <3>1. o[k] =< o[k + 1] /\ o[k] \in Nat /\ o[k + 1] \in Nat /\ o[i] \in Nat
      <4>1. k + 1 \in 1 .. n /\ (k + 1) - 1 = k /\ k \in 0 .. n
        BY <2>1
      <4> QED
        BY <2>1, <4>1
    <3>2. i \in 0 .. k => o[i] =< o[k]
      BY <2>1
    <3> QED
      BY <3>1, <3>2
  <2> QED
    BY <2>1
<1>3. T = Nat
  <2> HIDE DEF T
  <2>1. T \in SUBSET Nat
    BY DEF T
  <2> QED
    BY <1>1, <1>2, <2>1, SetInduction
<1>4. ASSUME NEW k \in 0 .. n PROVE \A i \in 0 .. k : o[i] =< o[k]
  <2>1. k \in Nat /\ k =< n
    OBVIOUS
  <2> HIDE DEF T
  <2>2. k \in T
    BY <1>3, <2>1
  <2> QED
    BY <2>1, <2>2 DEF T
<1> QED
  BY <1>4

(* FlattenSeq has all elements of its parts in their places. *)
LEMMA FlattenIs ==
    ASSUME NEW S, NEW ss \in Seq(Seq(S))
    PROVE  /\ FlattenSeq(ss) \in Seq(S)
           /\ \E o : IsFlat(o, ss, FlattenSeq(ss))
<1> DEFINE n == Len(ss)
<1>1. CASE n = 0
  <2>1. FlattenSeq(ss) = << >> /\ ss = << >>
    BY <1>1 DEF FlattenSeq
  <2>2. IsFlat([i \in 0 .. 0 |-> 0], << >>, << >>)
    BY DEF IsFlat
  <2> QED
    BY <2>1, <2>2
<1>2. CASE n # 0
  <2> DEFINE IsFold(iter) == iter = [i \in 1 .. n |-> IF i = 1 THEN ss[i] ELSE iter[i - 1] \o ss[i]]
             f == CHOOSE iter : IsFold(iter)
             o == [k \in 0 .. n |-> IF k = 0 THEN 0 ELSE Len(f[k])]
  <2>1. FlattenSeq(ss) = f[n]
    BY <1>2, Zenon DEF FlattenSeq
  <2>2. n \in Nat /\ \A i \in 1 .. n : ss[i] \in Seq(S)
    OBVIOUS
  <2> HIDE DEF n
  <2>3. PICK h : DOMAIN h = 1 .. n /\ Flattens(h, ss, n)
    BY <2>2, FlatteningExists
  <2>4. \E iter : IsFold(iter)
    <3> DEFINE g == [i \in 1 .. n |-> h[i]]
    <3>1. \A i \in 1 .. n : g[i] = h[i] /\ (i # 1 => g[i - 1] = h[i - 1])
      BY <2>2
    <3>2. ASSUME NEW i \in 1 .. n
          PROVE  h[i] = IF i = 1 THEN ss[i] ELSE g[i - 1] \o ss[i]
      <4> HIDE DEF g
      <4> QED
        BY <2>3, <3>1, Zenon DEF Flattens
    <3>3. IsFold(g)
      BY <3>2
    <3> HIDE DEF IsFold, g
    <3> QED
      BY <3>3
  <2>5. IsFold(f)
    <3> HIDE DEF IsFold
    <3> QED
      BY <2>4
  <2> HIDE DEF f
  <2>6. Flattens(f, ss, n)
    BY <2>5 DEF Flattens
  <2> HIDE DEF IsFold
  <2>7. \A i \in 1 .. n : f[i] \in Seq(S)
    BY <2>2, <2>6, FlattenedType
  <2>8. o \in [0 .. n -> Nat] /\ o[0] = 0 /\ \A k \in 1 .. n : o[k] = Len(f[k])
    BY <2>2, <2>7
  <2>9. ASSUME NEW k \in 1 .. n, k # 1
        PROVE  /\ f[k - 1] \in Seq(S) /\ o[k] = o[k - 1] + Len(ss[k]) /\ Len(f[k - 1]) = o[k - 1]
               /\ \A j \in 1 .. o[k - 1] : f[k][j] = f[k - 1][j]
               /\ \A j \in 1 .. Len(ss[k]) : f[k][o[k - 1] + j] = ss[k][j]
    <3>1. k - 1 \in 1 .. n /\ f[k] = f[k - 1] \o ss[k]
      <4>1. k - 1 \in 1 .. n
        BY <2>2, <2>9
      <4>2. f[k] = IF k = 1 THEN ss[k] ELSE f[k - 1] \o ss[k]
        BY <2>6, Zenon DEF Flattens
      <4> QED
        BY <2>9, <4>1, <4>2
    <3>2. PICK a \in Seq(S), b \in Seq(S) : a = f[k - 1] /\ b = ss[k]
      BY <2>2, <2>7, <3>1
    <3>3. /\ a \o b \in Seq(S) /\ Len(a \o b) = Len(a) + Len(b)
          /\ \A i \in 1 .. Len(a) : (a \o b)[i] = a[i]
          /\ \A i \in 1 .. Len(b) : (a \o b)[Len(a) + i] = b[i]
      BY Joined
    <3> HIDE DEF o
    <3>4. f[k] = a \o b /\ o[k - 1] = Len(a) /\ o[k] = Len(f[k])
      <4>1. o[k - 1] = Len(f[k - 1]) /\ o[k] = Len(f[k])
        BY <2>8, <3>1
      <4> QED
        BY <3>1, <3>2, <4>1, Zenon
    <3> QED
      BY <3>2, <3>3, <3>4
  <2>10. 1 \in 1 .. n /\ f[1] = ss[1] /\ o[1] = Len(ss[1])
    BY <1>2, <2>2, <2>6, <2>8 DEF Flattens
  <2> HIDE DEF o
  <2>11. \A i \in 1 .. n : o[i] = o[i - 1] + Len(ss[i])
    <3>1. Len(ss[1]) \in Nat /\ o[1 - 1] = 0
      BY <2>2, <2>8, <2>10
    <3> QED
      BY <2>9, <2>10, <3>1
  <2>12. \A i \in 1 .. n : o[i - 1] =< o[i] /\ o[i - 1] \in Nat /\ Len(ss[i]) \in Nat
    <3>1. \A i \in 1 .. n : i - 1 \in 0 .. n /\ i \in 0 .. n
      BY <2>2
    <3> QED
      BY <2>2, <2>8, <2>11, <3>1, SMTT(60)
  <2>13. \A k \in 0 .. n : \A i \in 0 .. k : o[i] =< o[k]
    BY <2>2, <2>8, <2>12, SumsGrow
  <2> DEFINE Has(k) == \A i \in 1 .. k : \A j \in 1 .. Len(ss[i]) : f[k][o[i - 1] + j] = ss[i][j]
             T == { k \in Nat : k + 1 =< n => Has(k + 1) }
  <2>14. Has(1)
    <3>1. ASSUME NEW j \in 1 .. Len(ss[1]) PROVE f[1][o[1 - 1] + j] = ss[1][j]
      <4>1. o[1 - 1] + j = j
        BY <2>8
      <4> QED
        BY <2>10, <4>1
    <3>2. \A i \in 1 .. 1 : i = 1
      OBVIOUS
    <3> QED
      BY <3>1, <3>2
  <2>15. ASSUME NEW k \in Nat \ {0}, k + 1 =< n, Has(k) PROVE Has(k + 1)
    <3> SUFFICES ASSUME NEW i \in 1 .. k + 1, NEW j \in 1 .. Len(ss[i])
                 PROVE  f[k + 1][o[i - 1] + j] = ss[i][j]
      OBVIOUS
    <3>1. k + 1 \in 1 .. n /\ k + 1 # 1 /\ (k + 1) - 1 = k
      BY <2>2, <2>15
    <3>2. CASE i = k + 1
      BY <2>9, <3>1, <3>2
    <3>3. CASE i # k + 1
      <4>1. i \in 1 .. k /\ i \in 1 .. n /\ i \in 0 .. k /\ k \in 0 .. n
        BY <2>2, <2>15, <3>3
      <4>2. f[k][o[i - 1] + j] = ss[i][j]
        BY <2>15, <4>1
      <4>3. o[i] =< o[k] /\ o[i] = o[i - 1] + Len(ss[i]) /\ o[i - 1] \in Nat /\ o[k] \in Nat
        BY <2>8, <2>11, <2>12, <2>13, <4>1
      <4>4. o[i - 1] + j \in 1 .. o[k]
        BY <4>1, <4>3, <2>12, SMTT(60)
      <4>5. f[k + 1][o[i - 1] + j] = f[k][o[i - 1] + j]
        BY <2>9, <3>1, <4>4
      <4> QED
        BY <4>2, <4>5
    <3> QED
      BY <3>2, <3>3
  <2> HIDE DEF Has
  <2>16. T = Nat
    <3>1. 0 \in T
      BY <2>14
    <3>2. ASSUME NEW k \in T PROVE k + 1 \in T
      <4>1. k \in Nat /\ (k + 1 =< n => Has(k + 1))
        OBVIOUS
      <4>2. PICK i \in Nat \ {0} : i = k + 1
        BY <4>1
      <4>3. i + 1 =< n => Has(i + 1)
        <5>1. i + 1 =< n => i =< n
          BY <2>2
        <5> QED
          BY <2>15, <4>1, <4>2, <5>1
      <4> QED
        BY <4>2, <4>3
    <3>3. T \in SUBSET Nat
      OBVIOUS
    <3> HIDE DEF T
    <3> QED
      BY <3>1, <3>2, <3>3, SetInduction
  <2>17. Has(n)
    <3>1. n - 1 \in Nat /\ (n - 1) + 1 = n /\ n =< n
      BY <1>2, <2>2
    <3> HIDE DEF T
    <3>2. n - 1 \in T
      BY <2>16, <3>1
    <3> QED
      BY <3>1, <3>2 DEF T
  <2>18. f[n] \in Seq(S) /\ Len(f[n]) = o[n]
    BY <1>2, <2>2, <2>7, <2>8
  <2>19. \A i \in 0 .. n : o[i] =< Len(f[n])
    BY <2>2, <2>13, <2>18
  <2>20. IsFlat(o, ss, f[n])
    BY <2>8, <2>11, <2>17, <2>18, <2>19 DEF IsFlat, Has, n
  <2> QED
    BY <2>1, <2>18, <2>20
<1> QED
  BY <1>1, <1>2
-----------------------------------------------------------------------------
(* Sizes, and the digits they are written with. *)

DigitSet == {"0", "1", "2", "3", "4", "5", "6", "7", "8", "9", "A", "B", "C", "D", "E", "F"}

LEMMA HexDigitsLength == DOMAIN HexDigits = 1 .. 16 /\ Len(HexDigits) = 16
  BY DEF HexDigits

LEMMA HexDigitsAre == \A i \in 1 .. 16 : HexDigits[i] \in DigitSet
  BY DEF HexDigits, DigitSet

LEMMA HexDigIs == ASSUME NEW c, IsHexDig(c) PROVE c \in DigitSet
  BY HexDigitsLength, HexDigitsAre DEF IsHexDig, ToSet

LEMMA HexDigitsDiffer == \A i, j \in 1 .. 16 : HexDigits[i] = HexDigits[j] => i = j
  BY DEF HexDigits

LEMMA DigitsAre == \A i \in 1 .. 10 : IsDigit(HexDigits[i])
<1>1. PICK s : s = HexDigits
  OBVIOUS
<1>2. s \in Seq(DigitSet) /\ Len(s) = 16
  BY <1>1 DEF HexDigits, DigitSet
<1>3. DOMAIN SubSeq(s, 1, 10) = 1 .. 10 /\ \A i \in 1 .. 10 : SubSeq(s, 1, 10)[i] = s[i]
  BY <1>2
<1> QED
  BY <1>1, <1>3, Zenon DEF IsDigit, ToSet

LEMMA SizeDigits == \A i \in 2 .. 16 : IsHexDig(HexDigits[i]) /\ HexDigits[i] # "0" /\ HexDigits[i] # "NUL"
<1>1. \A i \in 2 .. 16 : HexDigits[i] # "0" 
  BY DEF HexDigits
<1>2. \A i \in 1 .. 16 : HexDigits[i] # "NUL"
  BY HexDigitsAre DEF DigitSet
<1>3. \A i \in 1 .. 16 : IsHexDig(HexDigits[i])
  BY HexDigitsLength, Zenon DEF IsHexDig, ToSet
<1> QED
  BY <1>1, <1>2, <1>3

LEMMA HexValueOf == \A i \in 1 .. 16 : HexValue(HexDigits[i]) = i - 1
  BY HexDigitsDiffer DEF HexValue

LEMMA HextoDecByDigits ==
    ASSUME NEW b, NEW n \in Nat, n # 0, DOMAIN b = 1 .. n, Head(b) # "NUL",
           \A i \in 1 .. n : HexValue(b[i]) \in Nat
    PROVE  \E g : /\ g[0] = 0
                  /\ \A k \in 0 .. n - 1 : g[k + 1] = 16 * g[k] + HexValue(b[k + 1])
                  /\ HextoDec(b) = g[n]
<1> DEFINE IsFold(iter) == iter = [s \in SUBSET (1 .. n) |->
                              IF s = {} THEN 0 ELSE 16 * iter[s \ {Max(s)}] + HexValue(b[Max(s)])]
           f == CHOOSE iter : IsFold(iter)
           F == [q \in Nat \X (1 .. n) |-> 16 * q[1] + HexValue(b[q[2]])]
<1>1. HextoDec(b) = f[1 .. n]
  BY Zenon DEF HextoDec, FoldLeft, MapThenFoldSet
<1>2. F \in [Nat \X (1 .. n) -> Nat]
  <2>1. ASSUME NEW q \in Nat \X (1 .. n) PROVE 16 * q[1] + HexValue(b[q[2]]) \in Nat
    <3>1. PICK x \in Nat, y \in Nat : x = q[1] /\ y = HexValue(b[q[2]])
      OBVIOUS
    <3> QED
      BY <3>1
  <2> QED
    BY <2>1
<1>3. \E h : IsFold(h)
  <2>1. PICK h \in [SUBSET (1 .. n) -> Nat] : TakesIn(h, n, 0, F)
    <3>1. 0 \in Nat
      OBVIOUS
    <3> HIDE DEF F
    <3> QED
      BY <1>2, <3>1, FoldExists
  <2>2. ASSUME NEW s \in SUBSET (1 .. n), s # {}
        PROVE  h[s] = 16 * h[s \ {Max(s)}] + HexValue(b[Max(s)])
    <3>1. Max(s) \in 1 .. n /\ s \ {Max(s)} \in SUBSET (1 .. n)
      BY <2>2, MaxExists
    <3>2. << h[s \ {Max(s)}], Max(s) >> \in Nat \X (1 .. n)
      BY <3>1
    <3>3. h[s] = F[<< h[s \ {Max(s)}], Max(s) >>]
      BY <2>1, <2>2 DEF TakesIn
    <3> QED
      BY <3>2, <3>3
  <2>3. h[{}] = 0
    BY <2>1 DEF TakesIn
  <2>4. IsFold(h)
    BY <2>2, <2>3
  <2> QED
    BY <2>4
<1>4. IsFold(f)
  <2> HIDE DEF IsFold
  <2> QED
    BY <1>3
<1> DEFINE g == [k \in 0 .. n |-> f[1 .. k]]
<1>5. g[0] = 0
  <2>1. 1 .. 0 = {} /\ 0 \in 0 .. n /\ {} \in SUBSET (1 .. n)
    OBVIOUS
  <2>2. f[{}] = 0
    BY <1>4
  <2> QED
    BY <2>1, <2>2
<1>6. ASSUME NEW k \in 0 .. n - 1 PROVE g[k + 1] = 16 * g[k] + HexValue(b[k + 1])
  <2>1. k \in Nat /\ k \in 0 .. n /\ k + 1 \in 0 .. n /\ 1 .. k + 1 \in SUBSET (1 .. n)
    OBVIOUS
  <2>2. f[1 .. k + 1] = 16 * f[1 .. k] + HexValue(b[k + 1])
    <3>1. 1 .. k + 1 # {} /\ Max(1 .. k + 1) = k + 1 /\ (1 .. k + 1) \ {k + 1} = 1 .. k
      BY <2>1, Segments
    <3>2. PICK s \in SUBSET (1 .. n) : s = 1 .. k + 1
      BY <2>1
    <3>3. f[s] = IF s = {} THEN 0 ELSE 16 * f[s \ {Max(s)}] + HexValue(b[Max(s)])
      <4> HIDE DEF f
      <4> QED
        BY <1>4
    <3> QED
      BY <3>1, <3>2, <3>3, Zenon
  <2> QED
    BY <2>1, <2>2
<1>7. g[n] = f[1 .. n]
  OBVIOUS
<1> HIDE DEF g
<1> QED
  BY <1>1, <1>5, <1>6, <1>7

(* What a chunk size is read as is what was written, of one digit or of two. *)
LEMMA HexIsRead ==
    ASSUME NEW L \in 1 .. 255
    PROVE  \/ /\ L < 16 /\ Hex(L) = << HexDigits[L + 1] >>
              /\ HextoDec(<< HexDigits[L + 1] >>) = L
           \/ /\ L >= 16
              /\ Hex(L) = << HexDigits[(L \div 16) + 1], HexDigits[(L % 16) + 1] >>
              /\ HextoDec(<< HexDigits[(L \div 16) + 1], HexDigits[(L % 16) + 1] >>) = L
<1>1. CASE L < 16
  <2>1. PICK c : c = HexDigits[L + 1]
    OBVIOUS
  <2>2. HexValue(c) = L /\ c # "NUL"
    <3>1. L + 1 \in 2 .. 16 /\ L + 1 \in 1 .. 16 /\ (L + 1) - 1 = L
      BY <1>1
    <3> QED
      BY <2>1, <3>1, SizeDigits, HexValueOf
  <2>3. PICK b : b = << c >>
    OBVIOUS
  <2>4. DOMAIN b = 1 .. 1 /\ Head(b) = c /\ b[1] = c
    BY <2>3
  <2>5. PICK g : /\ g[0] = 0
                 /\ \A k \in 0 .. 1 - 1 : g[k + 1] = 16 * g[k] + HexValue(b[k + 1])
                 /\ HextoDec(b) = g[1]
    <3>1. \A i \in 1 .. 1 : HexValue(b[i]) \in Nat
      BY <2>2, <2>4
    <3>2. 1 \in Nat /\ 1 # 0 /\ Head(b) # "NUL"
      BY <2>2, <2>4
    <3> QED
      BY <2>2, <2>4, <3>1, <3>2, HextoDecByDigits
  <2>6. g[1] = L
    <3>1. g[0 + 1] = 16 * g[0] + HexValue(b[0 + 1])
      BY <2>5
    <3> QED
      BY <2>2, <2>4, <2>5, <3>1
  <2>7. Hex(L) = << c >>
    BY <1>1, <2>1 DEF Hex
  <2> QED
    BY <1>1, <2>1, <2>3, <2>5, <2>6, <2>7
<1>2. CASE L >= 16
  <2>1. PICK u \in 1 .. 15, v \in 0 .. 15 : u = L \div 16 /\ v = L % 16 /\ L = 16 * u + v
    BY <1>2
  <2>2. PICK c, e : c = HexDigits[u + 1] /\ e = HexDigits[v + 1]
    OBVIOUS
  <2>3. HexValue(c) = u /\ HexValue(e) = v /\ c # "NUL"
    <3>1. u + 1 \in 2 .. 16 /\ u + 1 \in 1 .. 16 /\ (u + 1) - 1 = u
      BY <2>1
    <3>2. v + 1 \in 1 .. 16 /\ (v + 1) - 1 = v
      BY <2>1
    <3> QED
      BY <2>2, <3>1, <3>2, SizeDigits, HexValueOf
  <2>4. PICK b : b = << c, e >>
    OBVIOUS
  <2>5. DOMAIN b = 1 .. 2 /\ Head(b) = c /\ b[1] = c /\ b[2] = e
    BY <2>4
  <2>6. PICK g : /\ g[0] = 0
                 /\ \A k \in 0 .. 2 - 1 : g[k + 1] = 16 * g[k] + HexValue(b[k + 1])
                 /\ HextoDec(b) = g[2]
    <3>1. \A i \in 1 .. 2 : HexValue(b[i]) \in Nat
      BY <2>3, <2>5
    <3>2. 2 \in Nat /\ 2 # 0 /\ Head(b) # "NUL"
      BY <2>3, <2>5
    <3> QED
      BY <2>3, <2>5, <3>1, <3>2, HextoDecByDigits
  <2>7. g[1] = u
    <3>1. g[0 + 1] = 16 * g[0] + HexValue(b[0 + 1])
      BY <2>6
    <3> QED
      BY <2>3, <2>5, <2>6, <3>1
  <2>8. g[2] = L
    <3>1. g[1 + 1] = 16 * g[1] + HexValue(b[1 + 1])
      BY <2>6
    <3> QED
      BY <2>1, <2>3, <2>5, <2>7, <3>1
  <2>9. Hex(L) = << c, e >>
    <3>1. ~ (L < 16)
      BY <1>2
    <3> QED
      BY <2>1, <2>2, <3>1 DEF Hex
  <2> QED
    BY <1>2, <2>1, <2>2, <2>4, <2>6, <2>8, <2>9
<1> QED
  BY <1>1, <1>2
-----------------------------------------------------------------------------
(* Turns, one lemma for each state and kind of character. *)

(* What a parser without an exception holds, and what it has seen. *)
Holds(p, s, b, n, d) ==
    /\ p = [f \in DOMAIN NewParser |-> p[f]] /\ p.error = NoError /\ p.cur_state = s
    /\ p.buffer = b /\ p.chunk_size = n /\ p.body = d

Seen(p, x, n, t, r) == p.ext = x /\ p.ext_size = n /\ p.trailer = t /\ p.cr = r

Is(p, s, b, n, d, x, k, t, r) == Holds(p, s, b, n, d) /\ Seen(p, x, k, t, r)

LEMMA TurnIs ==
    ASSUME NEW p, NEW c, p.error = NoError, p.cur_state # "Done",
           NEW q, q = GetNextState(p, c), NEW s, NEW b, NEW n, NEW d, NEW x, NEW k, NEW t, NEW r,
           Is(q, s, b, n, d, x, k, t, r), s # "Invalid", q.skip_char \in BOOLEAN
    PROVE  Is(Turn(p, c), s, IF q.skip_char THEN b ELSE Append(b, c), n, d, x, k, t, r)
<1>1. Turn(p, c) = AfterHandler(q, c)
  BY DEF Turn
<1>2. AfterHandler(q, c) = CheckInvalidState(UpdateBuffer(q, c))
  BY DEF AfterHandler, Is, Holds
<1>3. PICK u : u = UpdateBuffer(q, c)
  OBVIOUS
<1>4. Is(u, s, IF q.skip_char THEN b ELSE Append(b, c), n, d, x, k, t, r)
  BY <1>3 DEF Is, Holds, Seen, NewParser, UpdateBuffer
<1>5. CheckInvalidState(u) = u
  BY <1>4 DEF Is, Holds, CheckInvalidState
<1> QED
  BY <1>1, <1>2, <1>3, <1>4, <1>5

LEMMA TurnSkips ==
    ASSUME NEW p, NEW c, p.error = NoError, p.cur_state # "Done",
           NEW q, q = GetNextState(p, c), NEW s, NEW b, NEW n, NEW d, NEW x, NEW k, NEW t, NEW r,
           Is(q, s, b, n, d, x, k, t, r), s # "Invalid", q.skip_char = TRUE
    PROVE  Is(Turn(p, c), s, b, n, d, x, k, t, r)
<1>1. q.skip_char \in BOOLEAN /\ b = IF q.skip_char THEN b ELSE Append(b, c)
  OBVIOUS
<1> QED
  BY <1>1, TurnIs

LEMMA PushIs ==
    ASSUME NEW p, NEW s, NEW b, NEW n, NEW d, NEW x, NEW k, NEW t, NEW r,
           Is(p, s, b, n, d, x, k, t, r), s # "Done",
           NEW c, NEW s2, s2 # "Invalid", GetNextState(p, c) = Push(p, s2)
    PROVE  Is(Turn(p, c), s2, Append(b, c), n, d, x, k, t, r)
<1>1. PICK q : q = Push(p, s2)
  OBVIOUS
<1>2. Is(q, s2, b, n, d, x, k, t, r) /\ q.skip_char = FALSE
  BY <1>1 DEF Is, Holds, Seen, NewParser, Push
<1>3. p.error = NoError /\ p.cur_state # "Done"
  BY DEF Is, Holds
<1> QED
  BY <1>1, <1>2, <1>3, TurnIs

LEMMA SkipIs ==
    ASSUME NEW p, NEW s, NEW b, NEW n, NEW d, NEW x, NEW k, NEW t, NEW r,
           Is(p, s, b, n, d, x, k, t, r), s # "Done",
           NEW c, NEW s2, s2 # "Invalid", GetNextState(p, c) = Skip(p, s2)
    PROVE  Is(Turn(p, c), s2, b, n, d, x, k, t, r)
<1>1. PICK q : q = Skip(p, s2)
  OBVIOUS
<1>2. Is(q, s2, b, n, d, x, k, t, r) /\ q.skip_char = TRUE
  BY <1>1 DEF Is, Holds, Seen, NewParser, Skip
<1>3. p.error = NoError /\ p.cur_state # "Done"
  BY DEF Is, Holds
<1> QED
  BY <1>1, <1>2, <1>3, TurnIs

LEMMA StartTakes ==
    ASSUME NEW p, NEW b, NEW n, NEW d, NEW x, NEW k, NEW t, NEW r,
           Is(p, "Start", b, n, d, x, k, t, r)
    PROVE  /\ Is(Turn(p, "0"), "Last", b, n, d, x, k, t, r)
           /\ Is(Turn(p, "NUL"), "Start", Append(b, "NUL"), n, d, x, k, t, r)
           /\ \A c : IsHexDig(c) /\ c # "0" /\ c # "NUL" =>
                 Is(Turn(p, c), "Size", Append(b, c), n, d, x, k, t, r)
<1>1. \A c : GetNextState(p, c) = StartHandler(p, c)
  BY DEF GetNextState, Is, Holds
<1>2. GetNextState(p, "0") = Skip(p, "Last") /\ GetNextState(p, "NUL") = Push(p, "Start")
  <2>1. ~ IsHexDig("NUL") /\ "NUL" # "0"
    BY DEF IsHexDig, ToSet, HexDigits
  <2>2. StartHandler(p, "0") = Skip(p, "Last")
    BY <2>1, Zenon DEF StartHandler
  <2>3. StartHandler(p, "NUL") = Push(p, "Start")
    BY <2>1, Zenon DEF StartHandler
  <2> QED
    BY <1>1, <2>2, <2>3
<1>3. ASSUME NEW c, IsHexDig(c), c # "0", c # "NUL"
      PROVE  GetNextState(p, c) = Push(p, "Size")
  BY <1>1, <1>3, Zenon DEF StartHandler
<1>4. Is(Turn(p, "0"), "Last", b, n, d, x, k, t, r)
  BY <1>2, SkipIs
<1>5. Is(Turn(p, "NUL"), "Start", Append(b, "NUL"), n, d, x, k, t, r)
  BY <1>2, PushIs
<1>6. ASSUME NEW c, IsHexDig(c), c # "0", c # "NUL"
      PROVE  Is(Turn(p, c), "Size", Append(b, c), n, d, x, k, t, r)
  BY <1>3, <1>6, PushIs
<1> QED
  BY <1>4, <1>5, <1>6

(* Both lines, of a size and of the last chunk. *)
LEMMA LineTakes ==
    ASSUME NEW p, NEW s, NEW b, NEW n, NEW d, NEW x, NEW k, NEW t, NEW r,
           Is(p, s, b, n, d, x, k, t, r), s \in {"Size", "Last"},
           NEW c, GetNextState(p, c) = LineHandler(p, c)
    PROVE  /\ ~ x /\ c = "NUL" => Is(Turn(p, c), s, b, n, d, x, k, t, r)
           /\ ~ x /\ c = ";" => Is(Turn(p, c), s, b, n, d, TRUE, k, t, r)
           /\ x /\ k \in 0 .. MaxChunkExt /\ c # "LF" =>
                 Is(Turn(p, c), s, b, n, d, x, k + 1, t, r)
<1>1. p.error = NoError /\ p.cur_state = s /\ p.ext = x /\ p.ext_size = k
  BY DEF Is, Holds, Seen
<1>2. ASSUME ~ x, c = "NUL" PROVE Is(Turn(p, c), s, b, n, d, x, k, t, r)
  <2>1. LineHandler(p, c) = Skip(p, s)
    BY <1>1, <1>2, Zenon DEF LineHandler
  <2> QED
    BY <2>1, SkipIs
<1>3. ASSUME ~ x, c = ";" PROVE Is(Turn(p, c), s, b, n, d, TRUE, k, t, r)
  <2>1. PICK q : q = [Skip(p, s) EXCEPT !.ext = TRUE]
    OBVIOUS
  <2>2. LineHandler(p, c) = q
    <3>1. c # "NUL" /\ c # "CR" /\ c # "LF"
      BY <1>3
    <3> QED
      BY <1>1, <1>3, <2>1, <3>1, Zenon DEF LineHandler
  <2>3. Is(q, s, b, n, d, TRUE, k, t, r) /\ q.skip_char = TRUE
    BY <2>1 DEF Is, Holds, Seen, NewParser, Skip
  <2> QED
    BY <1>1, <2>2, <2>3, TurnSkips
<1>4. ASSUME x, k \in 0 .. MaxChunkExt, c # "LF"
      PROVE  Is(Turn(p, c), s, b, n, d, x, k + 1, t, r)
  <2>1. PICK q : q = [Skip(p, s) EXCEPT !.ext_size = @ + 1]
    OBVIOUS
  <2>2. k =< MaxChunkExt /\ ~ (k > MaxChunkExt)
    BY <1>4, ChunkLimitsAssumption
  <2>3. LineHandler(p, c) = HandleChunkExtension(p, c)
    BY <1>1, <1>4, <2>2, Zenon DEF LineHandler
  <2>4. HandleChunkExtension(p, c) = q
    BY <1>1, <1>4, <2>1, Zenon DEF HandleChunkExtension
  <2>5. Is(q, s, b, n, d, x, k + 1, t, r) /\ q.skip_char = TRUE
    BY <2>1 DEF Is, Holds, Seen, NewParser, Skip
  <2> QED
    BY <1>1, <2>3, <2>4, <2>5, TurnSkips
<1> QED
  BY <1>2, <1>3, <1>4

LEMMA SizeHandlerIs ==
    ASSUME NEW p, NEW S, NEW b \in Seq(S), Len(b) =< 7, p.buffer = b, NEW c
    PROVE  /\ ~ p.ext /\ IsDigit(c) => SizeHandler(p, c) = Push(p, "Size")
           /\ ~ (~ p.ext /\ IsDigit(c)) => SizeHandler(p, c) = LineHandler(p, c)
<1>1. ~ (Len(b) > 7)
  OBVIOUS
<1> QED
  BY <1>1, Zenon DEF SizeHandler

LEMMA SizeTakesDigit ==
    ASSUME NEW p, NEW S, NEW b \in Seq(S), NEW n, NEW d, NEW k, NEW t, NEW r,
           Is(p, "Size", b, n, d, FALSE, k, t, r), Len(b) =< 7, NEW c, IsDigit(c)
    PROVE  Is(Turn(p, c), "Size", Append(b, c), n, d, FALSE, k, t, r)
<1>1. GetNextState(p, c) = SizeHandler(p, c) /\ p.buffer = b /\ ~ p.ext
  BY DEF GetNextState, Is, Holds, Seen
<1>2. SizeHandler(p, c) = Push(p, "Size")
  BY <1>1, SizeHandlerIs
<1> QED
  BY <1>1, <1>2, PushIs

(***************************************************************************)
(* The end of a line.  What is left of the buffer when it is saved depends *)
(* on the state: u is the parser after that.                               *)
(***************************************************************************)
LEMMA HandleCRIs ==
    ASSUME NEW p, NEW s, NEW b, NEW n, NEW d, NEW x, NEW k, NEW t, NEW r,
           Is(p, s, b, n, d, x, k, t, r), ~ r, NEW s2,
           NEW u, u = IF b = << >> THEN p ELSE SaveParsedValue(p),
           NEW s3, NEW b2, NEW n2, NEW d2, Is(u, s3, b2, n2, d2, x, k, t, r)
    PROVE  /\ Is(HandleCRLF(p, "CR", s2, TRUE), s2, b2, n2, d2, x, k, t, TRUE)
           /\ HandleCRLF(p, "CR", s2, TRUE).skip_char = TRUE
<1>1. HandleCRLF(p, "CR", s2, TRUE) = AfterSaving(u, "CR", s2, TRUE)
  <2>1. p.cr = r /\ p.buffer = b
    BY DEF Is, Holds, Seen
  <2> QED
    BY <2>1, Zenon DEF HandleCRLF
<1>2. PICK q : q = AfterSaving(u, "CR", s2, TRUE)
  OBVIOUS
<1>3. q = [u EXCEPT !.cur_state = s2, !.skip_char = TRUE, !.cr = TRUE]
  BY <1>2 DEF AfterSaving, Is, Holds
<1>4. Is(q, s2, b2, n2, d2, x, k, t, TRUE) /\ q.skip_char = TRUE
  BY <1>3 DEF Is, Holds, Seen, NewParser
<1> QED
  BY <1>1, <1>2, <1>4

LEMMA HandleLFIs ==
    ASSUME NEW p, NEW s, NEW b, NEW n, NEW d, NEW x, NEW k, NEW t, NEW r,
           Is(p, s, b, n, d, x, k, t, r), NEW s2,
           NEW u, u = IF b = << >> THEN p ELSE SaveParsedValue(p),
           NEW s3, NEW b2, NEW n2, NEW d2, Is(u, s3, b2, n2, d2, x, k, t, r)
    PROVE  /\ Is(HandleCRLF(p, "LF", s2, TRUE), s2, b2, n2, d2, x, k, t, FALSE)
           /\ HandleCRLF(p, "LF", s2, TRUE).skip_char = TRUE
<1>1. HandleCRLF(p, "LF", s2, TRUE) = AfterSaving(u, "LF", s2, TRUE)
  <2>1. p.buffer = b
    BY DEF Is, Holds, Seen
  <2> QED
    BY <2>1, Zenon DEF HandleCRLF
<1>2. PICK q : q = AfterSaving(u, "LF", s2, TRUE)
  OBVIOUS
<1>3. q = [u EXCEPT !.cur_state = s2, !.skip_char = TRUE, !.cr = FALSE]
  BY <1>2 DEF AfterSaving, Is, Holds
<1>4. Is(q, s2, b2, n2, d2, x, k, t, FALSE) /\ q.skip_char = TRUE
  BY <1>3 DEF Is, Holds, Seen, NewParser
<1> QED
  BY <1>1, <1>2, <1>4

LEMMA DigitIsHexDig ==
    ASSUME NEW c, IsDigit(c)
    PROVE  IsHexDig(c)
<1>1. PICK s : s = HexDigits
  OBVIOUS
<1>2. s \in Seq(DigitSet) /\ Len(s) = 16
  BY <1>1 DEF HexDigits, DigitSet
<1>3. PICK q : q = SubSeq(s, 1, 10)
  OBVIOUS
<1>4. DOMAIN q = 1 .. 10 /\ \A i \in 1 .. 10 : q[i] = s[i]
  BY <1>2, <1>3
<1>5. DOMAIN s = 1 .. 16
  BY <1>2
<1>6. PICK i \in 1 .. 10 : c = q[i]
  BY <1>1, <1>3, <1>4, Zenon DEF IsDigit, ToSet
<1>7. i \in DOMAIN s /\ s[i] = c
  BY <1>4, <1>5, <1>6
<1> QED
  BY <1>1, <1>7, Zenon DEF IsHexDig, ToSet

LEMMA NoDigits ==
    ASSUME NEW c \in {"CR", "LF", "NUL", ";"}
    PROVE  ~ IsDigit(c) /\ ~ IsHexDig(c)
<1>1. c \notin DigitSet
  BY DEF DigitSet
<1> QED
  BY <1>1, HexDigIs, DigitIsHexDig

(* The line of a size ends: with an extension, or with CR and then LF. *)
LEMMA SizeTakesLineEnd ==
    ASSUME NEW p, NEW S, NEW b \in Seq(S), NEW n, NEW d, NEW x, NEW k, NEW t, NEW r,
           Is(p, "Size", b, n, d, x, k, t, r), Len(b) =< 7, x \in BOOLEAN
    PROVE  /\ x /\ k \in 0 .. MaxChunkExt /\ ~ r /\ b # << >> =>
                 Is(Turn(p, "LF"), "Data", << >>, HextoDec(b), d, FALSE, 0, t, FALSE)
           /\ ~ x /\ ~ r /\ b # << >> =>
                 Is(Turn(p, "CR"), "Size", << >>, HextoDec(b), d, FALSE, k, t, TRUE)
           /\ ~ x /\ r /\ b = << >> =>
                 Is(Turn(p, "LF"), "Data", b, n, d, FALSE, k, t, FALSE)
<1>1. p.error = NoError /\ p.cur_state = "Size" /\ p.buffer = b /\ p.ext = x /\ p.ext_size = k
  BY DEF Is, Holds, Seen
<1>2. GetNextState(p, "LF") = LineHandler(p, "LF") /\ GetNextState(p, "CR") = LineHandler(p, "CR")
  <2>1. SizeHandler(p, "LF") = LineHandler(p, "LF") /\ SizeHandler(p, "CR") = LineHandler(p, "CR")
    BY <1>1, NoDigits, SizeHandlerIs
  <2> QED
    BY <1>1, <2>1 DEF GetNextState
<1>3. ASSUME x, k \in 0 .. MaxChunkExt, ~ r, b # << >>
      PROVE  Is(Turn(p, "LF"), "Data", << >>, HextoDec(b), d, FALSE, 0, t, FALSE)
  <2>1. PICK v : v = [p EXCEPT !.ext = FALSE, !.ext_size = 0]
    OBVIOUS
  <2>2. Is(v, "Size", b, n, d, FALSE, 0, t, r)
    BY <2>1 DEF Is, Holds, Seen, NewParser
  <2>3. k =< MaxChunkExt /\ ~ (k > MaxChunkExt)
    BY <1>3, ChunkLimitsAssumption
  <2>4. LineHandler(p, "LF") = HandleChunkExtension(p, "LF")
    BY <1>1, <1>3, <2>3, Zenon DEF LineHandler
  <2>5. HandleChunkExtension(p, "LF") = HandleCRLF(v, "LF", "Data", TRUE)
    BY <1>1, <2>1 DEF HandleChunkExtension, AfterLine
  <2>6. PICK u : u = SaveParsedValue(v)
    OBVIOUS
  <2>7. u = [v EXCEPT !.chunk_size = HextoDec(v.buffer), !.buffer = << >>]
    BY <2>2, <2>6 DEF SaveParsedValue, Is, Holds
  <2>8. Is(u, "Size", << >>, HextoDec(b), d, FALSE, 0, t, r)
    BY <2>2, <2>7 DEF Is, Holds, Seen, NewParser
  <2>9. PICK q : q = HandleCRLF(v, "LF", "Data", TRUE)
    OBVIOUS
  <2>10. u = IF b = << >> THEN v ELSE SaveParsedValue(v)
    BY <1>3, <2>6
  <2>11. Is(q, "Data", << >>, HextoDec(b), d, FALSE, 0, t, FALSE) /\ q.skip_char = TRUE
    BY <1>3, <2>2, <2>8, <2>9, <2>10, HandleLFIs, ZenonT(60)
  <2> QED
    BY <1>1, <1>2, <2>4, <2>5, <2>9, <2>11, TurnSkips
<1>4. ASSUME ~ x, ~ r, b # << >>
      PROVE  Is(Turn(p, "CR"), "Size", << >>, HextoDec(b), d, FALSE, k, t, TRUE)
  <2>1. LineHandler(p, "CR") = HandleCRLF(p, "CR", "Size", TRUE)
    BY <1>1, <1>4, Zenon DEF LineHandler
  <2>2. PICK u : u = SaveParsedValue(p)
    OBVIOUS
  <2>3. u = [p EXCEPT !.chunk_size = HextoDec(p.buffer), !.buffer = << >>]
    BY <1>1, <2>2 DEF SaveParsedValue
  <2>4. Is(u, "Size", << >>, HextoDec(b), d, FALSE, k, t, r)
    BY <1>4, <2>3 DEF Is, Holds, Seen, NewParser
  <2>5. PICK q : q = HandleCRLF(p, "CR", "Size", TRUE)
    OBVIOUS
  <2>6. u = IF b = << >> THEN p ELSE SaveParsedValue(p)
    BY <1>4, <2>2
  <2>7. Is(p, "Size", b, n, d, FALSE, k, t, r)
    BY <1>4
  <2>8. Is(q, "Size", << >>, HextoDec(b), d, FALSE, k, t, TRUE) /\ q.skip_char = TRUE
    <3>1. ~ r
      BY <1>4
    <3> QED
      BY <2>4, <2>5, <2>6, <2>7, <3>1, HandleCRIs, ZenonT(60)
  <2> QED
    BY <1>1, <1>2, <2>1, <2>5, <2>8, TurnSkips
<1>5. ASSUME ~ x, r, b = << >>
      PROVE  Is(Turn(p, "LF"), "Data", b, n, d, FALSE, k, t, FALSE)
  <2>1. LineHandler(p, "LF") = HandleCRLF(p, "LF", "Data", TRUE)
    <3>1. LineHandler(p, "LF") = HandleCRLF(p, "LF", AfterLine(p.cur_state), TRUE)
      BY <1>1, <1>5, Zenon DEF LineHandler
    <3> QED
      BY <1>1, <3>1 DEF AfterLine
  <2>2. PICK q : q = HandleCRLF(p, "LF", "Data", TRUE)
    OBVIOUS
  <2>3. p = IF b = << >> THEN p ELSE SaveParsedValue(p)
    BY <1>5
  <2>4. Is(p, "Size", b, n, d, FALSE, k, t, r)
    BY <1>5
  <2>5. Is(q, "Data", b, n, d, FALSE, k, t, FALSE) /\ q.skip_char = TRUE
    BY <2>2, <2>3, <2>4, HandleLFIs, ZenonT(60)
  <2> QED
    BY <1>1, <1>2, <2>1, <2>2, <2>5, TurnSkips
<1> QED
  BY <1>3, <1>4, <1>5

(* The line of the last chunk ends; its buffer has no size to be saved. *)
LEMMA LastTakesLineEnd ==
    ASSUME NEW p, NEW b, NEW n, NEW d, NEW x, NEW k, NEW t, NEW r,
           Is(p, "Last", b, n, d, x, k, t, r), x \in BOOLEAN
    PROVE  /\ x /\ k \in 0 .. MaxChunkExt =>
                 Is(Turn(p, "LF"), "Trailer", b, n, d, FALSE, 0, t, FALSE)
           /\ ~ x /\ ~ r => Is(Turn(p, "CR"), "Last", b, n, d, FALSE, k, t, TRUE)
           /\ ~ x => Is(Turn(p, "LF"), "Trailer", b, n, d, FALSE, k, t, FALSE)
<1>1. p.error = NoError /\ p.cur_state = "Last" /\ p.buffer = b /\ p.ext = x /\ p.ext_size = k
  BY DEF Is, Holds, Seen
<1>2. GetNextState(p, "LF") = LineHandler(p, "LF") /\ GetNextState(p, "CR") = LineHandler(p, "CR")
  BY <1>1 DEF GetNextState, LastHandler
<1>3. \A v : v.cur_state = "Last" => v = IF b = << >> THEN v ELSE SaveParsedValue(v)
  BY DEF SaveParsedValue
<1>4. ASSUME x, k \in 0 .. MaxChunkExt
      PROVE  Is(Turn(p, "LF"), "Trailer", b, n, d, FALSE, 0, t, FALSE)
  <2>1. PICK v : v = [p EXCEPT !.ext = FALSE, !.ext_size = 0]
    OBVIOUS
  <2>2. Is(v, "Last", b, n, d, FALSE, 0, t, r)
    BY <2>1 DEF Is, Holds, Seen, NewParser
  <2>3. k =< MaxChunkExt /\ ~ (k > MaxChunkExt)
    BY <1>4, ChunkLimitsAssumption
  <2>4. LineHandler(p, "LF") = HandleChunkExtension(p, "LF")
    BY <1>1, <1>4, <2>3, Zenon DEF LineHandler
  <2>5. HandleChunkExtension(p, "LF") = HandleCRLF(v, "LF", "Trailer", TRUE)
    BY <1>1, <2>1 DEF HandleChunkExtension, AfterLine
  <2>6. PICK q : q = HandleCRLF(v, "LF", "Trailer", TRUE)
    OBVIOUS
  <2>7. v = IF b = << >> THEN v ELSE SaveParsedValue(v)
    BY <1>3, <2>2 DEF Is, Holds
  <2>8. Is(q, "Trailer", b, n, d, FALSE, 0, t, FALSE) /\ q.skip_char = TRUE
    BY <2>2, <2>6, <2>7, HandleLFIs, ZenonT(60)
  <2> QED
    BY <1>1, <1>2, <2>4, <2>5, <2>6, <2>8, TurnSkips
<1>5. ASSUME ~ x, ~ r PROVE Is(Turn(p, "CR"), "Last", b, n, d, FALSE, k, t, TRUE)
  <2>1. LineHandler(p, "CR") = HandleCRLF(p, "CR", "Last", TRUE)
    BY <1>1, <1>5, Zenon DEF LineHandler
  <2>2. PICK q : q = HandleCRLF(p, "CR", "Last", TRUE)
    OBVIOUS
  <2>3. p = IF b = << >> THEN p ELSE SaveParsedValue(p)
    BY <1>1, <1>3
  <2>4. Is(p, "Last", b, n, d, FALSE, k, t, r)
    BY <1>5
  <2>5. Is(q, "Last", b, n, d, FALSE, k, t, TRUE) /\ q.skip_char = TRUE
    BY <1>5, <2>2, <2>3, <2>4, HandleCRIs
  <2> QED
    BY <1>1, <1>2, <2>1, <2>2, <2>5, TurnSkips
<1>6. ASSUME ~ x PROVE Is(Turn(p, "LF"), "Trailer", b, n, d, FALSE, k, t, FALSE)
  <2>1. LineHandler(p, "LF") = HandleCRLF(p, "LF", "Trailer", TRUE)
    <3>1. LineHandler(p, "LF") = HandleCRLF(p, "LF", AfterLine(p.cur_state), TRUE)
      BY <1>1, <1>6, Zenon DEF LineHandler
    <3> QED
      BY <1>1, <3>1 DEF AfterLine
  <2>2. PICK q : q = HandleCRLF(p, "LF", "Trailer", TRUE)
    OBVIOUS
  <2>3. p = IF b = << >> THEN p ELSE SaveParsedValue(p)
    BY <1>1, <1>3
  <2>4. Is(p, "Last", b, n, d, FALSE, k, t, r)
    BY <1>6
  <2>5. Is(q, "Trailer", b, n, d, FALSE, k, t, FALSE) /\ q.skip_char = TRUE
    BY <2>2, <2>3, <2>4, HandleLFIs, ZenonT(60)
  <2> QED
    BY <1>1, <1>2, <2>1, <2>2, <2>5, TurnSkips
<1> QED
  BY <1>4, <1>5, <1>6

(***************************************************************************)
(* The data of a chunk.  The count goes down with any character, to 0; a   *)
(* line end is taken for one only when it is 0.                            *)
(***************************************************************************)
Less(n) == IF n > 0 THEN n - 1 ELSE 0

LEMMA DataTakes ==
    ASSUME NEW p, NEW S, NEW b, NEW n \in Nat, NEW d \in Seq(S), NEW x, NEW k, NEW t, NEW r,
           Is(p, "Data", b, n, d, x, k, t, r), Len(d) + n =< DefaultMaxBody
    PROVE  /\ Is(Turn(p, "NUL"), "Data", b, Less(n), d, x, k, t, r)
           /\ \A c : c \notin {"NUL", "CR", "LF", "high"} =>
                 Is(Turn(p, c), "Data", Append(b, c), Less(n), d, x, k, t, r)
           /\ n = 0 /\ ~ r /\ b # << >> => Is(Turn(p, "CR"), "Data", << >>, 0, d \o b, x, k, t, TRUE)
           /\ n = 0 /\ b = << >> => Is(Turn(p, "LF"), "Start", << >>, 0, d, x, k, t, FALSE)
<1>1. PICK v : v = [p EXCEPT !.chunk_size = IF @ > 0 THEN @ - 1 ELSE 0]
  OBVIOUS
<1>2. Is(v, "Data", b, Less(n), d, x, k, t, r)
  BY <1>1 DEF Is, Holds, Seen, NewParser, Less
<1>3. p.error = NoError /\ p.cur_state = "Data"
  BY DEF Is, Holds
<1>4. ASSUME NEW c PROVE GetNextState(p, c) = TakeData(v, c)
  <2>1. GetNextState(p, c) = DataHandler(p, c)
    BY <1>3 DEF GetNextState
  <2>2. ~ (Len(d) + n > DefaultMaxBody)
    BY ChunkLimitsAssumption
  <2>3. p.body = d /\ p.chunk_size = n
    BY DEF Is, Holds
  <2>4. ~ (Len(p.body) + p.chunk_size > DefaultMaxBody)
    BY <2>2, <2>3, Zenon
  <2> QED
    BY <1>1, <2>1, <2>4, Zenon DEF DataHandler
<1>5. Is(Turn(p, "NUL"), "Data", b, Less(n), d, x, k, t, r)
  <2>1. PICK q : q = Skip(v, "Data")
    OBVIOUS
  <2>2. TakeData(v, "NUL") = q
    BY <2>1 DEF TakeData
  <2>3. Is(q, "Data", b, Less(n), d, x, k, t, r) /\ q.skip_char = TRUE
    BY <1>2, <2>1 DEF Is, Holds, Seen, NewParser, Skip
  <2> QED
    BY <1>3, <1>4, <2>2, <2>3, TurnSkips
<1>6. ASSUME NEW c, c \notin {"NUL", "CR", "LF", "high"}
      PROVE  Is(Turn(p, c), "Data", Append(b, c), Less(n), d, x, k, t, r)
  <2>1. PICK q : q = Push(v, "Data")
    OBVIOUS
  <2>2. TakeData(v, c) = q
    BY <1>6, <2>1 DEF TakeData, IsOctet
  <2>3. Is(q, "Data", b, Less(n), d, x, k, t, r) /\ q.skip_char = FALSE
    BY <1>2, <2>1 DEF Is, Holds, Seen, NewParser, Push
  <2>4. q = GetNextState(p, c)
    BY <1>4, <2>2
  <2>5. Append(b, c) = IF q.skip_char THEN b ELSE Append(b, c)
    BY <2>3
  <2>6. q.skip_char \in BOOLEAN /\ "Data" # "Invalid" /\ p.cur_state # "Done"
    BY <1>3, <2>3
  <2> QED
    BY <1>3, <2>3, <2>4, <2>5, <2>6, TurnIs
<1>7. ASSUME n = 0, ~ r, b # << >>
      PROVE  Is(Turn(p, "CR"), "Data", << >>, 0, d \o b, x, k, t, TRUE)
  <2>1. Is(v, "Data", b, 0, d, x, k, t, r) /\ v.chunk_size = 0
    BY <1>2, <1>7 DEF Less, Is, Holds
  <2>2. TakeData(v, "CR") = HandleCRLF(v, "CR", "Data", TRUE)
    <3>1. TakeData(v, "CR") = HandleCRLF(v, "CR", "Data", v.chunk_size = 0)
      BY DEF TakeData
    <3>2. (v.chunk_size = 0) = TRUE
      BY <2>1
    <3> QED
      BY <3>1, <3>2, Zenon
  <2>3. PICK u : u = SaveParsedValue(v)
    OBVIOUS
  <2>4. u = [v EXCEPT !.body = @ \o v.buffer, !.buffer = << >>]
    BY <2>1, <2>3 DEF SaveParsedValue, Is, Holds
  <2>5. Is(u, "Data", << >>, 0, d \o b, x, k, t, r)
    BY <2>1, <2>4 DEF Is, Holds, Seen, NewParser
  <2>6. u = IF b = << >> THEN v ELSE SaveParsedValue(v)
    BY <1>7, <2>3
  <2>7. PICK q : q = HandleCRLF(v, "CR", "Data", TRUE)
    OBVIOUS
  <2>8. ~ r
    BY <1>7
  <2>9. Is(q, "Data", << >>, 0, d \o b, x, k, t, TRUE) /\ q.skip_char = TRUE
    BY <2>1, <2>5, <2>6, <2>7, <2>8, HandleCRIs, Zenon
  <2> QED
    BY <1>3, <1>4, <2>2, <2>7, <2>9, TurnSkips
<1>8. ASSUME n = 0, b = << >>
      PROVE  Is(Turn(p, "LF"), "Start", << >>, 0, d, x, k, t, FALSE)
  <2>1. Is(v, "Data", << >>, 0, d, x, k, t, r) /\ v.chunk_size = 0
    BY <1>2, <1>8 DEF Less, Is, Holds
  <2>2. TakeData(v, "LF") = HandleCRLF(v, "LF", "Start", TRUE)
    <3>1. TakeData(v, "LF") = HandleCRLF(v, "LF", IF v.chunk_size = 0 THEN "Start" ELSE "Data",
                                         v.chunk_size = 0)
      BY DEF TakeData
    <3>2. (v.chunk_size = 0) = TRUE
      BY <2>1
    <3> QED
      BY <3>1, <3>2, Zenon
  <2>3. v = IF << >> = << >> THEN v ELSE SaveParsedValue(v)
    OBVIOUS
  <2>4. PICK q : q = HandleCRLF(v, "LF", "Start", TRUE)
    OBVIOUS
  <2>5. Is(q, "Start", << >>, 0, d, x, k, t, FALSE) /\ q.skip_char = TRUE
    BY <2>1, <2>3, <2>4, HandleLFIs, Zenon
  <2> QED
    BY <1>3, <1>4, <2>2, <2>4, <2>5, TurnSkips
<1> QED
  BY <1>5, <1>6, <1>7, <1>8

(* A body that would grow beyond the limit ends the parsing, at any character. *)
LEMMA DataStops ==
    ASSUME NEW p, NEW S, NEW n \in Nat, NEW d \in Seq(S), NEW c,
           p.cur_state = "Data", p.chunk_size = n, p.body = d, p.error = NoError,
           Len(d) + n > DefaultMaxBody
    PROVE  Turn(p, c) = [p EXCEPT !.error = 413]
<1>1. GetNextState(p, c) = DataHandler(p, c)
  BY DEF GetNextState
<1>2. DataHandler(p, c) = [p EXCEPT !.error = 413]
  <2>1. Len(p.body) + p.chunk_size > DefaultMaxBody
    BY Zenon
  <2> QED
    BY <2>1, Zenon DEF DataHandler, Throw
<1>3. PICK q : q = [p EXCEPT !.error = 413]
  OBVIOUS
<1> QED
  BY <1>1, <1>2 DEF Turn, AfterHandler, NoError

(***************************************************************************)
(* The trailer.  A field, with or without the end of a piece before it, is *)
(* saved or left out; the parser goes on alike.                            *)
(***************************************************************************)
EndOfPiece == { << >>, << "NUL" >> }
Field      == { << "field" >>, << "NUL", "field" >> }

LEMMA TrailerTakes ==
    ASSUME NEW p, NEW b, NEW n, NEW d, NEW x, NEW k, NEW t, NEW r,
           Is(p, "Trailer", b, n, d, x, k, t, r), t \in BOOLEAN
    PROVE  /\ Is(Turn(p, "NUL"), "Trailer", b, n, d, x, k, t, r)
           /\ Is(Turn(p, "field"), "Trailer", Append(b, "field"), n, d, x, k, TRUE, r)
           /\ ~ r /\ b \in EndOfPiece \cup Field =>
                 Is(Turn(p, "CR"), "Trailer", << >>, n, d, x, k, t, TRUE)
           /\ t /\ b = << >> => Is(Turn(p, "LF"), "Trailer", << >>, n, d, x, k, FALSE, FALSE)
           /\ ~ t => Is(Turn(p, "LF"), "End", Append(b, "LF"), n, d, x, k, FALSE, r)
<1>1. p.error = NoError /\ p.cur_state = "Trailer" /\ p.trailer = t /\ p.buffer = b
  BY DEF Is, Holds, Seen
<1>2. \A c : GetNextState(p, c) = TrailerHandler(p, c)
  BY <1>1 DEF GetNextState
<1>3. Is(Turn(p, "NUL"), "Trailer", b, n, d, x, k, t, r)
  <2>1. TrailerHandler(p, "NUL") = Skip(p, "Trailer")
    BY DEF TrailerHandler
  <2> QED
    BY <1>2, <2>1, SkipIs
<1>4. Is(Turn(p, "field"), "Trailer", Append(b, "field"), n, d, x, k, TRUE, r)
  <2>1. PICK q : q = [Push(p, "Trailer") EXCEPT !.trailer = TRUE]
    OBVIOUS
  <2>2. TrailerHandler(p, "field") = q
    BY <2>1 DEF TrailerHandler
  <2>3. Is(q, "Trailer", b, n, d, x, k, TRUE, r) /\ q.skip_char = FALSE
    BY <2>1 DEF Is, Holds, Seen, NewParser, Push
  <2>4. q = GetNextState(p, "field")
    BY <1>2, <2>2
  <2>5. Append(b, "field") = IF q.skip_char THEN b ELSE Append(b, "field")
    BY <2>3
  <2>6. q.skip_char \in BOOLEAN /\ "Trailer" # "Invalid" /\ p.cur_state # "Done"
    BY <1>1, <2>3
  <2> QED
    BY <1>1, <2>3, <2>4, <2>5, <2>6, TurnIs
<1>5. ASSUME ~ r, b \in EndOfPiece \cup Field
      PROVE  Is(Turn(p, "CR"), "Trailer", << >>, n, d, x, k, t, TRUE)
  <2>1. TrailerHandler(p, "CR") = HandleCRLF(p, "CR", "Trailer", TRUE)
    BY DEF TrailerHandler
  <2>2. PICK u : u = IF b = << >> THEN p ELSE SaveParsedValue(p)
    OBVIOUS
  <2>3. Is(u, "Trailer", << >>, n, d, x, k, t, r)
    <3>1. CASE b = << >>
      BY <2>2, <3>1
    <3>2. CASE Head(b) = "NUL" /\ b # << >>
      <4>1. u = ParseTrailerHeader(p)
        BY <1>1, <2>2, <3>2 DEF SaveParsedValue
      <4>2. b # << "field" >>
        BY <3>2
      <4>3. u = [p EXCEPT !.buffer = << >>]
        BY <1>1, <3>2, <4>1, <4>2 DEF ParseTrailerHeader
      <4> QED
        BY <4>3 DEF Is, Holds, Seen, NewParser
    <3>3. CASE b = << "field" >>
      <4>1. u = ParseTrailerHeader(p)
        <5>1. b # << >>
          BY <3>3
        <5> QED
          BY <1>1, <2>2, <5>1 DEF SaveParsedValue
      <4>2. Head(b) # "NUL"
        BY <3>3
      <4>3. u = [p EXCEPT !.fields = @ + 1, !.buffer = << >>]
        BY <1>1, <3>3, <4>1, <4>2 DEF ParseTrailerHeader
      <4> QED
        BY <4>3 DEF Is, Holds, Seen, NewParser
    <3>4. b = << >> \/ b = << "field" >> \/ (Head(b) = "NUL" /\ b # << >>)
      BY <1>5 DEF EndOfPiece, Field
    <3> QED
      BY <3>1, <3>2, <3>3, <3>4
  <2>4. PICK q : q = HandleCRLF(p, "CR", "Trailer", TRUE)
    OBVIOUS
  <2>5. ~ r
    BY <1>5
  <2>6. Is(q, "Trailer", << >>, n, d, x, k, t, TRUE) /\ q.skip_char = TRUE
    BY <2>2, <2>3, <2>4, <2>5, HandleCRIs, Zenon
  <2> QED
    BY <1>1, <1>2, <2>1, <2>4, <2>6, TurnSkips
<1>6. ASSUME t, b = << >>
      PROVE  Is(Turn(p, "LF"), "Trailer", << >>, n, d, x, k, FALSE, FALSE)
  <2>1. PICK v : v = [p EXCEPT !.trailer = FALSE]
    OBVIOUS
  <2>2. Is(v, "Trailer", << >>, n, d, x, k, FALSE, r)
    BY <1>6, <2>1 DEF Is, Holds, Seen, NewParser
  <2>3. TrailerHandler(p, "LF") = HandleCRLF(v, "LF", "Trailer", TRUE)
    BY <1>1, <1>6, <2>1, Zenon DEF TrailerHandler
  <2>4. v = IF << >> = << >> THEN v ELSE SaveParsedValue(v)
    OBVIOUS
  <2>5. PICK q : q = HandleCRLF(v, "LF", "Trailer", TRUE)
    OBVIOUS
  <2>6. Is(q, "Trailer", << >>, n, d, x, k, FALSE, FALSE) /\ q.skip_char = TRUE
    BY <2>2, <2>4, <2>5, HandleLFIs, Zenon
  <2> QED
    BY <1>1, <1>2, <2>3, <2>5, <2>6, TurnSkips
<1>7. ASSUME ~ t PROVE Is(Turn(p, "LF"), "End", Append(b, "LF"), n, d, x, k, FALSE, r)
  <2>1. TrailerHandler(p, "LF") = Push(p, "End")
    BY <1>1, <1>7, Zenon DEF TrailerHandler
  <2>2. Is(p, "Trailer", b, n, d, x, k, FALSE, r)
    BY <1>7
  <2> QED
    BY <1>2, <2>1, <2>2, PushIs
<1> QED
  BY <1>3, <1>4, <1>5, <1>6, <1>7

LEMMA EndTakes ==
    ASSUME NEW p, NEW b, NEW n, NEW d, NEW x, NEW k, NEW t, NEW r,
           Is(p, "End", b, n, d, x, k, t, r)
    PROVE  Is(Turn(p, "NUL"), "Done", b, n, d, x, k, t, r)
<1>1. GetNextState(p, "NUL") = Skip(p, "Done")
  BY DEF GetNextState, EndHandler, Is, Holds
<1> QED
  BY <1>1, SkipIs

(* Short texts. *)
LEMMA PairType ==
    ASSUME NEW S, NEW x \in S, NEW y \in S
    PROVE  << x, y >> \in Seq(S) /\ Len(<< x, y >>) = 2 /\ << x, y >>[1] = x /\ << x, y >>[2] = y
  OBVIOUS
LEMMA TripleType ==
    ASSUME NEW S, NEW x \in S, NEW y \in S, NEW u \in S
    PROVE  /\ << x, y, u >> \in Seq(S) /\ Len(<< x, y, u >>) = 3
           /\ << x, y, u >>[1] = x /\ << x, y, u >>[2] = y /\ << x, y, u >>[3] = u
  OBVIOUS
LEMMA AppendType ==
    ASSUME NEW S, NEW p \in Seq(S), NEW x \in S
    PROVE  /\ Append(p, x) \in Seq(S) /\ Len(Append(p, x)) = Len(p) + 1
           /\ Append(p, x)[Len(p) + 1] = x /\ \A i \in 1 .. Len(p) : Append(p, x)[i] = p[i]
  OBVIOUS
LEMMA SameElements ==
    ASSUME NEW S, NEW p \in Seq(S), NEW q \in Seq(S), Len(p) = Len(q),
           \A i \in 1 .. Len(p) : p[i] = q[i]
    PROVE  p = q
  OBVIOUS
LEMMA Appended ==
    ASSUME NEW S, NEW x \in S, NEW y \in S, NEW u \in S
    PROVE  /\ Append(<< >>, x) = << x >> /\ Append(<< x >>, y) = << x, y >>
           /\ Append(<< x, y >>, u) = << x, y, u >>
<1>1. Append(<< >>, x) = << x >>
  OBVIOUS
<1>2. PICK p \in Seq(S) : p = << x >> /\ Len(p) = 1 /\ p[1] = x
  BY Singleton
<1>3. PICK q \in Seq(S) : q = << x, y >> /\ Len(q) = 2 /\ q[1] = x /\ q[2] = y
  <2>1. << x, y >> \in Seq(S) /\ Len(<< x, y >>) = 2 /\ << x, y >>[1] = x /\ << x, y >>[2] = y
    BY PairType
  <2> QED
    BY <2>1, Zenon
<1>4. PICK r \in Seq(S) : r = << x, y, u >> /\ Len(r) = 3 /\ r[1] = x /\ r[2] = y /\ r[3] = u
  <2>1. /\ << x, y, u >> \in Seq(S) /\ Len(<< x, y, u >>) = 3
        /\ << x, y, u >>[1] = x /\ << x, y, u >>[2] = y /\ << x, y, u >>[3] = u
    BY TripleType
  <2> QED
    BY <2>1, Zenon
<1>5. PICK a \in Seq(S) : a = Append(p, y) /\ Len(a) = 2 /\ a[1] = x /\ a[2] = y
  <2>1. Append(p, y) \in Seq(S) /\ Len(Append(p, y)) = 2 /\ Append(p, y)[1] = x /\ Append(p, y)[2] = y
    BY <1>2, AppendType
  <2> QED
    BY <2>1
<1>6. PICK b \in Seq(S) : b = Append(q, u) /\ Len(b) = 3 /\ b[1] = x /\ b[2] = y /\ b[3] = u
  <2>1. /\ Append(q, u) \in Seq(S) /\ Len(Append(q, u)) = 3
        /\ Append(q, u)[1] = x /\ Append(q, u)[2] = y /\ Append(q, u)[3] = u
    BY <1>3, AppendType
  <2> QED
    BY <2>1
<1>7. a = q
  <2>1. \A i \in 1 .. 2 : a[i] = q[i]
    <3>1. \A i \in 1 .. 2 : i = 1 \/ i = 2
      OBVIOUS
    <3> QED
      BY <1>3, <1>5, <3>1
  <2> QED
    BY <1>3, <1>5, <2>1, SameElements
<1>8. b = r
  <2>1. \A i \in 1 .. 3 : b[i] = r[i]
    <3>1. \A i \in 1 .. 3 : i = 1 \/ i = 2 \/ i = 3
      OBVIOUS
    <3> QED
      BY <1>4, <1>6, <3>1
  <2> QED
    BY <1>4, <1>6, <2>1, SameElements, ZenonT(60)
<1> QED
  BY <1>1, <1>2, <1>3, <1>4, <1>5, <1>6, <1>7, <1>8

-----------------------------------------------------------------------------
(* The line of a chunk and its data. *)

Chars == STRING \cup DigitSet \cup {"CR", "LF", "NUL", ";", "0", "field"}

(* What the buffer may hold behind the first one or two digits of a size. *)
SizeRead(h, j) == IF j = 1 THEN { << h[1] >>, << "NUL", h[1] >> }
                           ELSE { << h[1], h[2] >>, << "NUL", h[1], h[2] >> }

LEMMA HexFacts ==
    ASSUME NEW L \in 1 .. 255, NEW h, h = Hex(L)
    PROVE  /\ h \in Seq(Chars) /\ Len(h) \in {1, 2}
           /\ IsHexDig(h[1]) /\ h[1] # "0" /\ h[1] # "NUL"
           /\ Len(h) = 2 /\ (L < 16 \/ L % 16 < 10) => IsDigit(h[2])
           /\ \A b \in SizeRead(h, Len(h)) :
                 b \in Seq(Chars) /\ b # << >> /\ Len(b) =< 3 /\ HextoDec(b) \in {0, L}
<1>1. CASE L < 16
  <2>1. PICK c : c = HexDigits[L + 1]
    OBVIOUS
  <2>2. c \in Chars /\ IsHexDig(c) /\ c # "0" /\ c # "NUL"
    <3>1. L + 1 \in 2 .. 16 /\ L + 1 \in 1 .. 16
      BY <1>1
    <3> QED
      BY <2>1, <3>1, HexDigitsAre, SizeDigits DEF Chars
  <2>3. h = << c >> /\ HextoDec(<< c >>) = L
    <3>1. ~ (L >= 16)
      BY <1>1
    <3> QED
      BY <2>1, <3>1, HexIsRead, Zenon
  <2>4. h \in Seq(Chars) /\ Len(h) = 1 /\ h[1] = c
    BY <2>2, <2>3
  <2>5. SizeRead(h, Len(h)) = { << c >>, << "NUL", c >> }
    BY <2>4 DEF SizeRead
  <2>6. "NUL" \in Chars
    BY DEF Chars
  <2>7. << "NUL", c >> \in Seq(Chars) /\ Len(<< "NUL", c >>) = 2 /\ Head(<< "NUL", c >>) = "NUL"
    BY <2>2, <2>6
  <2>8. HextoDec(<< "NUL", c >>) = 0
    BY <2>7, Zenon DEF HextoDec
  <2>9. << c >> \in Seq(Chars) /\ Len(<< c >>) = 1 /\ << c >> # << >> /\ << "NUL", c >> # << >>
    BY <2>2
  <2>10. ASSUME NEW b \in SizeRead(h, Len(h))
         PROVE  b \in Seq(Chars) /\ b # << >> /\ Len(b) =< 3 /\ HextoDec(b) \in {0, L}
    <3>1. CASE b = << c >>
      BY <2>3, <2>9, <3>1
    <3>2. CASE b = << "NUL", c >>
      BY <2>7, <2>8, <2>9, <3>2
    <3> QED
      BY <2>5, <3>1, <3>2
  <2> QED
    BY <2>2, <2>4, <2>10
<1>2. CASE L >= 16
  <2>1. PICK u \in 1 .. 15, v \in 0 .. 15 : u = L \div 16 /\ v = L % 16
    BY <1>2
  <2>2. PICK c, e : c = HexDigits[u + 1] /\ e = HexDigits[v + 1]
    OBVIOUS
  <2>3. c \in Chars /\ IsHexDig(c) /\ c # "0" /\ c # "NUL" /\ e \in Chars
    <3>1. u + 1 \in 2 .. 16 /\ u + 1 \in 1 .. 16 /\ v + 1 \in 1 .. 16
      BY <2>1
    <3> QED
      BY <2>2, <3>1, HexDigitsAre, SizeDigits DEF Chars
  <2>4. h = << c, e >> /\ HextoDec(<< c, e >>) = L
    <3>1. ~ (L < 16)
      BY <1>2
    <3> QED
      BY <2>1, <2>2, <3>1, HexIsRead, Zenon
  <2>5. h \in Seq(Chars) /\ Len(h) = 2 /\ h[1] = c /\ h[2] = e
    BY <2>3, <2>4
  <2>6. L % 16 < 10 => IsDigit(e)
    <3>1. L % 16 < 10 => v + 1 \in 1 .. 10
      BY <2>1
    <3> QED
      BY <2>2, <3>1, DigitsAre
  <2>7. SizeRead(h, Len(h)) = { << c, e >>, << "NUL", c, e >> }
    BY <2>5 DEF SizeRead
  <2>8. "NUL" \in Chars
    BY DEF Chars
  <2>9. /\ << "NUL", c, e >> \in Seq(Chars) /\ Len(<< "NUL", c, e >>) = 3
        /\ Head(<< "NUL", c, e >>) = "NUL"
    BY <2>3, <2>8
  <2>10. HextoDec(<< "NUL", c, e >>) = 0
    BY <2>9, Zenon DEF HextoDec
  <2>11. << c, e >> \in Seq(Chars) /\ Len(<< c, e >>) = 2 /\ << c, e >> # << >> /\ << "NUL", c, e >> # << >>
    BY <2>3
  <2>12. ASSUME NEW b \in SizeRead(h, Len(h))
         PROVE  b \in Seq(Chars) /\ b # << >> /\ Len(b) =< 3 /\ HextoDec(b) \in {0, L}
    <3>1. CASE b = << c, e >>
      BY <2>4, <2>11, <3>1
    <3>2. CASE b = << "NUL", c, e >>
      BY <2>9, <2>10, <2>11, <3>2
    <3> QED
      BY <2>7, <3>1, <3>2
  <2>13. ~ (L < 16)
    BY <1>2
  <2> QED
    BY <2>3, <2>5, <2>6, <2>12, <2>13
<1> QED
  BY <1>1, <1>2

LEMMA LineIs ==
    ASSUME NEW p, NEW s \in {"Size", "Last"}, NEW b \in Seq(Chars), NEW n, NEW d, NEW x, NEW k,
           NEW t, NEW r, Is(p, s, b, n, d, x, k, t, r), Len(b) =< 7, NEW c, x \/ ~ IsDigit(c)
    PROVE  GetNextState(p, c) = LineHandler(p, c)
<1>1. p.cur_state = s /\ p.buffer = b /\ p.ext = x
  BY DEF Is, Holds, Seen
<1>2. CASE s = "Size"
  <2>1. SizeHandler(p, c) = LineHandler(p, c)
    BY <1>1, SizeHandlerIs
  <2> QED
    BY <1>1, <1>2, <2>1 DEF GetNextState
<1>3. CASE s = "Last"
  BY <1>1, <1>3 DEF GetNextState, LastHandler
<1> QED
  BY <1>2, <1>3

LEMMA SizeReadType ==
    ASSUME NEW h \in Seq(Chars), Len(h) \in {1, 2}, NEW j \in 1 .. Len(h), NEW b \in SizeRead(h, j)
    PROVE  b \in Seq(Chars) /\ Len(b) =< 3
<1>1. "NUL" \in Chars
  BY DEF Chars
<1>2. PICK c \in Chars : c = h[1]
  OBVIOUS
<1>3. CASE j = 1
  <2>1. << c >> \in Seq(Chars) /\ Len(<< c >>) = 1
    OBVIOUS
  <2>2. << "NUL", c >> \in Seq(Chars) /\ Len(<< "NUL", c >>) = 2
    BY <1>1
  <2>3. b = << c >> \/ b = << "NUL", c >>
    BY <1>2, <1>3 DEF SizeRead
  <2>4. CASE b = << c >>
    BY <2>1, <2>4
  <2>5. CASE b = << "NUL", c >>
    BY <2>2, <2>5
  <2> QED
    BY <2>3, <2>4, <2>5
<1>4. CASE j # 1
  <2>1. PICK e \in Chars : e = h[2]
    BY <1>4
  <2>2. << c, e >> \in Seq(Chars) /\ Len(<< c, e >>) = 2
    OBVIOUS
  <2>3. << "NUL", c, e >> \in Seq(Chars) /\ Len(<< "NUL", c, e >>) = 3
    BY <1>1
  <2>4. b = << c, e >> \/ b = << "NUL", c, e >>
    BY <1>2, <1>4, <2>1 DEF SizeRead
  <2>5. CASE b = << c, e >>
    BY <2>2, <2>5
  <2>6. CASE b = << "NUL", c, e >>
    BY <2>3, <2>6
  <2> QED
    BY <2>4, <2>5, <2>6
<1> QED
  BY <1>3, <1>4

(***************************************************************************)
(* Where the parser may be in the text of a chunk, with B for the body so  *)
(* far.  z tells that the last turn took the end of a piece.               *)
(***************************************************************************)
AtStart(p, z, B) ==
    \E b \in EndOfPiece : (~ z => b = << >>) /\ Is(p, "Start", b, 0, B, FALSE, 0, FALSE, FALSE)

OnSize(p, j, h, B) == \E b \in SizeRead(h, j) : Is(p, "Size", b, 0, B, FALSE, 0, FALSE, FALSE)

OnExtension(p, z, s, j, bs, B) ==
    \E b \in bs, x \in 0 .. 2 * j + (IF z THEN 1 ELSE 0) :
       Is(p, s, b, 0, B, TRUE, x, FALSE, FALSE)

OnSizeEnd(p, L, B) == \E n \in {0, L} : Is(p, "Size", << >>, n, B, FALSE, 0, FALSE, TRUE)

OnData(p, j, c, B) ==
    \E n \in 0 .. Len(c) - j : Is(p, "Data", SubSeq(c, 1, j), n, B, FALSE, 0, FALSE, FALSE)

OnDataEnd(p, B) == Is(p, "Data", << >>, 0, B, FALSE, 0, FALSE, TRUE)

(* The parser has stopped in the data of c, which is too long for its limit. *)
Stopped(p, B, c) ==
    /\ p = [f \in DOMAIN NewParser |-> p[f]] /\ p.error = 413 /\ p.cur_state = "Data"
    /\ \/ \E j \in 0 .. Len(c), n \in 0 .. Len(c) :
             /\ p.body = B /\ p.buffer = SubSeq(c, 1, j) /\ p.chunk_size = n
             /\ Len(B) + n > DefaultMaxBody
       \/ /\ p.body = B \o c /\ p.buffer = << >> /\ p.chunk_size = 0
          /\ Len(B \o c) > DefaultMaxBody

LEMMA OnStartTurn ==
    ASSUME NEW p, NEW z \in BOOLEAN, NEW B, AtStart(p, z, B)
    PROVE  /\ \A h : IsHexDig(h[1]) /\ h[1] # "0" /\ h[1] # "NUL" => OnSize(Turn(p, h[1]), 1, h, B)
           /\ ~ z => AtStart(Turn(p, "NUL"), TRUE, B)
<1>1. PICK b \in EndOfPiece : /\ ~ z => b = << >>
                              /\ Is(p, "Start", b, 0, B, FALSE, 0, FALSE, FALSE)
  BY DEF AtStart
<1>2. ASSUME NEW h, IsHexDig(h[1]), h[1] # "0", h[1] # "NUL"
      PROVE  OnSize(Turn(p, h[1]), 1, h, B)
  <2>1. PICK c : c = h[1]
    OBVIOUS
  <2>2. Is(Turn(p, c), "Size", Append(b, c), 0, B, FALSE, 0, FALSE, FALSE)
    BY <1>1, <1>2, <2>1, StartTakes
  <2>3. Append(b, c) \in SizeRead(h, 1)
    <3>1. Append(<< >>, c) = << c >> /\ Append(<< "NUL" >>, c) = << "NUL", c >>
      <4>1. c \in Chars /\ "NUL" \in Chars
        BY <1>2, <2>1, HexDigIs DEF Chars
      <4> QED
        BY <4>1, Appended
    <3>2. b = << >> \/ b = << "NUL" >>
      BY DEF EndOfPiece
    <3> QED
      BY <2>1, <3>1, <3>2 DEF SizeRead
  <2> QED
    BY <2>1, <2>2, <2>3 DEF OnSize
<1>3. ASSUME ~ z PROVE AtStart(Turn(p, "NUL"), TRUE, B)
  <2>1. Is(Turn(p, "NUL"), "Start", Append(b, "NUL"), 0, B, FALSE, 0, FALSE, FALSE)
    BY <1>1, StartTakes
  <2>2. Append(b, "NUL") = << "NUL" >>
    BY <1>1, <1>3
  <2>3. << "NUL" >> \in EndOfPiece
    BY DEF EndOfPiece
  <2> QED
    BY <2>1, <2>2, <2>3 DEF AtStart
<1> QED
  BY <1>2, <1>3

LEMMA OnSizeTurn ==
    ASSUME NEW p, NEW h \in Seq(Chars), Len(h) \in {1, 2}, NEW j \in 1 .. Len(h), NEW B,
           OnSize(p, j, h, B)
    PROVE  /\ OnSize(Turn(p, "NUL"), j, h, B)
           /\ j < Len(h) /\ IsDigit(h[2]) => OnSize(Turn(p, h[2]), 2, h, B)
           /\ j = Len(h) => OnExtension(Turn(p, ";"), FALSE, "Size", 0, SizeRead(h, j), B)
<1>1. PICK b \in SizeRead(h, j) : Is(p, "Size", b, 0, B, FALSE, 0, FALSE, FALSE)
  BY DEF OnSize
<1>2. b \in Seq(Chars) /\ Len(b) =< 3 /\ Len(b) =< 7
  BY SizeReadType
<1>3. \A c \in {"NUL", ";"} : GetNextState(p, c) = LineHandler(p, c)
  BY <1>1, <1>2, LineIs, NoDigits
<1>4. OnSize(Turn(p, "NUL"), j, h, B)
  <2>1. Is(Turn(p, "NUL"), "Size", b, 0, B, FALSE, 0, FALSE, FALSE)
    BY <1>1, <1>3, LineTakes
  <2> QED
    BY <2>1 DEF OnSize
<1>5. ASSUME j < Len(h), IsDigit(h[2]) PROVE OnSize(Turn(p, h[2]), 2, h, B)
  <2>1. PICK c, e : c = h[1] /\ e = h[2]
    OBVIOUS
  <2>2. Is(Turn(p, e), "Size", Append(b, e), 0, B, FALSE, 0, FALSE, FALSE)
    BY <1>1, <1>2, <1>5, <2>1, SizeTakesDigit
  <2>3. b = << c >> \/ b = << "NUL", c >>
    <3>1. j = 1
      <4>1. PICK l \in {1, 2} : l = Len(h)
        OBVIOUS
      <4> QED
        BY <1>5, <4>1
    <3> QED
      BY <2>1, <3>1 DEF SizeRead
  <2>4. Append(<< c >>, e) = << c, e >> /\ Append(<< "NUL", c >>, e) = << "NUL", c, e >>
    <3>1. c \in Chars /\ e \in Chars /\ "NUL" \in Chars
      <4>1. PICK l \in {1, 2} : l = Len(h)
        OBVIOUS
      <4>2. 1 \in 1 .. Len(h) /\ 2 \in 1 .. Len(h)
        BY <1>5, <4>1
      <4>3. h[1] \in Chars /\ h[2] \in Chars
        BY <4>2
      <4>4. "NUL" \in Chars
        BY DEF Chars
      <4> QED
        BY <2>1, <4>3, <4>4
    <3> QED
      BY <3>1, Appended
  <2>5. Append(b, e) \in SizeRead(h, 2)
    <3>1. SizeRead(h, 2) = { << c, e >>, << "NUL", c, e >> }
      BY <2>1 DEF SizeRead
    <3> QED
      BY <2>3, <2>4, <3>1
  <2> QED
    BY <2>1, <2>2, <2>5 DEF OnSize
<1>6. OnExtension(Turn(p, ";"), FALSE, "Size", 0, SizeRead(h, j), B)
  <2>1. Is(Turn(p, ";"), "Size", b, 0, B, TRUE, 0, FALSE, FALSE)
    BY <1>1, <1>3, LineTakes
  <2>2. 0 \in 0 .. 2 * 0 + (IF FALSE THEN 1 ELSE 0)
    OBVIOUS
  <2> QED
    BY <2>1, <2>2 DEF OnExtension
<1> QED
  BY <1>4, <1>5, <1>6

(* The beginnings of a text. *)
LEMMA Beginnings ==
    ASSUME NEW S, NEW c \in Seq(S)
    PROVE  /\ SubSeq(c, 1, 0) = << >> /\ SubSeq(c, 1, Len(c)) = c
           /\ \A j \in 0 .. Len(c) : SubSeq(c, 1, j) \in Seq(S) /\ Len(SubSeq(c, 1, j)) = j
           /\ \A j \in 0 .. Len(c) - 1 : Append(SubSeq(c, 1, j), c[j + 1]) = SubSeq(c, 1, j + 1)
<1>1. SubSeq(c, 1, 0) = << >> /\ SubSeq(c, 1, Len(c)) = c
  OBVIOUS
<1>2. \A j \in 0 .. Len(c) : /\ SubSeq(c, 1, j) \in Seq(S) /\ Len(SubSeq(c, 1, j)) = j
                            /\ \A i \in 1 .. j : SubSeq(c, 1, j)[i] = c[i]
  OBVIOUS
<1>3. ASSUME NEW j \in 0 .. Len(c) - 1
      PROVE  Append(SubSeq(c, 1, j), c[j + 1]) = SubSeq(c, 1, j + 1)
  <2>1. PICK p \in Seq(S) : /\ p = SubSeq(c, 1, j) /\ Len(p) = j
                            /\ \A i \in 1 .. j : p[i] = c[i]
    <3>1. j \in 0 .. Len(c)
      OBVIOUS
    <3> QED
      BY <1>2, <3>1, Zenon
  <2>2. j + 1 \in 0 .. Len(c) /\ c[j + 1] \in S
    OBVIOUS
  <2>3. PICK q \in Seq(S) : /\ q = SubSeq(c, 1, j + 1) /\ Len(q) = j + 1
                            /\ \A i \in 1 .. j + 1 : q[i] = c[i]
    BY <1>2, <2>2
  <2>4. PICK a \in Seq(S) : /\ a = Append(p, c[j + 1]) /\ Len(a) = j + 1 /\ a[j + 1] = c[j + 1]
                            /\ \A i \in 1 .. j : a[i] = p[i]
    <3>1. /\ Append(p, c[j + 1]) \in Seq(S) /\ Len(Append(p, c[j + 1])) = j + 1
          /\ Append(p, c[j + 1])[j + 1] = c[j + 1]
          /\ \A i \in 1 .. j : Append(p, c[j + 1])[i] = p[i]
      BY <2>1, <2>2, AppendType
    <3> QED
      BY <3>1, Zenon
  <2>5. a = q
    <3>1. \A i \in 1 .. j + 1 : i = j + 1 \/ i \in 1 .. j
      OBVIOUS
    <3>2. \A i \in 1 .. j + 1 : a[i] = q[i]
      BY <2>1, <2>3, <2>4, <3>1
    <3> QED
      BY <2>3, <2>4, <3>2, SameElements
  <2> QED
    BY <2>1, <2>3, <2>4, <2>5
<1> QED
  BY <1>1, <1>2, <1>3

LEMMA OnSizeEnds ==
    ASSUME NEW p, NEW h \in Seq(Chars), Len(h) \in {1, 2}, NEW B, NEW L,
           OnSize(p, Len(h), h, B),
           \A b \in SizeRead(h, Len(h)) : b # << >> /\ HextoDec(b) \in {0, L}
    PROVE  OnSizeEnd(Turn(p, "CR"), L, B)
<1>1. PICK b \in SizeRead(h, Len(h)) : Is(p, "Size", b, 0, B, FALSE, 0, FALSE, FALSE)
  BY DEF OnSize
<1>2. b \in Seq(Chars) /\ Len(b) =< 7 /\ b # << >> /\ HextoDec(b) \in {0, L}
  <2>1. Len(h) \in 1 .. Len(h)
    OBVIOUS
  <2>2. b \in Seq(Chars) /\ Len(b) =< 3
    BY <2>1, SizeReadType
  <2> QED
    BY <2>2
<1>3. Is(Turn(p, "CR"), "Size", << >>, HextoDec(b), B, FALSE, 0, FALSE, TRUE)
  BY <1>1, <1>2, SizeTakesLineEnd
<1> QED
  BY <1>2, <1>3 DEF OnSizeEnd

LEMMA OnExtensionTurn ==
    ASSUME NEW p, NEW z \in BOOLEAN, NEW s \in {"Size", "Last"}, NEW j \in Nat, NEW e \in Nat,
           2 * e < MaxChunkExt, j =< e, NEW bs, \A b \in bs : b \in Seq(Chars) /\ Len(b) =< 3,
           NEW B, OnExtension(p, z, s, j, bs, B)
    PROVE  /\ ~ z => OnExtension(Turn(p, "NUL"), TRUE, s, j, bs, B)
           /\ \A c : c # "LF" => OnExtension(Turn(p, c), FALSE, s, j + 1, bs, B)
<1>1. PICK b \in bs, x \in 0 .. 2 * j + (IF z THEN 1 ELSE 0) :
         Is(p, s, b, 0, B, TRUE, x, FALSE, FALSE)
  BY DEF OnExtension
<1>2. x \in 0 .. MaxChunkExt
  BY ChunkLimitsAssumption
<1>3. b \in Seq(Chars) /\ Len(b) =< 7
  BY <1>1
<1>4. \A c : GetNextState(p, c) = LineHandler(p, c)
  BY <1>1, <1>3, LineIs
<1>5. ASSUME NEW c, c # "LF" PROVE Is(Turn(p, c), s, b, 0, B, TRUE, x + 1, FALSE, FALSE)
  BY <1>1, <1>2, <1>4, <1>5, LineTakes
<1>6. ASSUME ~ z PROVE OnExtension(Turn(p, "NUL"), TRUE, s, j, bs, B)
  <2>1. Is(Turn(p, "NUL"), s, b, 0, B, TRUE, x + 1, FALSE, FALSE)
    BY <1>5
  <2>2. x + 1 \in 0 .. 2 * j + (IF TRUE THEN 1 ELSE 0)
    BY <1>1, <1>6
  <2> QED
    BY <2>1, <2>2 DEF OnExtension
<1>7. ASSUME NEW c, c # "LF" PROVE OnExtension(Turn(p, c), FALSE, s, j + 1, bs, B)
  <2>1. Is(Turn(p, c), s, b, 0, B, TRUE, x + 1, FALSE, FALSE)
    BY <1>5, <1>7
  <2>2. x + 1 \in 0 .. 2 * (j + 1) + (IF FALSE THEN 1 ELSE 0)
    BY <1>1
  <2> QED
    BY <2>1, <2>2 DEF OnExtension
<1> QED
  BY <1>6, <1>7

LEMMA OnExtensionEnds ==
    ASSUME NEW p, NEW z \in BOOLEAN, NEW e \in Nat, 2 * e < MaxChunkExt, NEW B,
           NEW bs, \A b \in bs : b \in Seq(Chars) /\ Len(b) =< 3
    PROVE  /\ \A c \in Seq(Chars) :
                 /\ OnExtension(p, z, "Size", e, bs, B)
                 /\ \A b \in bs : b # << >> /\ HextoDec(b) \in {0, Len(c)}
                 => OnData(Turn(p, "LF"), 0, c, B)
           /\ OnExtension(p, z, "Last", e, bs, B) =>
                 \E b \in bs : Is(Turn(p, "LF"), "Trailer", b, 0, B, FALSE, 0, FALSE, FALSE)
<1>1. ASSUME NEW c \in Seq(Chars), OnExtension(p, z, "Size", e, bs, B),
             \A b \in bs : b # << >> /\ HextoDec(b) \in {0, Len(c)}
      PROVE  OnData(Turn(p, "LF"), 0, c, B)
  <2>1. PICK b \in bs, x \in 0 .. 2 * e + (IF z THEN 1 ELSE 0) :
           Is(p, "Size", b, 0, B, TRUE, x, FALSE, FALSE)
    BY <1>1 DEF OnExtension
  <2>2. x \in 0 .. MaxChunkExt
    BY ChunkLimitsAssumption
  <2>3. b \in Seq(Chars) /\ Len(b) =< 7 /\ b # << >>
    BY <1>1, <2>1
  <2>4. Is(Turn(p, "LF"), "Data", << >>, HextoDec(b), B, FALSE, 0, FALSE, FALSE)
    BY <2>1, <2>2, <2>3, SizeTakesLineEnd
  <2>5. PICK n : n = HextoDec(b) /\ n \in {0, Len(c)}
    BY <1>1, <2>1
  <2>6. n \in 0 .. Len(c) - 0
    BY <2>5
  <2>7. SubSeq(c, 1, 0) = << >>
    BY Beginnings
  <2> QED
    BY <2>4, <2>5, <2>6, <2>7 DEF OnData
<1>2. ASSUME OnExtension(p, z, "Last", e, bs, B)
      PROVE  \E b \in bs : Is(Turn(p, "LF"), "Trailer", b, 0, B, FALSE, 0, FALSE, FALSE)
  <2>1. PICK b \in bs, x \in 0 .. 2 * e + (IF z THEN 1 ELSE 0) :
           Is(p, "Last", b, 0, B, TRUE, x, FALSE, FALSE)
    BY <1>2 DEF OnExtension
  <2>2. x \in 0 .. MaxChunkExt
    BY ChunkLimitsAssumption
  <2>3. Is(Turn(p, "LF"), "Trailer", b, 0, B, FALSE, 0, FALSE, FALSE)
    BY <2>1, <2>2, LastTakesLineEnd
  <2> QED
    BY <2>3
<1> QED
  BY <1>1, <1>2

LEMMA OnSizeEndTurn ==
    ASSUME NEW p, NEW B, NEW c \in Seq(Chars), OnSizeEnd(p, Len(c), B)
    PROVE  OnSizeEnd(Turn(p, "NUL"), Len(c), B) /\ OnData(Turn(p, "LF"), 0, c, B)
<1>1. PICK n \in {0, Len(c)} : Is(p, "Size", << >>, n, B, FALSE, 0, FALSE, TRUE)
  BY DEF OnSizeEnd
<1>2. << >> \in Seq(Chars) /\ Len(<< >>) =< 7
  OBVIOUS
<1>3. GetNextState(p, "NUL") = LineHandler(p, "NUL")
  BY <1>1, <1>2, LineIs, NoDigits
<1>4. Is(Turn(p, "NUL"), "Size", << >>, n, B, FALSE, 0, FALSE, TRUE)
  BY <1>1, <1>3, LineTakes
<1>5. Is(Turn(p, "LF"), "Data", << >>, n, B, FALSE, 0, FALSE, FALSE)
  BY <1>1, <1>2, SizeTakesLineEnd
<1>6. n \in 0 .. Len(c) - 0 /\ SubSeq(c, 1, 0) = << >>
  BY Beginnings
<1> QED
  BY <1>4, <1>5, <1>6 DEF OnSizeEnd, OnData

LEMMA OnDataTurn ==
    ASSUME NEW p, NEW B \in Seq(Chars), NEW c \in Seq(Chars), c # << >>,
           \A i \in 1 .. Len(c) : c[i] \notin {"NUL", "CR", "LF", "high"},
           NEW j \in 0 .. Len(c), OnData(p, j, c, B)
    PROVE  \/ \A x : Stopped(Turn(p, x), B, c)
           \/ /\ OnData(Turn(p, "NUL"), j, c, B)
              /\ j < Len(c) => OnData(Turn(p, c[j + 1]), j + 1, c, B)
              /\ j = Len(c) => OnDataEnd(Turn(p, "CR"), B \o c)
<1>1. PICK n \in 0 .. Len(c) - j :
         Is(p, "Data", SubSeq(c, 1, j), n, B, FALSE, 0, FALSE, FALSE)
  BY DEF OnData
<1>2. PICK b \in Seq(Chars) : b = SubSeq(c, 1, j)
  <2>1. SubSeq(c, 1, j) \in Seq(Chars)
    BY Beginnings
  <2> QED
    BY <2>1
<1>3. /\ p.cur_state = "Data" /\ p.chunk_size = n /\ p.body = B /\ p.error = NoError
      /\ p.buffer = b /\ p = [f \in DOMAIN NewParser |-> p[f]]
  BY <1>1, <1>2 DEF Is, Holds
<1>4. n \in Nat /\ n \in 0 .. Len(c)
  BY <1>1
<1>5. CASE Len(B) + n > DefaultMaxBody
  <2>1. ASSUME NEW x PROVE Stopped(Turn(p, x), B, c)
    <3>1. PICK q : q = Turn(p, x)
      OBVIOUS
    <3>2. q = [p EXCEPT !.error = 413]
      <4>1. Len(B) + n > DefaultMaxBody /\ n \in Nat
        BY <1>4, <1>5
      <4>2. p.cur_state = "Data" /\ p.chunk_size = n /\ p.body = B /\ p.error = NoError
        BY <1>3
      <4>3. Turn(p, x) = [p EXCEPT !.error = 413]
        BY <4>1, <4>2, DataStops, ZenonT(60)
      <4> QED
        BY <3>1, <4>3
    <3>3. /\ q = [f \in DOMAIN NewParser |-> q[f]] /\ q.error = 413 /\ q.cur_state = "Data"
          /\ q.body = B /\ q.buffer = b /\ q.chunk_size = n
      BY <1>3, <3>2, SMTT(60) DEF NewParser
    <3>4. /\ q.body = B /\ q.buffer = SubSeq(c, 1, j) /\ q.chunk_size = n
          /\ Len(B) + n > DefaultMaxBody /\ n \in 0 .. Len(c) /\ j \in 0 .. Len(c)
      BY <1>2, <1>4, <1>5, <3>3
    <3>5. \E l \in 0 .. Len(c), m \in 0 .. Len(c) :
             /\ q.body = B /\ q.buffer = SubSeq(c, 1, l) /\ q.chunk_size = m
             /\ Len(B) + m > DefaultMaxBody
      BY <3>4, Zenon
    <3>6. Stopped(q, B, c)
      BY <3>3, <3>5 DEF Stopped
    <3> QED
      BY <3>1, <3>6
  <2> QED
    BY <2>1
<1>6. CASE ~ (Len(B) + n > DefaultMaxBody)
  <2>1. Len(B) + n =< DefaultMaxBody
    BY <1>4, <1>6, ChunkLimitsAssumption
  <2>2. Is(p, "Data", b, n, B, FALSE, 0, FALSE, FALSE)
    BY <1>1, <1>2
  <2>3. Less(n) \in 0 .. Len(c) - j /\ (j < Len(c) => Less(n) \in 0 .. Len(c) - (j + 1))
    BY <1>1 DEF Less
  <2>4. OnData(Turn(p, "NUL"), j, c, B)
    <3>1. Is(Turn(p, "NUL"), "Data", b, Less(n), B, FALSE, 0, FALSE, FALSE)
      BY <1>4, <2>1, <2>2, DataTakes
    <3> QED
      BY <1>2, <2>3, <3>1 DEF OnData
  <2>5. ASSUME j < Len(c) PROVE OnData(Turn(p, c[j + 1]), j + 1, c, B)
    <3>1. PICK x : x = c[j + 1]
      OBVIOUS
    <3>2. x \notin {"NUL", "CR", "LF", "high"}
      <4>1. j + 1 \in 1 .. Len(c)
        BY <2>5
      <4> QED
        BY <3>1, <4>1
    <3>3. Is(Turn(p, x), "Data", Append(b, x), Less(n), B, FALSE, 0, FALSE, FALSE)
      BY <1>4, <2>1, <2>2, <3>2, DataTakes
    <3>4. Append(b, x) = SubSeq(c, 1, j + 1)
      <4>1. j \in 0 .. Len(c) - 1
        BY <2>5
      <4>2. Append(SubSeq(c, 1, j), c[j + 1]) = SubSeq(c, 1, j + 1)
        BY <4>1, Beginnings
      <4> QED
        BY <1>2, <3>1, <4>2
    <3> QED
      BY <2>3, <2>5, <3>1, <3>3, <3>4 DEF OnData
  <2>6. ASSUME j = Len(c) PROVE OnDataEnd(Turn(p, "CR"), B \o c)
    <3>1. n = 0
      BY <1>1, <2>6
    <3>2. b = c
      BY <1>2, <2>6, Beginnings
    <3>3. Is(p, "Data", c, 0, B, FALSE, 0, FALSE, FALSE) /\ 0 \in Nat /\ Len(B) + 0 =< DefaultMaxBody
      BY <2>1, <2>2, <3>1, <3>2
    <3>4. Is(Turn(p, "CR"), "Data", << >>, 0, B \o c, FALSE, 0, FALSE, TRUE)
      BY <3>3, DataTakes
    <3> QED
      BY <3>4 DEF OnDataEnd
  <2> QED
    BY <2>4, <2>5, <2>6
<1> QED
  BY <1>5, <1>6

LEMMA OnDataEndTurn ==
    ASSUME NEW p, NEW D \in Seq(Chars), OnDataEnd(p, D)
    PROVE  \/ Len(D) > DefaultMaxBody /\ \A x : Turn(p, x) = [p EXCEPT !.error = 413]
           \/ /\ OnDataEnd(Turn(p, "NUL"), D)
              /\ AtStart(Turn(p, "LF"), FALSE, D)
<1>1. Is(p, "Data", << >>, 0, D, FALSE, 0, FALSE, TRUE)
  BY DEF OnDataEnd
<1>2. p.cur_state = "Data" /\ p.chunk_size = 0 /\ p.body = D /\ p.error = NoError
  BY <1>1 DEF Is, Holds
<1>3. CASE Len(D) > DefaultMaxBody
  <2>1. PICK n \in Nat : n = 0 /\ Len(D) + n > DefaultMaxBody
    BY <1>3
  <2>2. p.cur_state = "Data" /\ p.chunk_size = n /\ p.body = D /\ p.error = NoError
    BY <1>2, <2>1
  <2>3. Len(D) + n > DefaultMaxBody
    BY <2>1
  <2>4. \A x : Turn(p, x) = [p EXCEPT !.error = 413]
    BY <2>2, <2>3, DataStops, ZenonT(60)
  <2> QED
    BY <1>3, <2>4
<1>4. CASE ~ (Len(D) > DefaultMaxBody)
  <2>1. 0 \in Nat /\ Len(D) + 0 =< DefaultMaxBody
    BY <1>4, ChunkLimitsAssumption
  <2>2. Less(0) = 0
    BY DEF Less
  <2>3. Is(Turn(p, "NUL"), "Data", << >>, 0, D, FALSE, 0, FALSE, TRUE)
    BY <1>1, <2>1, <2>2, DataTakes
  <2>4. Is(Turn(p, "LF"), "Start", << >>, 0, D, FALSE, 0, FALSE, FALSE)
    BY <1>1, <2>1, DataTakes
  <2>5. << >> \in EndOfPiece
    BY DEF EndOfPiece
  <2> QED
    BY <2>3, <2>4, <2>5 DEF OnDataEnd, AtStart
<1> QED
  BY <1>3, <1>4

LEMMA OnDataEndStops ==
    ASSUME NEW p, NEW B, NEW c, NEW D \in Seq(Chars), D = B \o c, OnDataEnd(p, D)
    PROVE  \/ \A x : Stopped(Turn(p, x), B, c)
           \/ /\ OnDataEnd(Turn(p, "NUL"), D)
              /\ AtStart(Turn(p, "LF"), FALSE, D)
<1>1. CASE Len(D) > DefaultMaxBody /\ \A x : Turn(p, x) = [p EXCEPT !.error = 413]
  <2>1. /\ p.cur_state = "Data" /\ p.chunk_size = 0 /\ p.body = D /\ p.buffer = << >>
        /\ p = [f \in DOMAIN NewParser |-> p[f]]
    BY DEF OnDataEnd, Is, Holds
  <2>2. ASSUME NEW x PROVE Stopped(Turn(p, x), B, c)
    <3>1. PICK q : q = Turn(p, x)
      OBVIOUS
    <3>2. q = [p EXCEPT !.error = 413]
      BY <1>1, <3>1
    <3>3. q = [f \in DOMAIN NewParser |-> q[f]] /\ q.error = 413
      BY <2>1, <3>2, SMTT(60) DEF NewParser
    <3>4. q.cur_state = "Data" /\ q.body = D /\ q.buffer = << >> /\ q.chunk_size = 0
      BY <2>1, <3>2
    <3> QED
      BY <1>1, <3>1, <3>3, <3>4 DEF Stopped
  <2> QED
    BY <2>2
<1> QED
  BY <1>1, OnDataEndTurn

-----------------------------------------------------------------------------
(* The last chunk and the trailer; nothing there stops the parser. *)

OnLast(p, B)       == \E b \in EndOfPiece : Is(p, "Last", b, 0, B, FALSE, 0, FALSE, FALSE)
OnLastEnd(p, B)    == \E b \in EndOfPiece : Is(p, "Last", b, 0, B, FALSE, 0, FALSE, TRUE)
OnTrailer(p, B)    == \E b \in EndOfPiece : Is(p, "Trailer", b, 0, B, FALSE, 0, FALSE, FALSE)
OnField(p, B)      == \E b \in Field : Is(p, "Trailer", b, 0, B, FALSE, 0, TRUE, FALSE)
OnFieldEnd(p, B)   == Is(p, "Trailer", << >>, 0, B, FALSE, 0, TRUE, TRUE)
OnTrailerEnd(p, B) == Is(p, "Trailer", << >>, 0, B, FALSE, 0, FALSE, TRUE)
OnEnd(p, B)        == \E b, r : Is(p, "End", b, 0, B, FALSE, 0, FALSE, r)
OnDone(p, B)       == \E b, r : Is(p, "Done", b, 0, B, FALSE, 0, FALSE, r)

LEMMA EndOfPieceType ==
    ASSUME NEW b \in EndOfPiece
    PROVE  b \in Seq(Chars) /\ Len(b) =< 3
<1>1. "NUL" \in Chars
  BY DEF Chars
<1>2. << "NUL" >> \in Seq(Chars) /\ Len(<< "NUL" >>) = 1
  BY <1>1
<1>3. CASE b = << >>
  BY <1>3
<1>4. CASE b = << "NUL" >>
  BY <1>2, <1>4
<1> QED
  BY <1>3, <1>4 DEF EndOfPiece

LEMMA LastTurns ==
    ASSUME NEW p, NEW B
    PROVE  /\ \A z \in BOOLEAN : AtStart(p, z, B) => OnLast(Turn(p, "0"), B)
           /\ OnLast(p, B) => /\ OnLast(Turn(p, "NUL"), B)
                              /\ OnExtension(Turn(p, ";"), FALSE, "Last", 0, EndOfPiece, B)
                              /\ OnLastEnd(Turn(p, "CR"), B)
           /\ OnLastEnd(p, B) => /\ OnLastEnd(Turn(p, "NUL"), B)
                                 /\ OnTrailer(Turn(p, "LF"), B)
<1>1. ASSUME NEW z \in BOOLEAN, AtStart(p, z, B) PROVE OnLast(Turn(p, "0"), B)
  <2>1. PICK b \in EndOfPiece : Is(p, "Start", b, 0, B, FALSE, 0, FALSE, FALSE)
    BY <1>1 DEF AtStart
  <2>2. Is(Turn(p, "0"), "Last", b, 0, B, FALSE, 0, FALSE, FALSE)
    BY <2>1, StartTakes
  <2> QED
    BY <2>2 DEF OnLast
<1>2. ASSUME OnLast(p, B)
      PROVE  /\ OnLast(Turn(p, "NUL"), B)
             /\ OnExtension(Turn(p, ";"), FALSE, "Last", 0, EndOfPiece, B)
             /\ OnLastEnd(Turn(p, "CR"), B)
  <2>1. PICK b \in EndOfPiece : Is(p, "Last", b, 0, B, FALSE, 0, FALSE, FALSE)
    BY <1>2 DEF OnLast
  <2>2. b \in Seq(Chars) /\ Len(b) =< 7
    BY EndOfPieceType
  <2>3. \A c \in {"NUL", ";"} : GetNextState(p, c) = LineHandler(p, c)
    BY <2>1, <2>2, LineIs, NoDigits
  <2>4. Is(Turn(p, "NUL"), "Last", b, 0, B, FALSE, 0, FALSE, FALSE)
    BY <2>1, <2>3, LineTakes
  <2>5. Is(Turn(p, ";"), "Last", b, 0, B, TRUE, 0, FALSE, FALSE)
    BY <2>1, <2>3, LineTakes
  <2>6. 0 \in 0 .. 2 * 0 + (IF FALSE THEN 1 ELSE 0)
    OBVIOUS
  <2>7. Is(Turn(p, "CR"), "Last", b, 0, B, FALSE, 0, FALSE, TRUE)
    BY <2>1, LastTakesLineEnd
  <2> QED
    BY <2>4, <2>5, <2>6, <2>7 DEF OnLast, OnExtension, OnLastEnd
<1>3. ASSUME OnLastEnd(p, B)
      PROVE  OnLastEnd(Turn(p, "NUL"), B) /\ OnTrailer(Turn(p, "LF"), B)
  <2>1. PICK b \in EndOfPiece : Is(p, "Last", b, 0, B, FALSE, 0, FALSE, TRUE)
    BY <1>3 DEF OnLastEnd
  <2>2. b \in Seq(Chars) /\ Len(b) =< 7
    BY EndOfPieceType
  <2>3. GetNextState(p, "NUL") = LineHandler(p, "NUL")
    BY <2>1, <2>2, LineIs, NoDigits
  <2>4. Is(Turn(p, "NUL"), "Last", b, 0, B, FALSE, 0, FALSE, TRUE)
    BY <2>1, <2>3, LineTakes
  <2>5. Is(Turn(p, "LF"), "Trailer", b, 0, B, FALSE, 0, FALSE, FALSE)
    BY <2>1, LastTakesLineEnd
  <2> QED
    BY <2>4, <2>5 DEF OnLastEnd, OnTrailer
<1> QED
  BY <1>1, <1>2, <1>3

LEMMA TrailerTurns ==
    ASSUME NEW p, NEW B
    PROVE  /\ OnTrailer(p, B) => /\ OnTrailer(Turn(p, "NUL"), B)
                                 /\ OnField(Turn(p, "field"), B)
                                 /\ OnTrailerEnd(Turn(p, "CR"), B)
           /\ OnField(p, B) => OnField(Turn(p, "NUL"), B) /\ OnFieldEnd(Turn(p, "CR"), B)
           /\ OnFieldEnd(p, B) => OnFieldEnd(Turn(p, "NUL"), B) /\ OnTrailer(Turn(p, "LF"), B)
           /\ OnTrailerEnd(p, B) => OnTrailerEnd(Turn(p, "NUL"), B) /\ OnEnd(Turn(p, "LF"), B)
           /\ OnEnd(p, B) => OnDone(Turn(p, "NUL"), B)
<1>1. ASSUME OnTrailer(p, B)
      PROVE  /\ OnTrailer(Turn(p, "NUL"), B)
             /\ OnField(Turn(p, "field"), B)
             /\ OnTrailerEnd(Turn(p, "CR"), B)
  <2>1. PICK b \in EndOfPiece : Is(p, "Trailer", b, 0, B, FALSE, 0, FALSE, FALSE)
    BY <1>1 DEF OnTrailer
  <2>2. Is(Turn(p, "NUL"), "Trailer", b, 0, B, FALSE, 0, FALSE, FALSE)
    BY <2>1, TrailerTakes
  <2>3. Is(Turn(p, "field"), "Trailer", Append(b, "field"), 0, B, FALSE, 0, TRUE, FALSE)
    BY <2>1, TrailerTakes
  <2>4. Is(Turn(p, "CR"), "Trailer", << >>, 0, B, FALSE, 0, FALSE, TRUE)
    <3>1. b \in EndOfPiece \cup Field
      OBVIOUS
    <3> QED
      BY <2>1, <3>1, TrailerTakes
  <2>5. Append(b, "field") \in Field
    <3>1. "field" \in Chars /\ "NUL" \in Chars
      BY DEF Chars
    <3>2. Append(<< >>, "field") = << "field" >> /\ Append(<< "NUL" >>, "field") = << "NUL", "field" >>
      BY <3>1, Appended
    <3> QED
      BY <3>2 DEF EndOfPiece, Field
  <2> QED
    BY <2>2, <2>3, <2>4, <2>5 DEF OnTrailer, OnField, OnTrailerEnd
<1>2. ASSUME OnField(p, B) PROVE OnField(Turn(p, "NUL"), B) /\ OnFieldEnd(Turn(p, "CR"), B)
  <2>1. PICK b \in Field : Is(p, "Trailer", b, 0, B, FALSE, 0, TRUE, FALSE)
    BY <1>2 DEF OnField
  <2>2. Is(Turn(p, "NUL"), "Trailer", b, 0, B, FALSE, 0, TRUE, FALSE)
    BY <2>1, TrailerTakes
  <2>3. Is(Turn(p, "CR"), "Trailer", << >>, 0, B, FALSE, 0, TRUE, TRUE)
    <3>1. b \in EndOfPiece \cup Field
      OBVIOUS
    <3> QED
      BY <2>1, <3>1, TrailerTakes
  <2> QED
    BY <2>2, <2>3 DEF OnField, OnFieldEnd
<1>3. ASSUME OnFieldEnd(p, B)
      PROVE  OnFieldEnd(Turn(p, "NUL"), B) /\ OnTrailer(Turn(p, "LF"), B)
  <2>1. Is(p, "Trailer", << >>, 0, B, FALSE, 0, TRUE, TRUE)
    BY <1>3 DEF OnFieldEnd
  <2>2. Is(Turn(p, "NUL"), "Trailer", << >>, 0, B, FALSE, 0, TRUE, TRUE)
    BY <2>1, TrailerTakes
  <2>3. Is(Turn(p, "LF"), "Trailer", << >>, 0, B, FALSE, 0, FALSE, FALSE)
    BY <2>1, TrailerTakes
  <2>4. << >> \in EndOfPiece
    BY DEF EndOfPiece
  <2> QED
    BY <2>2, <2>3, <2>4 DEF OnFieldEnd, OnTrailer
<1>4. ASSUME OnTrailerEnd(p, B)
      PROVE  OnTrailerEnd(Turn(p, "NUL"), B) /\ OnEnd(Turn(p, "LF"), B)
  <2>1. Is(p, "Trailer", << >>, 0, B, FALSE, 0, FALSE, TRUE)
    BY <1>4 DEF OnTrailerEnd
  <2>2. Is(Turn(p, "NUL"), "Trailer", << >>, 0, B, FALSE, 0, FALSE, TRUE)
    BY <2>1, TrailerTakes
  <2>3. Is(Turn(p, "LF"), "End", Append(<< >>, "LF"), 0, B, FALSE, 0, FALSE, TRUE)
    BY <2>1, TrailerTakes
  <2> QED
    BY <2>2, <2>3 DEF OnTrailerEnd, OnEnd
<1>5. ASSUME OnEnd(p, B) PROVE OnDone(Turn(p, "NUL"), B)
  <2>1. PICK b, r : Is(p, "End", b, 0, B, FALSE, 0, FALSE, r)
    BY <1>5 DEF OnEnd
  <2>2. Is(Turn(p, "NUL"), "Done", b, 0, B, FALSE, 0, FALSE, r)
    BY <2>1, EndTakes
  <2> QED
    BY <2>2 DEF OnDone
<1> QED
  BY <1>1, <1>2, <1>3, <1>4, <1>5

-----------------------------------------------------------------------------
(* The parser on the text of a message. *)

(* The text w has s behind its first k characters. *)
At(w, k, s) == \A j \in 1 .. Len(s) : w[k + j] = s[j]

(* A chunk that is understood: its size h, the extension and the data c. *)
IsChunk(h, ext, c) ==
    /\ h \in Seq(Chars) /\ ext \in Seq(Chars) /\ c \in Seq(Chars) /\ c # << >>
    /\ Len(h) \in {1, 2} /\ IsHexDig(h[1]) /\ h[1] # "0" /\ h[1] # "NUL"
    /\ Len(h) = 2 => IsDigit(h[2])
    /\ \A b \in SizeRead(h, Len(h)) :
          b \in Seq(Chars) /\ b # << >> /\ Len(b) =< 3 /\ HextoDec(b) \in {0, Len(c)}
    /\ ext # << >> => ext[1] = ";" /\ 2 * Len(ext) < MaxChunkExt
    /\ \A i \in 1 .. Len(ext) : ext[i] # "LF"
    /\ \A i \in 1 .. Len(c) : c[i] \notin {"NUL", "CR", "LF", "high"}

ChunkText(w, s, h, ext, c) ==
    /\ At(w, s, h) /\ At(w, s + Len(h), ext)
    /\ At(w, s + Len(h) + Len(ext), CRLF)
    /\ At(w, s + Len(h) + Len(ext) + 2, c)
    /\ At(w, s + Len(h) + Len(ext) + 2 + Len(c), CRLF)

ChunkLen(h, ext, c) == Len(h) + Len(ext) + Len(c) + 4

(* The parser has taken the first i characters of a chunk. *)
InChunk(p, z, i, h, ext, c, B) ==
    \/ \E j \in 1 .. Len(h) : i = j /\ OnSize(p, j, h, B)
    \/ /\ ext # << >>
       /\ \E j \in 0 .. Len(ext) :
             i = Len(h) + 1 + j /\ OnExtension(p, z, "Size", j, SizeRead(h, Len(h)), B)
    \/ ext = << >> /\ i = Len(h) + 1 /\ OnSizeEnd(p, Len(c), B)
    \/ \E j \in 0 .. Len(c) : i = Len(h) + Len(ext) + 2 + j /\ OnData(p, j, c, B)
    \/ i = Len(h) + Len(ext) + 2 + Len(c) + 1 /\ OnDataEnd(p, B \o c)

LEMMA ChunkEndOfPiece ==
    ASSUME NEW h, NEW ext, NEW c, IsChunk(h, ext, c), NEW B \in Seq(Chars), NEW p, NEW i,
           InChunk(p, FALSE, i, h, ext, c, B), NEW q, q = Turn(p, "NUL")
    PROVE  InChunk(q, TRUE, i, h, ext, c, B) \/ Stopped(q, B, c)
<1>1. /\ h \in Seq(Chars) /\ ext \in Seq(Chars) /\ c \in Seq(Chars) /\ c # << >>
      /\ Len(h) \in {1, 2} /\ \A k \in 1 .. Len(c) : c[k] \notin {"NUL", "CR", "LF", "high"}
  BY DEF IsChunk
<1>2. ASSUME NEW j \in 1 .. Len(h), i = j, OnSize(p, j, h, B)
      PROVE  InChunk(q, TRUE, i, h, ext, c, B)
  <2>1. OnSize(q, j, h, B)
    BY <1>1, <1>2, OnSizeTurn
  <2> QED
    BY <1>2, <2>1 DEF InChunk
<1>3. ASSUME ext # << >>, NEW j \in 0 .. Len(ext), i = Len(h) + 1 + j,
             OnExtension(p, FALSE, "Size", j, SizeRead(h, Len(h)), B)
      PROVE  InChunk(q, TRUE, i, h, ext, c, B)
  <2>1. j \in Nat /\ Len(ext) \in Nat /\ j =< Len(ext)
    BY <1>1
  <2>3. 2 * Len(ext) < MaxChunkExt
    BY <1>3, Zenon DEF IsChunk
  <2>4. \A b \in SizeRead(h, Len(h)) : b \in Seq(Chars) /\ Len(b) =< 3
    BY Zenon DEF IsChunk
  <2>2. OnExtension(q, TRUE, "Size", j, SizeRead(h, Len(h)), B)
    BY <1>3, <2>1, <2>3, <2>4, OnExtensionTurn
  <2> QED
    BY <1>3, <2>2 DEF InChunk
<1>4. ASSUME ext = << >>, i = Len(h) + 1, OnSizeEnd(p, Len(c), B)
      PROVE  InChunk(q, TRUE, i, h, ext, c, B)
  <2>1. OnSizeEnd(q, Len(c), B)
    BY <1>1, <1>4, OnSizeEndTurn
  <2> QED
    BY <1>4, <2>1 DEF InChunk
<1>5. ASSUME NEW j \in 0 .. Len(c), i = Len(h) + Len(ext) + 2 + j, OnData(p, j, c, B)
      PROVE  InChunk(q, TRUE, i, h, ext, c, B) \/ Stopped(q, B, c)
  <2>1. Stopped(q, B, c) \/ OnData(q, j, c, B)
    BY <1>1, <1>5, OnDataTurn
  <2> QED
    BY <1>5, <2>1 DEF InChunk
<1>6. ASSUME i = Len(h) + Len(ext) + 2 + Len(c) + 1, OnDataEnd(p, B \o c)
      PROVE  InChunk(q, TRUE, i, h, ext, c, B) \/ Stopped(q, B, c)
  <2>1. PICK D \in Seq(Chars) : D = B \o c
    BY <1>1, Joined
  <2>2. Stopped(q, B, c) \/ OnDataEnd(q, D)
    BY <1>6, <2>1, OnDataEndStops
  <2> QED
    BY <1>6, <2>1, <2>2 DEF InChunk
<1> QED
  BY <1>2, <1>3, <1>4, <1>5, <1>6 DEF InChunk

LEMMA ChunkTurn ==
    ASSUME NEW h, NEW ext, NEW c, IsChunk(h, ext, c), NEW B \in Seq(Chars), NEW p, NEW i,
           NEW z \in BOOLEAN, InChunk(p, z, i, h, ext, c, B),
           NEW w, NEW s \in Nat, ChunkText(w, s, h, ext, c), NEW q, q = Turn(p, w[s + i + 1])
    PROVE  \/ InChunk(q, FALSE, i + 1, h, ext, c, B)
           \/ i + 1 = ChunkLen(h, ext, c) /\ AtStart(q, FALSE, B \o c)
           \/ Stopped(q, B, c)
<1>1. /\ h \in Seq(Chars) /\ ext \in Seq(Chars) /\ c \in Seq(Chars) /\ c # << >>
      /\ Len(h) \in {1, 2} /\ \A k \in 1 .. Len(c) : c[k] \notin {"NUL", "CR", "LF", "high"}
  BY DEF IsChunk
<1>2. PICK lh \in Nat, le \in Nat, lc \in Nat : lh = Len(h) /\ le = Len(ext) /\ lc = Len(c)
  BY <1>1
<1>3. /\ w[s + lh + le + 1] = "CR" /\ w[s + lh + le + 2] = "LF"
      /\ w[s + lh + le + 2 + lc + 1] = "CR" /\ w[s + lh + le + 2 + lc + 2] = "LF"
  <2>1. CRLF[1] = "CR" /\ CRLF[2] = "LF" /\ 1 \in 1 .. Len(CRLF) /\ 2 \in 1 .. Len(CRLF)
    BY DEF CRLF
  <2> QED
    BY <1>2, <2>1 DEF ChunkText, At
<1>4. ASSUME NEW j \in 1 .. Len(h), i = j, OnSize(p, j, h, B)
      PROVE  InChunk(q, FALSE, i + 1, h, ext, c, B)
  <2>1. CASE j < lh
    <3>1. j = 1 /\ lh = 2 /\ IsDigit(h[2])
      <4>1. lh = 1 \/ lh = 2
        BY <1>1, <1>2
      <4>2. j = 1 /\ lh = 2
        <5>1. j \in 1 .. lh
          BY <1>2
        <5> QED
          BY <2>1, <4>1, <5>1
      <4> QED
        BY <1>2, <4>2, Zenon DEF IsChunk
    <3>2. w[s + i + 1] = h[2]
      <4>1. 2 \in 1 .. Len(h) /\ s + i + 1 = s + 2
        BY <1>2, <1>4, <3>1
      <4> QED
        BY <4>1 DEF ChunkText, At
    <3>3. OnSize(q, 2, h, B)
      BY <1>1, <1>2, <1>4, <2>1, <3>1, <3>2, OnSizeTurn
    <3>4. 2 \in 1 .. Len(h) /\ i + 1 = 2
      BY <1>2, <1>4, <3>1
    <3> QED
      BY <3>3, <3>4 DEF InChunk
  <2>2. CASE j = lh /\ ext # << >>
    <3>1. w[s + i + 1] = ";"
      <4>1. 1 \in 1 .. Len(ext) /\ s + i + 1 = s + lh + 1
        BY <1>1, <1>2, <1>4, <2>2
      <4> QED
        BY <1>2, <2>2, <4>1 DEF ChunkText, At, IsChunk
    <3>2. OnExtension(q, FALSE, "Size", 0, SizeRead(h, Len(h)), B)
      BY <1>1, <1>2, <1>4, <2>2, <3>1, OnSizeTurn
    <3>3. 0 \in 0 .. Len(ext) /\ i + 1 = Len(h) + 1 + 0
      BY <1>2, <1>4, <2>2
    <3> QED
      BY <2>2, <3>2, <3>3 DEF InChunk
  <2>3. CASE j = lh /\ ext = << >>
    <3>1. w[s + i + 1] = "CR"
      <4>1. le = 0 /\ s + i + 1 = s + lh + le + 1
        BY <1>2, <1>4, <2>3
      <4> QED
        BY <1>3, <4>1
    <3>2. \A b \in SizeRead(h, Len(h)) : b # << >> /\ HextoDec(b) \in {0, Len(c)}
      BY DEF IsChunk
    <3>3. OnSizeEnd(q, Len(c), B)
      BY <1>1, <1>2, <1>4, <2>3, <3>1, <3>2, OnSizeEnds
    <3>4. i + 1 = Len(h) + 1
      BY <1>2, <1>4, <2>3
    <3> QED
      BY <2>3, <3>3, <3>4 DEF InChunk
  <2>4. j < lh \/ j = lh
    BY <1>2
  <2> QED
    BY <2>1, <2>2, <2>3, <2>4
<1>5. ASSUME ext # << >>, NEW j \in 0 .. Len(ext), i = Len(h) + 1 + j,
             OnExtension(p, z, "Size", j, SizeRead(h, Len(h)), B)
      PROVE  InChunk(q, FALSE, i + 1, h, ext, c, B)
  <2>1. /\ j \in Nat /\ le \in Nat /\ j =< le /\ 2 * le < MaxChunkExt
        /\ \A b \in SizeRead(h, Len(h)) : b \in Seq(Chars) /\ Len(b) =< 3
    <3>1. j \in Nat /\ j =< le
      BY <1>2
    <3>2. 2 * Len(ext) < MaxChunkExt
      BY <1>5, Zenon DEF IsChunk
    <3>3. \A b \in SizeRead(h, Len(h)) : b \in Seq(Chars) /\ Len(b) =< 3
      BY Zenon DEF IsChunk
    <3> QED
      BY <1>2, <3>1, <3>2, <3>3
  <2>2. CASE j < le
    <3>1. w[s + i + 1] # "LF"
      <4>1. CASE j + 2 =< le
        <5>1. PICK m \in 1 .. Len(ext) : m = j + 2
          BY <1>2, <2>1, <4>1
        <5>2. s + i + 1 = (s + Len(h)) + m
          BY <1>2, <1>5, <2>1, <5>1
        <5>3. At(w, s + Len(h), ext) /\ ext[m] # "LF"
          BY <5>1, Zenon DEF ChunkText, IsChunk
        <5>4. w[(s + Len(h)) + m] = ext[m]
          BY <5>3, Zenon DEF At
        <5> QED
          BY <5>2, <5>3, <5>4
      <4>2. CASE j + 1 = le
        <5>1. s + i + 1 = s + lh + le + 1
          BY <1>2, <1>5, <2>1, <4>2
        <5> QED
          BY <1>3, <5>1
      <4> QED
        BY <2>1, <2>2, <4>1, <4>2
    <3>2. OnExtension(q, FALSE, "Size", j + 1, SizeRead(h, Len(h)), B)
      BY <1>5, <2>1, <3>1, OnExtensionTurn
    <3>3. j + 1 \in 0 .. Len(ext) /\ i + 1 = Len(h) + 1 + (j + 1)
      BY <1>2, <1>5, <2>1, <2>2
    <3> QED
      BY <1>5, <3>2, <3>3 DEF InChunk
  <2>3. CASE j = le
    <3>1. w[s + i + 1] = "LF"
      <4>1. s + i + 1 = s + lh + le + 2
        BY <1>2, <1>5, <2>1, <2>3
      <4> QED
        BY <1>3, <4>1
    <3>2. \A b \in SizeRead(h, Len(h)) : b # << >> /\ HextoDec(b) \in {0, Len(c)}
      BY DEF IsChunk
    <3>3. OnData(q, 0, c, B)
      BY <1>1, <1>5, <2>1, <2>3, <3>1, <3>2, OnExtensionEnds
    <3>4. 0 \in 0 .. Len(c) /\ i + 1 = Len(h) + Len(ext) + 2 + 0
      BY <1>2, <1>5, <2>1, <2>3
    <3> QED
      BY <3>3, <3>4 DEF InChunk
  <2>4. j < le \/ j = le
    BY <2>1
  <2> QED
    BY <2>2, <2>3, <2>4
<1>6. ASSUME ext = << >>, i = Len(h) + 1, OnSizeEnd(p, Len(c), B)
      PROVE  InChunk(q, FALSE, i + 1, h, ext, c, B)
  <2>1. w[s + i + 1] = "LF"
    <3>1. le = 0 /\ s + i + 1 = s + lh + le + 2
      BY <1>2, <1>6
    <3> QED
      BY <1>3, <3>1
  <2>2. OnData(q, 0, c, B)
    BY <1>1, <1>6, <2>1, OnSizeEndTurn
  <2>3. 0 \in 0 .. Len(c) /\ i + 1 = Len(h) + Len(ext) + 2 + 0
    BY <1>2, <1>6
  <2> QED
    BY <2>2, <2>3 DEF InChunk
<1>7. ASSUME NEW j \in 0 .. Len(c), i = Len(h) + Len(ext) + 2 + j, OnData(p, j, c, B)
      PROVE  InChunk(q, FALSE, i + 1, h, ext, c, B) \/ Stopped(q, B, c)
  <2>1. CASE j < lc
    <3>1. w[s + i + 1] = c[j + 1]
      <4>1. PICK m \in 1 .. Len(c) : m = j + 1
        BY <1>2, <1>7, <2>1
      <4>2. s + i + 1 = (s + Len(h) + Len(ext) + 2) + m
        BY <1>2, <1>7, <4>1
      <4>3. At(w, s + Len(h) + Len(ext) + 2, c)
        BY Zenon DEF ChunkText
      <4>4. w[(s + Len(h) + Len(ext) + 2) + m] = c[m]
        BY <4>3, Zenon DEF At
      <4> QED
        BY <4>1, <4>2, <4>4
    <3>2. Stopped(q, B, c) \/ OnData(q, j + 1, c, B)
      BY <1>1, <1>2, <1>7, <2>1, <3>1, OnDataTurn
    <3>3. j + 1 \in 0 .. Len(c) /\ i + 1 = Len(h) + Len(ext) + 2 + (j + 1)
      BY <1>2, <1>7, <2>1
    <3> QED
      BY <3>2, <3>3 DEF InChunk
  <2>2. CASE j = lc
    <3>1. w[s + i + 1] = "CR"
      <4>1. s + i + 1 = s + lh + le + 2 + lc + 1
        BY <1>2, <1>7, <2>2
      <4> QED
        BY <1>3, <4>1
    <3>2. Stopped(q, B, c) \/ OnDataEnd(q, B \o c)
      BY <1>1, <1>2, <1>7, <2>2, <3>1, OnDataTurn
    <3>3. i + 1 = Len(h) + Len(ext) + 2 + Len(c) + 1
      BY <1>2, <1>7, <2>2
    <3> QED
      BY <3>2, <3>3 DEF InChunk
  <2>3. j < lc \/ j = lc
    BY <1>2
  <2> QED
    BY <2>1, <2>2, <2>3
<1>8. ASSUME i = Len(h) + Len(ext) + 2 + Len(c) + 1, OnDataEnd(p, B \o c)
      PROVE  \/ i + 1 = ChunkLen(h, ext, c) /\ AtStart(q, FALSE, B \o c)
             \/ Stopped(q, B, c)
  <2>1. PICK D \in Seq(Chars) : D = B \o c
    BY <1>1, Joined
  <2>2. w[s + i + 1] = "LF"
    <3>1. s + i + 1 = s + lh + le + 2 + lc + 2
      BY <1>2, <1>8
    <3> QED
      BY <1>3, <3>1
  <2>3. Stopped(q, B, c) \/ AtStart(q, FALSE, D)
    BY <1>8, <2>1, <2>2, OnDataEndStops
  <2>4. i + 1 = ChunkLen(h, ext, c)
    BY <1>2, <1>8 DEF ChunkLen
  <2> QED
    BY <2>1, <2>3, <2>4
<1> QED
  BY <1>4, <1>5, <1>6, <1>7, <1>8 DEF InChunk

IsExt(ext) ==
    /\ ext \in Seq(Chars) /\ \A i \in 1 .. Len(ext) : ext[i] # "LF"
    /\ ext # << >> => ext[1] = ";" /\ 2 * Len(ext) < MaxChunkExt

(* The last chunk with its extension, the n fields of the trailer and an empty line. *)
TailText(w, s, ext, n) ==
    /\ w[s + 1] = "0" /\ At(w, s + 1, ext) /\ At(w, s + 1 + Len(ext), CRLF)
    /\ \A k \in 0 .. n - 1 : /\ w[s + Len(ext) + 3 + 3 * k + 1] = "field"
                             /\ w[s + Len(ext) + 3 + 3 * k + 2] = "CR"
                             /\ w[s + Len(ext) + 3 + 3 * k + 3] = "LF"
    /\ At(w, s + Len(ext) + 3 + 3 * n, CRLF)

TailLen(ext, n) == Len(ext) + 5 + 3 * n

(* The parser has taken the first i characters of that. *)
InTail(p, z, i, ext, n, B) ==
    \/ i = 1 /\ OnLast(p, B)
    \/ /\ ext # << >>
       /\ \E j \in 0 .. Len(ext) : i = 2 + j /\ OnExtension(p, z, "Last", j, EndOfPiece, B)
    \/ ext = << >> /\ i = 2 /\ OnLastEnd(p, B)
    \/ \E k \in 0 .. n : i = Len(ext) + 3 + 3 * k /\ OnTrailer(p, B)
    \/ \E k \in 0 .. n - 1 : i = Len(ext) + 3 + 3 * k + 1 /\ OnField(p, B)
    \/ \E k \in 0 .. n - 1 : i = Len(ext) + 3 + 3 * k + 2 /\ OnFieldEnd(p, B)
    \/ i = Len(ext) + 3 + 3 * n + 1 /\ OnTrailerEnd(p, B)
    \/ i = TailLen(ext, n) /\ ~ z /\ OnEnd(p, B)
    \/ i = TailLen(ext, n) /\ z /\ OnDone(p, B)

LEMMA TailEndOfPiece ==
    ASSUME NEW ext, IsExt(ext), NEW n \in Nat, NEW B, NEW p, NEW i,
           InTail(p, FALSE, i, ext, n, B), NEW q, q = Turn(p, "NUL")
    PROVE  InTail(q, TRUE, i, ext, n, B)
<1>1. CASE i = 1 /\ OnLast(p, B)
  BY <1>1, LastTurns DEF InTail
<1>2. ASSUME ext # << >>, NEW j \in 0 .. Len(ext), i = 2 + j,
             OnExtension(p, FALSE, "Last", j, EndOfPiece, B)
      PROVE  InTail(q, TRUE, i, ext, n, B)
  <2>1. j \in Nat /\ Len(ext) \in Nat /\ j =< Len(ext)
    <3>1. ext \in Seq(Chars)
      BY Zenon DEF IsExt
    <3> QED
      BY <3>1
  <2>2. 2 * Len(ext) < MaxChunkExt
    BY <1>2, Zenon DEF IsExt
  <2>3. \A b \in EndOfPiece : b \in Seq(Chars) /\ Len(b) =< 3
    BY EndOfPieceType
  <2>4. OnExtension(q, TRUE, "Last", j, EndOfPiece, B)
    BY <1>2, <2>1, <2>2, <2>3, OnExtensionTurn
  <2> QED
    BY <1>2, <2>4 DEF InTail
<1>3. CASE ext = << >> /\ i = 2 /\ OnLastEnd(p, B)
  BY <1>3, LastTurns DEF InTail
<1>4. CASE \E k \in 0 .. n : i = Len(ext) + 3 + 3 * k /\ OnTrailer(p, B)
  BY <1>4, TrailerTurns DEF InTail
<1>5. CASE \E k \in 0 .. n - 1 : i = Len(ext) + 3 + 3 * k + 1 /\ OnField(p, B)
  BY <1>5, TrailerTurns DEF InTail
<1>6. CASE \E k \in 0 .. n - 1 : i = Len(ext) + 3 + 3 * k + 2 /\ OnFieldEnd(p, B)
  BY <1>6, TrailerTurns DEF InTail
<1>7. CASE i = Len(ext) + 3 + 3 * n + 1 /\ OnTrailerEnd(p, B)
  BY <1>7, TrailerTurns DEF InTail
<1>8. CASE i = TailLen(ext, n) /\ OnEnd(p, B)
  BY <1>8, TrailerTurns DEF InTail
<1> QED
  BY <1>1, <1>2, <1>3, <1>4, <1>5, <1>6, <1>7, <1>8 DEF InTail

LEMMA TailTurn ==
    ASSUME NEW ext, IsExt(ext), NEW n \in Nat, NEW B, NEW p, NEW i, NEW z \in BOOLEAN,
           InTail(p, z, i, ext, n, B), i < TailLen(ext, n),
           NEW w, NEW s \in Nat, TailText(w, s, ext, n), NEW q, q = Turn(p, w[s + i + 1])
    PROVE  InTail(q, FALSE, i + 1, ext, n, B)
<1>1. PICK e \in Nat : e = Len(ext) /\ (ext = << >> <=> e = 0)
  <2>1. ext \in Seq(Chars)
    BY Zenon DEF IsExt
  <2> QED
    BY <2>1
<1>2. w[s + e + 2] = "CR" /\ w[s + e + 3] = "LF"
  <2>1. CRLF[1] = "CR" /\ CRLF[2] = "LF" /\ 1 \in 1 .. Len(CRLF) /\ 2 \in 1 .. Len(CRLF)
    BY DEF CRLF
  <2>2. w[s + 1 + Len(ext) + 1] = "CR" /\ w[s + 1 + Len(ext) + 2] = "LF"
    BY <2>1, Zenon DEF TailText, At
  <2> QED
    BY <1>1, <2>2
<1>3. w[s + e + 3 + 3 * n + 1] = "CR" /\ w[s + e + 3 + 3 * n + 2] = "LF"
  <2>1. CRLF[1] = "CR" /\ CRLF[2] = "LF" /\ 1 \in 1 .. Len(CRLF) /\ 2 \in 1 .. Len(CRLF)
    BY DEF CRLF
  <2> QED
    BY <1>1, <2>1, Zenon DEF TailText, At
<1>4. \A k \in 0 .. n - 1 : /\ w[s + e + 3 + 3 * k + 1] = "field"
                            /\ w[s + e + 3 + 3 * k + 2] = "CR"
                            /\ w[s + e + 3 + 3 * k + 3] = "LF"
  BY <1>1, Zenon DEF TailText
<1>5. CASE i = 1 /\ OnLast(p, B)
  <2>1. CASE e = 0
    <3>1. s + i + 1 = s + e + 2 /\ i + 1 = 2
      BY <1>5, <2>1
    <3>2. q = Turn(p, "CR")
      BY <1>2, <3>1
    <3>3. OnLastEnd(q, B)
      <4>1. OnLastEnd(Turn(p, "CR"), B)
        BY <1>5, LastTurns
      <4> QED
        BY <3>2, <4>1
    <3> QED
      BY <1>1, <2>1, <3>1, <3>3 DEF InTail
  <2>2. CASE e # 0
    <3>1. w[s + 1 + 1] = ";"
      <4>1. 1 \in 1 .. Len(ext) /\ ext # << >>
        BY <1>1, <2>2
      <4>2. At(w, s + 1, ext) /\ ext[1] = ";"
        BY <4>1, Zenon DEF TailText, IsExt
      <4> QED
        BY <4>1, <4>2, Zenon DEF At
    <3>2. q = Turn(p, ";")
      BY <1>5, <3>1
    <3>3. 0 \in 0 .. Len(ext) /\ i + 1 = 2 + 0 /\ ext # << >>
      BY <1>1, <1>5, <2>2
    <3>4. OnExtension(q, FALSE, "Last", 0, EndOfPiece, B)
      <4>1. OnExtension(Turn(p, ";"), FALSE, "Last", 0, EndOfPiece, B)
        BY <1>5, LastTurns
      <4> QED
        BY <3>2, <4>1
    <3> QED
      BY <3>3, <3>4 DEF InTail
  <2> QED
    BY <2>1, <2>2
<1>6. ASSUME ext # << >>, NEW j \in 0 .. Len(ext), i = 2 + j,
             OnExtension(p, z, "Last", j, EndOfPiece, B)
      PROVE  InTail(q, FALSE, i + 1, ext, n, B)
  <2>1. j \in Nat /\ j =< e
    BY <1>1
  <2>2. 2 * e < MaxChunkExt
    BY <1>1, <1>6, Zenon DEF IsExt
  <2>3. \A b \in EndOfPiece : b \in Seq(Chars) /\ Len(b) =< 3
    BY EndOfPieceType
  <2>4. CASE j < e
    <3>1. w[s + i + 1] # "LF"
      <4>1. CASE j + 2 =< e
        <5>1. PICK m \in 1 .. Len(ext) : m = j + 2
          BY <1>1, <2>1, <4>1
        <5>2. s + i + 1 = (s + 1) + m
          BY <1>6, <2>1, <5>1
        <5>3. At(w, s + 1, ext) /\ ext[m] # "LF"
          BY Zenon DEF TailText, IsExt
        <5>4. w[(s + 1) + m] = ext[m]
          BY <5>3, Zenon DEF At
        <5> QED
          BY <5>2, <5>3, <5>4
      <4>2. CASE j + 1 = e
        <5>1. s + i + 1 = s + e + 2
          BY <1>6, <2>1, <4>2
        <5> QED
          BY <1>2, <5>1
      <4> QED
        BY <2>1, <2>4, <4>1, <4>2
    <3>2. OnExtension(q, FALSE, "Last", j + 1, EndOfPiece, B)
      BY <1>6, <2>1, <2>2, <2>3, <3>1, OnExtensionTurn
    <3>3. j + 1 \in 0 .. Len(ext) /\ i + 1 = 2 + (j + 1)
      BY <1>1, <1>6, <2>1, <2>4
    <3> QED
      BY <1>6, <3>2, <3>3 DEF InTail
  <2>5. CASE j = e
    <3>1. w[s + i + 1] = "LF"
      <4>1. s + i + 1 = s + e + 3
        BY <1>6, <2>1, <2>5
      <4> QED
        BY <1>2, <4>1
    <3>2. OnTrailer(q, B)
      <4>1. \E b \in EndOfPiece : Is(q, "Trailer", b, 0, B, FALSE, 0, FALSE, FALSE)
        BY <1>6, <2>2, <2>3, <2>5, <3>1, OnExtensionEnds
      <4> QED
        BY <4>1 DEF OnTrailer
    <3>3. 0 \in 0 .. n /\ i + 1 = Len(ext) + 3 + 3 * 0
      BY <1>1, <1>6, <2>1, <2>5
    <3> QED
      BY <3>2, <3>3 DEF InTail
  <2>6. j < e \/ j = e
    BY <2>1
  <2> QED
    BY <2>4, <2>5, <2>6
<1>7. CASE ext = << >> /\ i = 2 /\ OnLastEnd(p, B)
  <2>1. s + i + 1 = s + e + 3 /\ 0 \in 0 .. n /\ i + 1 = Len(ext) + 3 + 3 * 0
    BY <1>1, <1>7
  <2>2. q = Turn(p, "LF")
    BY <1>2, <2>1
  <2>3. OnTrailer(q, B)
    <3>1. OnTrailer(Turn(p, "LF"), B)
      BY <1>7, LastTurns
    <3> QED
      BY <2>2, <3>1
  <2> QED
    BY <2>1, <2>3 DEF InTail
<1>8. ASSUME NEW k \in 0 .. n, i = Len(ext) + 3 + 3 * k, OnTrailer(p, B)
      PROVE  InTail(q, FALSE, i + 1, ext, n, B)
  <2>1. CASE k < n
    <3>1. k \in 0 .. n - 1 /\ i + 1 = Len(ext) + 3 + 3 * k + 1
      BY <1>1, <1>8, <2>1
    <3>2. q = Turn(p, "field")
      <4>1. s + i + 1 = s + e + 3 + 3 * k + 1
        BY <1>1, <1>8
      <4> QED
        BY <1>4, <3>1, <4>1
    <3> QED
      BY <1>8, <3>1, <3>2, TrailerTurns DEF InTail
  <2>2. CASE k = n
    <3>1. s + i + 1 = s + e + 3 + 3 * n + 1 /\ i + 1 = Len(ext) + 3 + 3 * n + 1
      BY <1>1, <1>8, <2>2
    <3>2. q = Turn(p, "CR")
      BY <1>3, <3>1
    <3> QED
      BY <1>8, <3>1, <3>2, TrailerTurns DEF InTail
  <2>3. k < n \/ k = n
    OBVIOUS
  <2> QED
    BY <2>1, <2>2, <2>3
<1>9. ASSUME NEW k \in 0 .. n - 1, i = Len(ext) + 3 + 3 * k + 1, OnField(p, B)
      PROVE  InTail(q, FALSE, i + 1, ext, n, B)
  <2>1. s + i + 1 = s + e + 3 + 3 * k + 2 /\ i + 1 = Len(ext) + 3 + 3 * k + 2
    BY <1>1, <1>9
  <2>2. q = Turn(p, "CR")
    BY <1>4, <2>1
  <2> QED
    BY <1>9, <2>1, <2>2, TrailerTurns DEF InTail
<1>10. ASSUME NEW k \in 0 .. n - 1, i = Len(ext) + 3 + 3 * k + 2, OnFieldEnd(p, B)
       PROVE  InTail(q, FALSE, i + 1, ext, n, B)
  <2>1. s + i + 1 = s + e + 3 + 3 * k + 3
    BY <1>1, <1>10
  <2>2. q = Turn(p, "LF")
    BY <1>4, <2>1
  <2>3. k + 1 \in 0 .. n /\ i + 1 = Len(ext) + 3 + 3 * (k + 1)
    BY <1>1, <1>10
  <2> QED
    BY <1>10, <2>2, <2>3, TrailerTurns DEF InTail
<1>11. CASE i = Len(ext) + 3 + 3 * n + 1 /\ OnTrailerEnd(p, B)
  <2>1. s + i + 1 = s + e + 3 + 3 * n + 2 /\ i + 1 = TailLen(ext, n)
    BY <1>1, <1>11 DEF TailLen
  <2>2. q = Turn(p, "LF")
    BY <1>3, <2>1
  <2> QED
    BY <1>11, <2>1, <2>2, TrailerTurns DEF InTail
<1>12. i # TailLen(ext, n)
  BY <1>1 DEF TailLen
<1> QED
  BY <1>5, <1>6, <1>7, <1>8, <1>9, <1>10, <1>11, <1>12 DEF InTail

(***************************************************************************)
(* The chunks of a message end at o[i] in its text, and at g[i] in its     *)
(* data.                                                                   *)
(***************************************************************************)
HexOf(m, i)     == Hex(Len(m.chunks[i]))
BodyOf(m, g, i) == SubSeq(m.data, 1, g[i])

Laid(m, o, g) ==
    /\ o \in [0 .. Len(m.chunks) -> Nat] /\ o[0] = 0 /\ g[0] = 0
    /\ Len(m.chunks) \in Nat /\ Len(m.trailer) \in Nat /\ IsExt(m.ext)
    /\ \A i \in 1 .. Len(m.chunks) :
          /\ IsChunk(HexOf(m, i), m.ext, m.chunks[i])
          /\ ChunkText(m.wire, o[i - 1], HexOf(m, i), m.ext, m.chunks[i])
          /\ o[i] = o[i - 1] + ChunkLen(HexOf(m, i), m.ext, m.chunks[i])
          /\ BodyOf(m, g, i) = BodyOf(m, g, i - 1) \o m.chunks[i]
          /\ \A j \in 0 .. Len(m.chunks[i]) :
                IsPrefix(BodyOf(m, g, i - 1) \o SubSeq(m.chunks[i], 1, j), m.data)
          /\ Len(BodyOf(m, g, i - 1)) + Len(m.chunks[i]) =< Len(m.data)
    /\ TailText(m.wire, o[Len(m.chunks)], m.ext, Len(m.trailer))
    /\ Len(m.wire) = o[Len(m.chunks)] + TailLen(m.ext, Len(m.trailer))
    /\ BodyOf(m, g, Len(m.chunks)) = m.data
    /\ \A i \in 0 .. Len(m.chunks) :
          o[i] =< o[Len(m.chunks)] /\ BodyOf(m, g, i) \in Seq(Chars) /\ IsPrefix(BodyOf(m, g, i), m.data)

(* The parser has taken the first k characters of the message. *)
Place(m, o, g, p, k, z) ==
    \/ \E i \in 0 .. Len(m.chunks) : k = o[i] /\ AtStart(p, z, BodyOf(m, g, i))
    \/ \E i \in 1 .. Len(m.chunks), x \in Nat :
          /\ k = o[i - 1] + x
          /\ InChunk(p, z, x, HexOf(m, i), m.ext, m.chunks[i], BodyOf(m, g, i - 1))
    \/ \E x \in Nat :
          k = o[Len(m.chunks)] + x /\ InTail(p, z, x, m.ext, Len(m.trailer), m.data)

(* It has stopped in the data of a chunk. *)
Halted(m, g, p) ==
    \E i \in 1 .. Len(m.chunks) : Stopped(p, BodyOf(m, g, i - 1), m.chunks[i])

LEMMA PlaceTurn ==
    ASSUME NEW m, NEW o, NEW g, Laid(m, o, g), NEW p, NEW k \in Nat, k < Len(m.wire),
           NEW z \in BOOLEAN, Place(m, o, g, p, k, z), NEW q, q = Turn(p, m.wire[k + 1])
    PROVE  Place(m, o, g, q, k + 1, FALSE) \/ Halted(m, g, q)
<1>1. PICK n \in Nat : n = Len(m.chunks)
  BY DEF Laid
<1>2. ASSUME NEW i \in 0 .. n, k = o[i], AtStart(p, z, BodyOf(m, g, i))
      PROVE  Place(m, o, g, q, k + 1, FALSE)
  <2>1. CASE i < n
    <3>1. PICK l \in 1 .. n : l = i + 1 /\ l - 1 = i
      BY <2>1
    <3>2. /\ IsChunk(HexOf(m, l), m.ext, m.chunks[l])
          /\ ChunkText(m.wire, o[i], HexOf(m, l), m.ext, m.chunks[l])
      BY <1>1, <3>1 DEF Laid
    <3>3. PICK h : h = HexOf(m, l)
      OBVIOUS
    <3>4. 1 \in 1 .. Len(h) /\ IsHexDig(h[1]) /\ h[1] # "0" /\ h[1] # "NUL"
      <4>1. h \in Seq(Chars) /\ Len(h) \in {1, 2} /\ IsHexDig(h[1]) /\ h[1] # "0" /\ h[1] # "NUL"
        BY <3>2, <3>3, Zenon DEF IsChunk
      <4>2. 1 \in 1 .. Len(h)
        BY <4>1
      <4> QED
        BY <4>1, <4>2
    <3>5. m.wire[k + 1] = h[1]
      BY <1>2, <3>2, <3>3, <3>4, Zenon DEF ChunkText, At
    <3>6. OnSize(q, 1, h, BodyOf(m, g, i))
      BY <1>2, <3>4, <3>5, OnStartTurn
    <3>7. InChunk(q, FALSE, 1, h, m.ext, m.chunks[l], BodyOf(m, g, l - 1))
      BY <3>1, <3>4, <3>6 DEF InChunk
    <3>8. k + 1 = o[l - 1] + 1 /\ 1 \in Nat
      BY <1>2, <3>1
    <3> QED
      BY <1>1, <3>3, <3>7, <3>8, Zenon DEF Place
  <2>2. CASE i = n
    <3>1. m.wire[k + 1] = "0"
      BY <1>1, <1>2, <2>2, Zenon DEF Laid, TailText
    <3>2. BodyOf(m, g, i) = m.data
      BY <1>1, <2>2, Zenon DEF Laid
    <3>3. OnLast(q, m.data)
      <4>1. AtStart(p, z, m.data) /\ q = Turn(p, "0")
        BY <1>2, <3>1, <3>2
      <4>2. OnLast(Turn(p, "0"), m.data)
        BY <4>1, LastTurns
      <4> QED
        BY <4>1, <4>2
    <3>4. InTail(q, FALSE, 1, m.ext, Len(m.trailer), m.data)
      BY <3>3 DEF InTail
    <3>5. k + 1 = o[Len(m.chunks)] + 1 /\ 1 \in Nat
      BY <1>1, <1>2, <2>2
    <3> QED
      BY <3>4, <3>5, Zenon DEF Place
  <2>3. i < n \/ i = n
    BY <1>1
  <2> QED
    BY <2>1, <2>2, <2>3
<1>3. ASSUME NEW i \in 1 .. n, NEW x \in Nat, k = o[i - 1] + x,
             InChunk(p, z, x, HexOf(m, i), m.ext, m.chunks[i], BodyOf(m, g, i - 1))
      PROVE  Place(m, o, g, q, k + 1, FALSE) \/ Halted(m, g, q)
  <2>1. /\ IsChunk(HexOf(m, i), m.ext, m.chunks[i])
        /\ ChunkText(m.wire, o[i - 1], HexOf(m, i), m.ext, m.chunks[i])
        /\ o[i] = o[i - 1] + ChunkLen(HexOf(m, i), m.ext, m.chunks[i])
        /\ BodyOf(m, g, i) = BodyOf(m, g, i - 1) \o m.chunks[i]
    BY <1>1, Zenon DEF Laid
  <2>2. i - 1 \in 0 .. n /\ i \in 0 .. n
    BY <1>1
  <2>3. PICK s \in Nat, B \in Seq(Chars) : s = o[i - 1] /\ B = BodyOf(m, g, i - 1)
    <3>1. o[i - 1] \in Nat /\ BodyOf(m, g, i - 1) \in Seq(Chars)
      BY <1>1, <2>2 DEF Laid
    <3> QED
      BY <3>1
  <2>4. q = Turn(p, m.wire[s + x + 1])
    BY <1>3, <2>3
  <2>5. \/ InChunk(q, FALSE, x + 1, HexOf(m, i), m.ext, m.chunks[i], B)
        \/ /\ x + 1 = ChunkLen(HexOf(m, i), m.ext, m.chunks[i])
           /\ AtStart(q, FALSE, B \o m.chunks[i])
        \/ Stopped(q, B, m.chunks[i])
    BY <1>3, <2>1, <2>3, <2>4, ChunkTurn, Zenon
  <2>6. k + 1 = o[i - 1] + (x + 1) /\ x + 1 \in Nat
    <3>1. k = s + x
      BY <1>3, <2>3
    <3>2. k + 1 = s + (x + 1)
      BY <3>1
    <3> QED
      BY <2>3, <3>2
  <2>7. CASE InChunk(q, FALSE, x + 1, HexOf(m, i), m.ext, m.chunks[i], B)
    BY <1>1, <2>3, <2>6, <2>7, Zenon DEF Place
  <2>8. CASE /\ x + 1 = ChunkLen(HexOf(m, i), m.ext, m.chunks[i])
             /\ AtStart(q, FALSE, B \o m.chunks[i])
    <3>1. k + 1 = o[i] /\ AtStart(q, FALSE, BodyOf(m, g, i))
      BY <2>1, <2>3, <2>6, <2>8
    <3> QED
      BY <1>1, <2>2, <3>1, Zenon DEF Place
  <2>9. CASE Stopped(q, B, m.chunks[i])
    BY <1>1, <2>3, <2>9, Zenon DEF Halted
  <2> QED
    BY <2>5, <2>7, <2>8, <2>9
<1>4. ASSUME NEW x \in Nat, k = o[Len(m.chunks)] + x,
             InTail(p, z, x, m.ext, Len(m.trailer), m.data)
      PROVE  Place(m, o, g, q, k + 1, FALSE)
  <2>1. PICK t \in Nat : t = Len(m.trailer)
    BY DEF Laid
  <2>2. PICK s \in Nat : s = o[Len(m.chunks)]
    <3>1. o[n] \in Nat
      BY <1>1 DEF Laid
    <3> QED
      BY <1>1, <3>1
  <2>3. IsExt(m.ext) /\ TailText(m.wire, s, m.ext, t)
    BY <2>1, <2>2, Zenon DEF Laid
  <2>4. x < TailLen(m.ext, t)
    <3>1. Len(m.wire) = s + TailLen(m.ext, t)
      BY <2>1, <2>2, Zenon DEF Laid
    <3>2. PICK e \in Nat : e = Len(m.ext)
      <4>1. m.ext \in Seq(Chars)
        BY <2>3, Zenon DEF IsExt
      <4> QED
        BY <4>1
    <3>3. TailLen(m.ext, t) = e + 5 + 3 * t
      BY <3>2 DEF TailLen
    <3> QED
      BY <1>4, <2>2, <3>1, <3>3
  <2>5. q = Turn(p, m.wire[s + x + 1])
    BY <1>4, <2>2
  <2>6. InTail(q, FALSE, x + 1, m.ext, t, m.data)
    BY <1>4, <2>1, <2>3, <2>4, <2>5, TailTurn, Zenon
  <2>7. k + 1 = o[Len(m.chunks)] + (x + 1) /\ x + 1 \in Nat
    <3>1. k = s + x
      BY <1>4, <2>2
    <3>2. k + 1 = s + (x + 1)
      BY <3>1
    <3> QED
      BY <2>2, <3>2
  <2> QED
    BY <2>1, <2>6, <2>7, Zenon DEF Place
<1> QED
  BY <1>1, <1>2, <1>3, <1>4 DEF Place

LEMMA PlaceEndOfPiece ==
    ASSUME NEW m, NEW o, NEW g, Laid(m, o, g), NEW p, NEW k, Place(m, o, g, p, k, FALSE),
           NEW q, q = Turn(p, "NUL")
    PROVE  Place(m, o, g, q, k, TRUE) \/ Halted(m, g, q)
<1>1. PICK n \in Nat : n = Len(m.chunks)
  BY DEF Laid
<1>2. ASSUME NEW i \in 0 .. n, k = o[i], AtStart(p, FALSE, BodyOf(m, g, i))
      PROVE  Place(m, o, g, q, k, TRUE)
  <2>1. AtStart(q, TRUE, BodyOf(m, g, i))
    BY <1>2, OnStartTurn
  <2> QED
    BY <1>1, <1>2, <2>1, Zenon DEF Place
<1>3. ASSUME NEW i \in 1 .. n, NEW x \in Nat, k = o[i - 1] + x,
             InChunk(p, FALSE, x, HexOf(m, i), m.ext, m.chunks[i], BodyOf(m, g, i - 1))
      PROVE  Place(m, o, g, q, k, TRUE) \/ Halted(m, g, q)
  <2>1. IsChunk(HexOf(m, i), m.ext, m.chunks[i])
    BY <1>1, Zenon DEF Laid
  <2>2. BodyOf(m, g, i - 1) \in Seq(Chars)
    <3>1. i - 1 \in 0 .. n
      BY <1>1
    <3> QED
      BY <1>1, <3>1, Zenon DEF Laid
  <2>3. \/ InChunk(q, TRUE, x, HexOf(m, i), m.ext, m.chunks[i], BodyOf(m, g, i - 1))
        \/ Stopped(q, BodyOf(m, g, i - 1), m.chunks[i])
    BY <1>3, <2>1, <2>2, ChunkEndOfPiece, Zenon
  <2> QED
    BY <1>1, <1>3, <2>3, Zenon DEF Place, Halted
<1>4. ASSUME NEW x \in Nat, k = o[Len(m.chunks)] + x,
             InTail(p, FALSE, x, m.ext, Len(m.trailer), m.data)
      PROVE  Place(m, o, g, q, k, TRUE)
  <2>1. IsExt(m.ext) /\ Len(m.trailer) \in Nat
    BY Zenon DEF Laid
  <2>2. InTail(q, TRUE, x, m.ext, Len(m.trailer), m.data)
    BY <1>4, <2>1, TailEndOfPiece, Zenon
  <2> QED
    BY <1>4, <2>2, Zenon DEF Place
<1> QED
  BY <1>1, <1>2, <1>3, <1>4 DEF Place

(* What a parser has of the data: see Taken. *)
TakenBy(p) == p.body \o IF p.cur_state = "Data" THEN p.buffer ELSE << >>

IsParser(p) == p = [f \in DOMAIN NewParser |-> p[f]]

LEMMA IsTaken ==
    ASSUME NEW p, NEW s, NEW b, NEW n, NEW d \in Seq(Chars), NEW x, NEW k, NEW t, NEW r,
           Is(p, s, b, n, d, x, k, t, r)
    PROVE  /\ IsParser(p) /\ p.error = NoError /\ p.cur_state = s /\ p.body = d /\ p.chunk_size = n
           /\ s = "Data" => TakenBy(p) = d \o b
           /\ s # "Data" => TakenBy(p) = d
<1>1. IsParser(p) /\ p.error = NoError /\ p.cur_state = s /\ p.body = d /\ p.chunk_size = n /\ p.buffer = b
  BY DEF Is, Holds, IsParser
<1>2. d \o << >> = d
  OBVIOUS
<1>3. s = "Data" => TakenBy(p) = d \o b
  BY <1>1, Zenon DEF TakenBy
<1>4. s # "Data" => TakenBy(p) = d
  BY <1>1, <1>2, Zenon DEF TakenBy
<1> QED
  BY <1>1, <1>3, <1>4

(* A parser somewhere in a message has not failed and took only what is there. *)
Sound(p, d) ==
    IsParser(p) /\ p.error = NoError /\ p.cur_state # "Invalid" /\ IsPrefix(TakenBy(p), d)

LEMMA OutsideData ==
    ASSUME NEW p, NEW s, s \notin {"Data", "Done", "Invalid"}, NEW b, NEW n, NEW d \in Seq(Chars),
           NEW x, NEW k, NEW t, NEW r, Is(p, s, b, n, d, x, k, t, r), NEW w, IsPrefix(d, w)
    PROVE  Sound(p, w) /\ p.cur_state # "Done"
  BY IsTaken DEF Sound

LEMMA StartIsSound ==
    ASSUME NEW p, NEW z, NEW B \in Seq(Chars), NEW w, IsPrefix(B, w), AtStart(p, z, B)
    PROVE  Sound(p, w) /\ p.cur_state # "Done"
<1>1. PICK b : Is(p, "Start", b, 0, B, FALSE, 0, FALSE, FALSE)
  BY DEF AtStart
<1> QED
  BY <1>1, OutsideData

LEMMA ChunkIsSound ==
    ASSUME NEW p, NEW z, NEW x, NEW h, NEW ext, NEW c \in Seq(Chars), NEW B \in Seq(Chars),
           NEW w, InChunk(p, z, x, h, ext, c, B), IsPrefix(B, w), IsPrefix(B \o c, w),
           \A j \in 0 .. Len(c) : IsPrefix(B \o SubSeq(c, 1, j), w)
    PROVE  Sound(p, w) /\ p.cur_state # "Done"
<1>1. ASSUME NEW j, OnSize(p, j, h, B) PROVE Sound(p, w) /\ p.cur_state # "Done"
  <2>1. PICK b : Is(p, "Size", b, 0, B, FALSE, 0, FALSE, FALSE)
    BY <1>1 DEF OnSize
  <2> QED
    BY <2>1, OutsideData
<1>2. ASSUME NEW j, OnExtension(p, z, "Size", j, SizeRead(h, Len(h)), B)
      PROVE  Sound(p, w) /\ p.cur_state # "Done"
  <2>1. PICK b, k : Is(p, "Size", b, 0, B, TRUE, k, FALSE, FALSE)
    BY <1>2, Zenon DEF OnExtension
  <2> QED
    BY <2>1, OutsideData
<1>3. ASSUME OnSizeEnd(p, Len(c), B) PROVE Sound(p, w) /\ p.cur_state # "Done"
  <2>1. PICK n : Is(p, "Size", << >>, n, B, FALSE, 0, FALSE, TRUE)
    BY <1>3 DEF OnSizeEnd
  <2> QED
    BY <2>1, OutsideData
<1>4. ASSUME NEW j \in 0 .. Len(c), OnData(p, j, c, B)
      PROVE  Sound(p, w) /\ p.cur_state # "Done"
  <2>1. PICK b : b = SubSeq(c, 1, j)
    OBVIOUS
  <2>2. PICK n : Is(p, "Data", b, n, B, FALSE, 0, FALSE, FALSE)
    BY <1>4, <2>1, Zenon DEF OnData
  <2>3. IsPrefix(B \o b, w)
    BY <2>1
  <2>4. TakenBy(p) = B \o b /\ IsParser(p) /\ p.error = NoError /\ p.cur_state = "Data"
    BY <2>2, IsTaken
  <2> QED
    BY <2>3, <2>4 DEF Sound
<1>5. ASSUME OnDataEnd(p, B \o c) PROVE Sound(p, w) /\ p.cur_state # "Done"
  <2>1. PICK D \in Seq(Chars) : D = B \o c
    BY Joined
  <2>2. Is(p, "Data", << >>, 0, D, FALSE, 0, FALSE, TRUE)
    BY <1>5, <2>1, Zenon DEF OnDataEnd
  <2>3. TakenBy(p) = D \o << >> /\ IsParser(p) /\ p.error = NoError /\ p.cur_state = "Data"
    BY <2>2, IsTaken
  <2>4. D \o << >> = D
    OBVIOUS
  <2> QED
    BY <2>1, <2>3, <2>4 DEF Sound
<1> QED
  BY <1>1, <1>2, <1>3, <1>4, <1>5 DEF InChunk

LEMMA TailIsSound ==
    ASSUME NEW p, NEW z \in BOOLEAN, NEW x, NEW ext, NEW n, NEW B \in Seq(Chars),
           InTail(p, z, x, ext, n, B)
    PROVE  /\ Sound(p, B)
           /\ p.cur_state = "Done" => x = TailLen(ext, n) /\ p.body = B /\ p.chunk_size = 0
<1>0. IsPrefix(B, B)
  BY PrefixByElements
<1>1. ASSUME NEW s \in {"Last", "Trailer", "End"}, NEW b, NEW e, NEW k, NEW t, NEW r,
             Is(p, s, b, 0, B, e, k, t, r)
      PROVE  Sound(p, B) /\ p.cur_state # "Done"
  BY <1>0, <1>1, OutsideData
<1>2. CASE OnLast(p, B) \/ OnLastEnd(p, B)
  BY <1>1, <1>2 DEF OnLast, OnLastEnd
<1>3. ASSUME NEW j, OnExtension(p, z, "Last", j, EndOfPiece, B)
      PROVE  Sound(p, B) /\ p.cur_state # "Done"
  <2>1. PICK b, k : Is(p, "Last", b, 0, B, TRUE, k, FALSE, FALSE)
    BY <1>3, Zenon DEF OnExtension
  <2> QED
    BY <1>1, <2>1
<1>4. CASE OnTrailer(p, B) \/ OnField(p, B) \/ OnFieldEnd(p, B) \/ OnTrailerEnd(p, B)
  BY <1>1, <1>4 DEF OnTrailer, OnField, OnFieldEnd, OnTrailerEnd
<1>5. CASE OnEnd(p, B)
  BY <1>1, <1>5 DEF OnEnd
<1>6. CASE x = TailLen(ext, n) /\ OnDone(p, B)
  <2>1. PICK b, r : Is(p, "Done", b, 0, B, FALSE, 0, FALSE, r)
    BY <1>6 DEF OnDone
  <2>2. /\ IsParser(p) /\ p.error = NoError /\ p.cur_state = "Done"
        /\ p.body = B /\ p.chunk_size = 0
    BY <2>1 DEF Is, Holds, IsParser
  <2>3. B \o << >> = B
    OBVIOUS
  <2>4. TakenBy(p) = B
    BY <2>2, <2>3, Zenon DEF TakenBy
  <2> QED
    BY <1>0, <1>6, <2>2, <2>4 DEF Sound
<1> QED
  BY <1>2, <1>3, <1>4, <1>5, <1>6 DEF InTail

LEMMA InChunkBound ==
    ASSUME NEW h, NEW ext, NEW c, IsChunk(h, ext, c), NEW p, NEW z, NEW x, NEW B,
           InChunk(p, z, x, h, ext, c, B)
    PROVE  x < ChunkLen(h, ext, c)
<1>1. h \in Seq(Chars) /\ ext \in Seq(Chars) /\ c \in Seq(Chars)
  BY DEF IsChunk
<1>2. PICK lh \in Nat, le \in Nat, lc \in Nat : lh = Len(h) /\ le = Len(ext) /\ lc = Len(c)
  BY <1>1
<1>3. ChunkLen(h, ext, c) = lh + le + lc + 4
  BY <1>2 DEF ChunkLen
<1>4. \/ x \in 1 .. lh \/ \E j \in 0 .. le : x = lh + 1 + j
      \/ x = lh + 1 \/ \E j \in 0 .. lc : x = lh + le + 2 + j
      \/ x = lh + le + 2 + lc + 1
  BY <1>2, Zenon DEF InChunk
<1> QED
  BY <1>3, <1>4

LEMMA InTailEnd ==
    ASSUME NEW ext, IsExt(ext), NEW n \in Nat, NEW p, NEW B,
           InTail(p, TRUE, TailLen(ext, n), ext, n, B)
    PROVE  p.cur_state = "Done"
<1>1. ext \in Seq(Chars)
  BY DEF IsExt
<1>2. PICK le \in Nat : le = Len(ext)
  BY <1>1
<1>3. PICK x \in Nat : x = TailLen(ext, n) /\ x = le + 5 + 3 * n
  BY <1>2 DEF TailLen
<1>4. \/ x = 1 \/ \E j \in 0 .. le : x = 2 + j
      \/ x = 2 \/ \E k \in 0 .. n : x = le + 3 + 3 * k
      \/ \E k \in 0 .. n - 1 : x = le + 3 + 3 * k + 1
      \/ \E k \in 0 .. n - 1 : x = le + 3 + 3 * k + 2
      \/ x = le + 3 + 3 * n + 1
      \/ OnDone(p, B)
  BY <1>2, <1>3, Zenon DEF InTail
<1>5. OnDone(p, B)
  BY <1>3, <1>4
<1> QED
  BY <1>5 DEF OnDone, Is, Holds

(* What a parser somewhere in a message has, and that it ends where the text ends. *)
LEMMA PlaceFacts ==
    ASSUME NEW m, NEW o, NEW g, Laid(m, o, g), NEW p, NEW k \in Nat, NEW z \in BOOLEAN,
           Place(m, o, g, p, k, z)
    PROVE  /\ Sound(p, m.data)
           /\ p.cur_state = "Done" => k = Len(m.wire) /\ p.body = m.data /\ p.chunk_size = 0
           /\ z /\ k = Len(m.wire) => p.cur_state = "Done"
<1>1. PICK n \in Nat, t \in Nat : n = Len(m.chunks) /\ t = Len(m.trailer)
  BY DEF Laid
<1>2. IsExt(m.ext) /\ m.ext \in Seq(Chars)
  BY DEF Laid, IsExt
<1>3. PICK e \in Nat : e = o[n]
  <2>1. o[n] \in Nat
    BY <1>1 DEF Laid
  <2> QED
    BY <2>1
<1>4. Len(m.wire) = e + TailLen(m.ext, t)
  BY <1>1, <1>3, Zenon DEF Laid
<1>0. PICK le \in Nat : le = Len(m.ext)
  BY <1>2
<1>11. PICK w \in Nat : w = TailLen(m.ext, t) /\ w > 0
  <2>1. TailLen(m.ext, t) = le + 5 + 3 * t
    BY <1>0 DEF TailLen
  <2>2. le + 5 + 3 * t \in Nat /\ le + 5 + 3 * t > 0
    OBVIOUS
  <2> QED
    BY <2>1, <2>2
<1>5. e < Len(m.wire)
  BY <1>4, <1>11
<1>6. \A i \in 0 .. n : /\ o[i] \in Nat /\ o[i] =< e /\ BodyOf(m, g, i) \in Seq(Chars)
                        /\ IsPrefix(BodyOf(m, g, i), m.data)
  <2>1. \A i \in 0 .. n : /\ o[i] =< e /\ BodyOf(m, g, i) \in Seq(Chars)
                          /\ IsPrefix(BodyOf(m, g, i), m.data)
    BY <1>1, <1>3, Zenon DEF Laid
  <2>2. \A i \in 0 .. n : o[i] \in Nat
    BY <1>1 DEF Laid
  <2> QED
    BY <2>1, <2>2
<1>7. BodyOf(m, g, n) = m.data /\ m.data \in Seq(Chars)
  <2>1. BodyOf(m, g, n) = m.data
    BY <1>1, Zenon DEF Laid
  <2>2. n \in 0 .. n
    OBVIOUS
  <2> QED
    BY <1>6, <2>1, <2>2
<1>8. ASSUME NEW i \in 0 .. n, k = o[i], AtStart(p, z, BodyOf(m, g, i))
      PROVE  Sound(p, m.data) /\ p.cur_state # "Done" /\ k < Len(m.wire)
  <2>1. Sound(p, m.data) /\ p.cur_state # "Done"
    BY <1>6, <1>8, StartIsSound
  <2>2. k \in Nat /\ k =< e
    BY <1>6, <1>8
  <2>3. Len(m.wire) = e + TailLen(m.ext, t) /\ k < Len(m.wire)
    BY <1>4, <1>5, <2>2
  <2> QED
    BY <2>1, <2>3
<1>9. ASSUME NEW i \in 1 .. n, NEW x \in Nat, k = o[i - 1] + x,
             InChunk(p, z, x, HexOf(m, i), m.ext, m.chunks[i], BodyOf(m, g, i - 1))
      PROVE  Sound(p, m.data) /\ p.cur_state # "Done" /\ k < Len(m.wire)
  <2>1. /\ IsChunk(HexOf(m, i), m.ext, m.chunks[i])
        /\ o[i] = o[i - 1] + ChunkLen(HexOf(m, i), m.ext, m.chunks[i])
        /\ BodyOf(m, g, i) = BodyOf(m, g, i - 1) \o m.chunks[i]
        /\ \A j \in 0 .. Len(m.chunks[i]) :
              IsPrefix(BodyOf(m, g, i - 1) \o SubSeq(m.chunks[i], 1, j), m.data)
    BY <1>1, Zenon DEF Laid
  <2>2. PICK l \in 0 .. n : l = i - 1
    OBVIOUS
  <2>3. i \in 0 .. n /\ m.chunks[i] \in Seq(Chars)
    <3>1. m.chunks[i] \in Seq(Chars)
      BY <2>1, Zenon DEF IsChunk
    <3> QED
      BY <3>1
  <2>4. Sound(p, m.data) /\ p.cur_state # "Done"
    <3>1. PICK B \in Seq(Chars), c \in Seq(Chars) : B = BodyOf(m, g, i - 1) /\ c = m.chunks[i]
      BY <1>6, <2>2, <2>3
    <3>2. IsPrefix(B, m.data) /\ IsPrefix(B \o c, m.data)
      BY <1>6, <2>1, <2>2, <2>3, <3>1
    <3>3. \A j \in 0 .. Len(c) : IsPrefix(B \o SubSeq(c, 1, j), m.data)
      BY <2>1, <3>1
    <3>4. InChunk(p, z, x, HexOf(m, i), m.ext, c, B)
      BY <1>9, <3>1
    <3> QED
      BY <3>2, <3>3, <3>4, ChunkIsSound, Zenon
  <2>5. x < ChunkLen(HexOf(m, i), m.ext, m.chunks[i])
    BY <1>9, <2>1, InChunkBound, Zenon
  <2>6. PICK u \in Nat, v \in Nat : u = o[l] /\ v = o[i] /\ v =< e
    BY <1>6, <2>3
  <2>7. PICK y \in Int : y = ChunkLen(HexOf(m, i), m.ext, m.chunks[i])
    <3>1. HexOf(m, i) \in Seq(Chars) /\ m.chunks[i] \in Seq(Chars)
      BY <2>1, Zenon DEF IsChunk
    <3>2. PICK a \in Nat, b \in Nat : a = Len(HexOf(m, i)) /\ b = Len(m.chunks[i])
      BY <3>1
    <3>3. ChunkLen(HexOf(m, i), m.ext, m.chunks[i]) = a + le + b + 4
      BY <1>0, <3>2 DEF ChunkLen
    <3> QED
      BY <3>3
  <2>8. k = u + x /\ v = u + y /\ x < y
    BY <1>9, <2>1, <2>2, <2>5, <2>6, <2>7
  <2>9. k < e
    BY <2>6, <2>8
  <2>10. k < Len(m.wire)
    <3>1. Len(m.wire) = e + w
      BY <1>4, <1>11
    <3> QED
      BY <1>5, <2>6, <2>8, <2>9, <3>1
  <2> QED
    BY <2>4, <2>10
<1>10. ASSUME NEW x \in Nat, k = o[Len(m.chunks)] + x,
              InTail(p, z, x, m.ext, Len(m.trailer), m.data)
      PROVE   /\ Sound(p, m.data)
              /\ p.cur_state = "Done" => k = Len(m.wire) /\ p.body = m.data /\ p.chunk_size = 0
              /\ z /\ k = Len(m.wire) => p.cur_state = "Done"
  <2>1. k = e + x /\ InTail(p, z, x, m.ext, t, m.data)
    BY <1>1, <1>3, <1>10
  <2>2. /\ Sound(p, m.data)
        /\ p.cur_state = "Done" => x = TailLen(m.ext, t) /\ p.body = m.data /\ p.chunk_size = 0
    BY <1>7, <2>1, TailIsSound, Zenon
  <2>3. ASSUME z, k = Len(m.wire) PROVE p.cur_state = "Done"
    <3>1. x = TailLen(m.ext, t)
      <4>1. Len(m.wire) = e + w
        BY <1>4, <1>11
      <4>2. x = w
        BY <2>1, <2>3, <4>1
      <4> QED
        BY <1>11, <4>2
    <3>2. z = TRUE
      BY <2>3
    <3>3. InTail(p, TRUE, TailLen(m.ext, t), m.ext, t, m.data)
      BY <2>1, <3>1, <3>2
    <3> QED
      BY <1>2, <3>3, InTailEnd
  <2> QED
    BY <1>4, <2>1, <2>2, <2>3
<1>12. Sound(p, m.data) /\ p.cur_state # "Done" /\ k < Len(m.wire) =>
           /\ Sound(p, m.data)
           /\ p.cur_state = "Done" => k = Len(m.wire) /\ p.body = m.data /\ p.chunk_size = 0
           /\ z /\ k = Len(m.wire) => p.cur_state = "Done"
  <2>1. Len(m.wire) = e + w
    BY <1>4, <1>11
  <2> QED
    BY <2>1
<1> QED
  BY <1>1, <1>8, <1>9, <1>10, <1>12, Zenon DEF Place

(* The turns of the loop on a piece of a text, and on the '\0' behind it. *)
LEMMA PieceIs ==
    ASSUME NEW S, NEW w \in Seq(S), NEW k \in Nat, NEW l \in Nat, k + l =< Len(w)
    PROVE  /\ SubSeq(w, k + 1, k + l) \in Seq(S) /\ Len(SubSeq(w, k + 1, k + l)) = l
           /\ \A j \in 1 .. l : SubSeq(w, k + 1, k + l)[j] = w[k + j]
<1>1. PICK a \in Int, b \in Int : a = k + 1 /\ b = k + l
  OBVIOUS
<1>2. \A i \in a .. b : w[i] \in S
  BY <1>1
<1>3. /\ SubSeq(w, a, b) \in Seq(S)
      /\ Len(SubSeq(w, a, b)) = IF a <= b THEN b - a + 1 ELSE 0
      /\ \A i \in 1 .. b - a + 1 : SubSeq(w, a, b)[i] = w[a + i - 1]
  BY <1>2, SubSeqProperties
<1>4. PICK u \in Seq(S) : u = SubSeq(w, a, b)
  BY <1>3
<1>5. Len(u) = l /\ \A j \in 1 .. l : u[j] = w[k + j]
  BY <1>1, <1>3, <1>4
<1> QED
  BY <1>1, <1>4, <1>5

(* The turns of the loop on a piece of a text, and on the '\0' behind it. *)
OnPiece(h, p, w, k, l) ==
    /\ h[0] = p /\ \A j \in 0 .. l - 1 : h[j + 1] = Turn(h[j], w[k + j + 1])
    /\ h[l + 1] = Turn(h[l], "NUL")

PieceOf(w, k, l) == Append(SubSeq(w, k + 1, k + l), "NUL")

LEMMA PieceTurns ==
    ASSUME NEW p, NEW w \in Seq(Chars), NEW k \in Nat, NEW l \in Nat, k + l =< Len(w)
    PROVE  \E h : OnPiece(h, p, w, k, l) /\ TurnsOf(p, PieceOf(w, k, l)) = h[l + 1]
<1>0. PICK s : s = Append(SubSeq(w, k + 1, k + l), "NUL") /\ s = PieceOf(w, k, l)
  BY DEF PieceOf
<1>1. PICK u \in Seq(Chars) : u = SubSeq(w, k + 1, k + l)
  BY PieceIs
<1>2. Len(u) = l /\ \A j \in 1 .. l : u[j] = w[k + j]
  BY <1>1, PieceIs
<1>3. "NUL" \in Chars
  BY DEF Chars
<1>4. s \in Seq(Chars) /\ Len(s) = l + 1 /\ s[l + 1] = "NUL" /\ \A j \in 1 .. l : s[j] = u[j]
  <2>1. s = Append(u, "NUL")
    BY <1>0, <1>1
  <2> QED
    BY <1>2, <1>3, <2>1, AppendType
<1>5. PICK n \in Nat : n = l + 1
  OBVIOUS
<1>6. DOMAIN s = 1 .. n
  BY <1>4, <1>5
<1>7. PICK h : TurnsAre(h, p, s, n) /\ TurnsOf(p, s) = h[n]
  BY <1>6, TurnByTurn
<1>8. h[0] = p /\ \A j \in 0 .. n - 1 : h[j + 1] = Turn(h[j], s[j + 1])
  BY <1>7 DEF TurnsAre
<1>9. ASSUME NEW j \in 0 .. l - 1 PROVE h[j + 1] = Turn(h[j], w[k + j + 1])
  <2>1. PICK i \in 1 .. l : i = j + 1
    OBVIOUS
  <2>2. s[j + 1] = w[k + i] /\ k + i = k + j + 1 /\ j \in 0 .. n - 1
    BY <1>2, <1>4, <1>5, <2>1
  <2> QED
    BY <1>8, <2>2
<1>10. h[l + 1] = Turn(h[l], "NUL")
  <2>1. l \in 0 .. n - 1
    BY <1>5
  <2> QED
    BY <1>4, <1>8, <2>1
<1> QED
  BY <1>0, <1>5, <1>7, <1>8, <1>9, <1>10 DEF OnPiece

LEMMA FailedTurn == ASSUME NEW p, p.error # NoError PROVE \A x : Turn(p, x) = p
  BY DEF Turn

LEMMA StoppedFacts ==
    ASSUME NEW p, NEW B \in Seq(Chars), NEW c \in Seq(Chars), Stopped(p, B, c), NEW w \in Seq(Chars),
           IsPrefix(B \o c, w), \A j \in 0 .. Len(c) : IsPrefix(B \o SubSeq(c, 1, j), w),
           Len(B) + Len(c) =< Len(w)
    PROVE  /\ p.error = 413 /\ p.cur_state = "Data"
           /\ IsPrefix(TakenBy(p), w) /\ Len(w) > DefaultMaxBody
           /\ \A x : Turn([p EXCEPT !.error = NoError], x) = p
<1>1. /\ p = [f \in DOMAIN NewParser |-> p[f]] /\ p.error = 413 /\ p.cur_state = "Data"
      /\ TakenBy(p) = p.body \o p.buffer
  BY Zenon DEF Stopped, TakenBy
<1>2. PICK u : u = [p EXCEPT !.error = NoError]
  OBVIOUS
<1>3. /\ u.error = NoError /\ u.cur_state = "Data" /\ u.body = p.body /\ u.chunk_size = p.chunk_size
      /\ [u EXCEPT !.error = 413] = p
  <2>1. u = [f \in DOMAIN NewParser |-> IF f = "error" THEN NoError ELSE p[f]]
    BY <1>1, <1>2 DEF NewParser
  <2>2. [u EXCEPT !.error = 413] = p
    <3>1. PICK v : v = [u EXCEPT !.error = 413]
      OBVIOUS
    <3>2. v = [f \in DOMAIN NewParser |-> IF f = "error" THEN 413 ELSE u[f]]
      BY <2>1, <3>1 DEF NewParser
    <3>3. \A f \in DOMAIN NewParser : (IF f = "error" THEN 413 ELSE u[f]) = p[f]
      BY <1>1, <2>1
    <3>4. v = [f \in DOMAIN NewParser |-> p[f]]
      BY <3>2, <3>3
    <3> QED
      BY <1>1, <3>1, <3>4
  <2>3. u.error = NoError /\ u.cur_state = "Data" /\ u.body = p.body /\ u.chunk_size = p.chunk_size
    BY <1>1, <2>1 DEF NewParser
  <2> QED
    BY <2>2, <2>3
<1>4. PICK d \in Nat : d = DefaultMaxBody
  BY ChunkLimitsAssumption
<1>5. PICK lw \in Nat : lw = Len(w)
  OBVIOUS
<1>6. CASE \E j \in 0 .. Len(c), n \in 0 .. Len(c) :
              /\ p.body = B /\ p.buffer = SubSeq(c, 1, j) /\ p.chunk_size = n
              /\ Len(B) + n > DefaultMaxBody
  <2>1. PICK j \in 0 .. Len(c), n \in 0 .. Len(c) :
              /\ p.body = B /\ p.buffer = SubSeq(c, 1, j) /\ p.chunk_size = n
              /\ Len(B) + n > DefaultMaxBody
    BY <1>6
  <2>2. IsPrefix(TakenBy(p), w)
    <3>1. IsPrefix(B \o SubSeq(c, 1, j), w)
      BY <2>1
    <3> QED
      BY <1>1, <2>1, <3>1, Zenon
  <2>3. lw > d
    BY <1>4, <1>5, <2>1
  <2>4. n \in Nat /\ u.chunk_size = n /\ u.body = B
    BY <1>3, <2>1
  <2>5. \A x : Turn(u, x) = [u EXCEPT !.error = 413]
    BY <1>3, <2>1, <2>4, DataStops
  <2> QED
    BY <1>1, <1>2, <1>3, <1>4, <1>5, <2>2, <2>3, <2>5
<1>7. CASE /\ p.body = B \o c /\ p.buffer = << >> /\ p.chunk_size = 0
           /\ Len(B \o c) > DefaultMaxBody
  <2>0. PICK D \in Seq(Chars) : D = B \o c /\ Len(D) = Len(B) + Len(c)
    BY Joined
  <2>1. PICK n \in Nat : D = B \o c /\ n = 0
    BY <2>0
  <2>2. D \o << >> = D /\ Len(D) = Len(B) + Len(c) /\ Len(D) + n = Len(D)
    BY <2>0, <2>1
  <2>3. IsPrefix(TakenBy(p), w)
    BY <1>1, <1>7, <2>1, <2>2
  <2>4. lw > d
    BY <1>4, <1>5, <1>7, <2>1, <2>2
  <2>5. u.chunk_size = n /\ u.body = D /\ Len(D) + n > DefaultMaxBody
    BY <1>3, <1>7, <2>1, <2>2
  <2>6. \A x : Turn(u, x) = [u EXCEPT !.error = 413]
    BY <1>3, <2>5, DataStops
  <2> QED
    BY <1>1, <1>2, <1>3, <1>4, <1>5, <2>3, <2>4, <2>6
<1> QED
  BY <1>6, <1>7 DEF Stopped

LEMMA HaltedHasFailed ==
    ASSUME NEW m, NEW g, NEW p, Halted(m, g, p)
    PROVE  p.error = 413
  BY Zenon DEF Halted, Stopped

(* Its next turn, whatever the character, ends at the limit as well. *)
StaysHalted(p) == \A x : Turn([p EXCEPT !.error = NoError], x) = p

LEMMA HaltedFacts ==
    ASSUME NEW m, NEW o, NEW g, Laid(m, o, g), NEW p, Halted(m, g, p)
    PROVE  /\ p.error = 413 /\ p.cur_state = "Data"
           /\ IsPrefix(TakenBy(p), m.data) /\ Len(m.data) > DefaultMaxBody
           /\ StaysHalted(p)
<1>1. PICK n \in Nat : n = Len(m.chunks)
  BY DEF Laid
<1>2. PICK i \in 1 .. n : Stopped(p, BodyOf(m, g, i - 1), m.chunks[i])
  BY <1>1 DEF Halted
<1>3. /\ IsChunk(HexOf(m, i), m.ext, m.chunks[i])
      /\ BodyOf(m, g, i) = BodyOf(m, g, i - 1) \o m.chunks[i]
      /\ \A j \in 0 .. Len(m.chunks[i]) :
            IsPrefix(BodyOf(m, g, i - 1) \o SubSeq(m.chunks[i], 1, j), m.data)
      /\ Len(BodyOf(m, g, i - 1)) + Len(m.chunks[i]) =< Len(m.data)
  BY <1>1, Zenon DEF Laid
<1>4. i - 1 \in 0 .. n /\ i \in 0 .. n /\ n \in 0 .. n
  OBVIOUS
<1>5. /\ BodyOf(m, g, i - 1) \in Seq(Chars) /\ m.chunks[i] \in Seq(Chars) /\ m.data \in Seq(Chars)
      /\ IsPrefix(BodyOf(m, g, i), m.data)
  BY <1>1, <1>3, <1>4, ZenonT(60) DEF Laid, IsChunk
<1>6. PICK B \in Seq(Chars), c \in Seq(Chars), w \in Seq(Chars) :
         B = BodyOf(m, g, i - 1) /\ c = m.chunks[i] /\ w = m.data
  BY <1>5
<1>7. /\ Stopped(p, B, c) /\ IsPrefix(B \o c, w) /\ Len(B) + Len(c) =< Len(w)
      /\ \A j \in 0 .. Len(c) : IsPrefix(B \o SubSeq(c, 1, j), w)
  BY <1>2, <1>3, <1>5, <1>6
<1>8. /\ p.error = 413 /\ p.cur_state = "Data"
      /\ IsPrefix(TakenBy(p), w) /\ Len(w) > DefaultMaxBody
      /\ \A x : Turn([p EXCEPT !.error = NoError], x) = p
  BY <1>7, StoppedFacts, Zenon
<1> QED
  BY <1>6, <1>8, Zenon DEF StaysHalted

(* With a piece, the parser gets on by as much as the piece has. *)
LEMMA PieceIsParsed ==
    ASSUME NEW m, NEW o, NEW g, Laid(m, o, g), m.wire \in Seq(Chars), NEW p,
           NEW k \in Nat, NEW l \in Nat, NEW z \in BOOLEAN, Place(m, o, g, p, k, z),
           k + l =< Len(m.wire), l > 0 \/ ~ z,
           NEW q, q = Parse(p, SubSeq(m.wire, k + 1, k + l))
    PROVE  Place(m, o, g, q, k + l, TRUE) \/ Halted(m, g, q)
<1>1. PICK lw \in Nat : lw = Len(m.wire) /\ k + l =< lw
  OBVIOUS
<1>2. [p EXCEPT !.error = NoError] = p
  <2>1. Sound(p, m.data)
    <3>1. k \in Nat
      OBVIOUS
    <3> QED
      BY <3>1, PlaceFacts, Zenon
  <2>2. p = [f \in DOMAIN NewParser |-> p[f]] /\ p.error = NoError
    BY <2>1 DEF Sound, IsParser
  <2> QED
    BY <2>2 DEF NewParser
<1>3. PICK s : s = Append(SubSeq(m.wire, k + 1, k + l), "NUL")
  OBVIOUS
<1>4. PICK h : /\ h[0] = p
               /\ \A j \in 0 .. l - 1 : h[j + 1] = Turn(h[j], m.wire[k + j + 1])
               /\ h[l + 1] = Turn(h[l], "NUL")
               /\ TurnsOf(p, s) = h[l + 1]
  <2>1. PICK w \in Seq(Chars) : w = m.wire
    OBVIOUS
  <2>2. k + l =< Len(w) /\ s = PieceOf(w, k, l)
    BY <1>3, <2>1 DEF PieceOf
  <2>3. \E h : OnPiece(h, p, w, k, l) /\ TurnsOf(p, PieceOf(w, k, l)) = h[l + 1]
    BY <2>2, PieceTurns
  <2> QED
    BY <2>1, <2>2, <2>3 DEF OnPiece
<1>5. q = AfterParseCheck(h[l + 1])
  BY <1>2, <1>3, <1>4, ParseIs
<1> DEFINE Reached(j) == (\E y \in BOOLEAN : /\ y => z /\ j = 0
                                             /\ Place(m, o, g, h[j], k + j, y))
                            \/ Halted(m, g, h[j])
           T == { j \in Nat : j =< l => Reached(j) }
<1>6. Reached(0)
  BY <1>4
<1>7. ASSUME NEW j \in Nat, j + 1 =< l, Reached(j) PROVE Reached(j + 1)
  <2>1. PICK i \in Nat : i = j + 1 /\ i # 0 /\ k + i = (k + j) + 1
    OBVIOUS
  <2>2. h[i] = Turn(h[j], m.wire[(k + j) + 1])
    <3>1. j \in 0 .. l - 1 /\ k + j + 1 = (k + j) + 1
      BY <1>7
    <3> QED
      BY <1>4, <2>1, <3>1
  <2>3. CASE Halted(m, g, h[j])
    <3>1. h[j].error = 413
      BY <2>3, HaltedHasFailed
    <3>2. h[j].error # NoError
      BY <3>1 DEF NoError
    <3>3. h[i] = h[j]
      BY <2>2, <3>2, FailedTurn
    <3> QED
      BY <2>1, <2>3, <3>3
  <2>4. ASSUME NEW y \in BOOLEAN, Place(m, o, g, h[j], k + j, y)
        PROVE  Reached(j + 1)
    <3>1. PICK kj \in Nat : kj = k + j /\ kj < lw
      BY <1>1, <1>7
    <3>2. Place(m, o, g, h[i], kj + 1, FALSE) \/ Halted(m, g, h[i])
      <4>1. kj < Len(m.wire) /\ Place(m, o, g, h[j], kj, y) /\ h[i] = Turn(h[j], m.wire[kj + 1])
        BY <1>1, <2>2, <2>4, <3>1
      <4> QED
        BY <4>1, PlaceTurn, Zenon
    <3> QED
      BY <2>1, <3>1, <3>2
  <2> QED
    BY <1>7, <2>3, <2>4
<1> HIDE DEF Reached
<1>8. l \in T
  <2>1. 0 \in T /\ \A j \in T : j + 1 \in T
    BY <1>6, <1>7
  <2>2. T \in SUBSET Nat
    OBVIOUS
  <2> HIDE DEF T
  <2> QED
    BY <2>1, <2>2, SetInduction
<1>9. Reached(l)
  BY <1>8
<1>10. Place(m, o, g, h[l + 1], k + l, TRUE) \/ Halted(m, g, h[l + 1])
  <2>1. CASE Halted(m, g, h[l])
    <3>1. h[l].error = 413
      BY <2>1, HaltedHasFailed
    <3>2. h[l].error # NoError
      BY <3>1 DEF NoError
    <3>3. h[l + 1] = h[l]
      BY <1>4, <3>2, FailedTurn
    <3> QED
      BY <2>1, <3>3
  <2>2. CASE Place(m, o, g, h[l], k + l, FALSE)
    BY <1>4, <2>2, PlaceEndOfPiece, Zenon
  <2>3. Place(m, o, g, h[l], k + l, FALSE) \/ Halted(m, g, h[l])
    <3>1. ASSUME NEW y \in BOOLEAN, y => z /\ l = 0, Place(m, o, g, h[l], k + l, y)
          PROVE  Place(m, o, g, h[l], k + l, FALSE)
      <4>1. y = FALSE
        BY <3>1
      <4> QED
        BY <3>1, <4>1
    <3> QED
      BY <1>9, <3>1, Zenon DEF Reached
  <2> QED
    BY <2>1, <2>2, <2>3
<1>11. q = h[l + 1]
  <2>1. CASE Halted(m, g, h[l + 1])
    <3>1. h[l + 1].error = 413
      BY <2>1, HaltedHasFailed
    <3> QED
      BY <1>5, <3>1 DEF AfterParseCheck, NoError
  <2>2. CASE Place(m, o, g, h[l + 1], k + l, TRUE)
    <3>1. PICK kl \in Nat : kl = k + l
      OBVIOUS
    <3>2. Place(m, o, g, h[l + 1], kl, TRUE)
      BY <2>2, <3>1
    <3>3. h[l + 1].cur_state = "Done" => h[l + 1].chunk_size = 0
      BY <3>2, PlaceFacts, ZenonT(60)
    <3> QED
      BY <1>5, <3>3 DEF AfterParseCheck
  <2> QED
    BY <1>10, <2>1, <2>2
<1> QED
  BY <1>10, <1>11

(* A parser that has stopped stays as it is, whatever it is given. *)
LEMMA HaltedStays ==
    ASSUME NEW m, NEW o, NEW g, Laid(m, o, g), NEW p, Halted(m, g, p), NEW S, NEW input \in Seq(S)
    PROVE  Parse(p, input) = p
<1>1. PICK u : u = [p EXCEPT !.error = NoError] /\ \A x : Turn(u, x) = p
  <2>1. StaysHalted(p)
    BY HaltedFacts
  <2> QED
    BY <2>1 DEF StaysHalted
<1>2. PICK n \in Nat : n = Len(input)
  OBVIOUS
<1>3. PICK s : s = Append(input, "NUL")
  OBVIOUS
<1>4. PICK l \in Nat : l = n + 1 /\ DOMAIN s = 1 .. l
  BY <1>2, <1>3
<1>5. PICK h : /\ h[0] = u
               /\ \A k \in 0 .. l - 1 : h[k + 1] = Turn(h[k], s[k + 1])
               /\ TurnsOf(u, s) = h[l]
  BY <1>4, TurnByTurn DEF TurnsAre
<1>6. p.error = 413 /\ \A x : Turn(p, x) = p
  <2>1. p.error = 413
    BY HaltedHasFailed
  <2> QED
    BY <2>1, FailedTurn DEF NoError
<1> DEFINE T == { k \in Nat : k =< n => h[k + 1] = p }
<1>7. 0 \in T
  <2>1. 0 \in 0 .. l - 1
    BY <1>4
  <2>2. h[0 + 1] = Turn(h[0], s[0 + 1])
    BY <1>5, <2>1
  <2> QED
    BY <1>1, <1>5, <2>2
<1>8. ASSUME NEW k \in T PROVE k + 1 \in T
  <2>1. ASSUME k + 1 =< n PROVE h[(k + 1) + 1] = p
    <3>1. k + 1 \in 0 .. l - 1 /\ h[k + 1] = p
      BY <1>4, <2>1
    <3>2. h[(k + 1) + 1] = Turn(h[k + 1], s[(k + 1) + 1])
      BY <1>5, <3>1
    <3> QED
      BY <1>6, <3>1, <3>2
  <2> QED
    BY <2>1
<1>9. n \in T
  <2>1. T \in SUBSET Nat
    OBVIOUS
  <2> HIDE DEF T
  <2> QED
    BY <1>7, <1>8, <2>1, SetInduction
<1>10. h[l] = p
  BY <1>4, <1>9
<1>11. Parse(p, input) = AfterParseCheck(p)
  BY <1>1, <1>3, <1>5, <1>10, ParseIs
<1> QED
  BY <1>6, <1>11 DEF AfterParseCheck, NoError

-----------------------------------------------------------------------------
(* The text of a message is laid out as its chunks say. *)

LEMMA WiderSeq ==
    ASSUME NEW S, NEW T, S \subseteq T, NEW s \in Seq(S)
    PROVE  s \in Seq(T)
  OBVIOUS

LEMMA TextIsChars ==
    ASSUME NEW s \in Seq(STRING)
    PROVE  s \in Seq(Chars)
<1>1. STRING \subseteq Chars
  BY DEF Chars
<1> QED
  BY <1>1, WiderSeq

LEMMA AtWithin ==
    ASSUME NEW S, NEW w, NEW u \in Seq(S), NEW s \in Seq(S), NEW k \in Nat, NEW j \in Nat,
           At(w, k, u), At(u, j, s), j + Len(s) =< Len(u)
    PROVE  At(w, k + j, s)
<1>1. PICK ls \in Nat, lu \in Nat : ls = Len(s) /\ lu = Len(u)
  OBVIOUS
<1>2. ASSUME NEW i \in 1 .. ls PROVE w[(k + j) + i] = s[i]
  <2>1. PICK l \in 1 .. lu : l = j + i
    BY <1>1
  <2>2. w[k + l] = u[l] /\ u[j + i] = s[i]
    BY <1>1, <1>2, <2>1, Zenon DEF At
  <2>3. k + l = (k + j) + i
    BY <2>1
  <2> QED
    BY <2>1, <2>2, <2>3
<1> QED
  BY <1>1, <1>2 DEF At

LEMMA TwoParts ==
    ASSUME NEW S, NEW p \in Seq(S), NEW q \in Seq(S), NEW w, w = p \o q
    PROVE  /\ w \in Seq(S) /\ Len(w) = Len(p) + Len(q)
           /\ At(w, 0, p) /\ At(w, Len(p), q)
<1>1. /\ w \in Seq(S) /\ Len(w) = Len(p) + Len(q)
      /\ \A i \in 1 .. Len(p) : w[i] = p[i]
      /\ \A i \in 1 .. Len(q) : w[Len(p) + i] = q[i]
  BY Joined
<1>2. At(w, 0, p)
  BY <1>1 DEF At
<1>3. At(w, Len(p), q)
  BY <1>1 DEF At
<1> QED
  BY <1>1, <1>2, <1>3

FiveOf(a, b, c, d, e) == a \o b \o c \o d \o e

PartsOf(w, a, b, c, d, e) ==
    /\ Len(w) = Len(a) + Len(b) + Len(c) + Len(d) + Len(e)
    /\ At(w, 0, a) /\ At(w, Len(a), b) /\ At(w, Len(a) + Len(b), c)
    /\ At(w, Len(a) + Len(b) + Len(c), d)
    /\ At(w, Len(a) + Len(b) + Len(c) + Len(d), e)

LEMMA FiveParts ==
    ASSUME NEW S, NEW a \in Seq(S), NEW b \in Seq(S), NEW c \in Seq(S), NEW d \in Seq(S),
           NEW e \in Seq(S)
    PROVE  /\ FiveOf(a, b, c, d, e) \in Seq(S)
           /\ PartsOf(FiveOf(a, b, c, d, e), a, b, c, d, e)
<1>0. PICK w : w = a \o b \o c \o d \o e /\ w = FiveOf(a, b, c, d, e)
  BY DEF FiveOf
<1>1. PICK x \in Seq(S) : x = a \o b /\ Len(x) = Len(a) + Len(b) /\ At(x, 0, a) /\ At(x, Len(a), b)
  BY TwoParts
<1>2. PICK y \in Seq(S) : y = x \o c /\ Len(y) = Len(x) + Len(c) /\ At(y, 0, x) /\ At(y, Len(x), c)
  BY TwoParts
<1>3. PICK z \in Seq(S) : z = y \o d /\ Len(z) = Len(y) + Len(d) /\ At(z, 0, y) /\ At(z, Len(y), d)
  BY TwoParts
<1>4. PICK v \in Seq(S) : v = z \o e /\ Len(v) = Len(z) + Len(e) /\ At(v, 0, z) /\ At(v, Len(z), e)
  BY TwoParts
<1>5. /\ w \in Seq(S) /\ Len(w) = Len(z) + Len(e) /\ At(w, 0, z) /\ At(w, Len(z), e)
  <2>1. w = v
    BY <1>0, <1>1, <1>2, <1>3, <1>4
  <2> QED
    BY <1>4, <2>1
<1>6. PICK la \in Nat, lb \in Nat, lc \in Nat, ld \in Nat, le \in Nat :
         la = Len(a) /\ lb = Len(b) /\ lc = Len(c) /\ ld = Len(d) /\ le = Len(e)
  OBVIOUS
<1>7. PICK lx \in Nat, ly \in Nat, lz \in Nat, nil \in Nat :
         lx = Len(x) /\ ly = Len(y) /\ lz = Len(z) /\ nil = 0
  OBVIOUS
<1>8. lx = la + lb /\ ly = la + lb + lc /\ lz = la + lb + lc + ld /\ nil = 0
  BY <1>1, <1>2, <1>3, <1>6, <1>7
<1>9. At(w, nil, z) /\ At(z, nil, y) /\ At(y, nil, x) /\ At(x, nil, a)
  BY <1>1, <1>2, <1>3, <1>5, <1>7
<1>10. \A i \in Nat : nil + i = i
  BY <1>8
<1>11. At(w, nil, y) /\ At(w, ly, d)
  <2>1. nil + Len(y) =< Len(z) /\ ly + Len(d) =< Len(z) /\ At(z, ly, d)
    BY <1>3, <1>6, <1>7, <1>8
  <2>2. At(w, nil + nil, y)
    BY <1>9, <2>1, AtWithin, Zenon
  <2>3. At(w, nil + ly, d)
    BY <1>9, <2>1, AtWithin, Zenon
  <2> QED
    BY <1>10, <2>2, <2>3
<1>12. At(w, nil, x) /\ At(w, lx, c)
  <2>1. nil + Len(x) =< Len(y) /\ lx + Len(c) =< Len(y) /\ At(y, lx, c)
    BY <1>2, <1>6, <1>7, <1>8
  <2>2. At(w, nil + nil, x)
    BY <1>9, <1>11, <2>1, AtWithin, Zenon
  <2>3. At(w, nil + lx, c)
    BY <1>11, <2>1, AtWithin, Zenon
  <2> QED
    BY <1>10, <2>2, <2>3
<1>13. At(w, nil, a) /\ At(w, la, b)
  <2>1. nil + Len(a) =< Len(x) /\ la + Len(b) =< Len(x) /\ At(x, la, b)
    BY <1>1, <1>6, <1>7, <1>8
  <2>2. At(w, nil + nil, a)
    BY <1>9, <1>12, <2>1, AtWithin, Zenon
  <2>3. At(w, nil + la, b)
    BY <1>12, <2>1, AtWithin, Zenon
  <2> QED
    BY <1>10, <2>2, <2>3
<1>14. At(w, lz, e) /\ Len(w) = lz + le
  BY <1>5, <1>6, <1>7
<1> QED
  BY <1>0, <1>5, <1>6, <1>7, <1>8, <1>11, <1>12, <1>13, <1>14 DEF PartsOf

(* The beginning of a text. *)
LEMMA CutAt ==
    ASSUME NEW S, NEW w \in Seq(S), NEW n \in Nat, n =< Len(w)
    PROVE  /\ SubSeq(w, 1, n) \in Seq(S) /\ Len(SubSeq(w, 1, n)) = n
           /\ \A i \in 1 .. n : SubSeq(w, 1, n)[i] = w[i]
           /\ IsPrefix(SubSeq(w, 1, n), w)
<1>1. PICK k \in Nat : k = 0 /\ k + n =< Len(w) /\ k + 1 = 1 /\ k + n = n
  OBVIOUS
<1>2. /\ SubSeq(w, k + 1, k + n) \in Seq(S) /\ Len(SubSeq(w, k + 1, k + n)) = n
      /\ \A j \in 1 .. n : SubSeq(w, k + 1, k + n)[j] = w[k + j]
  BY <1>1, PieceIs
<1>3. PICK u \in Seq(S) : u = SubSeq(w, 1, n)
  BY <1>1, <1>2
<1>4. Len(u) = n /\ \A j \in 1 .. n : u[j] = w[j]
  BY <1>1, <1>2, <1>3
<1>5. IsPrefix(u, w)
  BY <1>4, PrefixByElements
<1> QED
  BY <1>3, <1>4, <1>5

(* What the i-th part of a text adds to the parts before it. *)
IsPart(data, ss, g, i) ==
    /\ SubSeq(data, 1, g[i]) = SubSeq(data, 1, g[i - 1]) \o ss[i]
    /\ \A j \in 0 .. Len(ss[i]) :
          IsPrefix(SubSeq(data, 1, g[i - 1]) \o SubSeq(ss[i], 1, j), data)
    /\ Len(SubSeq(data, 1, g[i - 1])) + Len(ss[i]) =< Len(data)
    /\ \A j \in 1 .. Len(ss[i]) : \E l \in 1 .. Len(data) : ss[i][j] = data[l]

LEMMA PartOfText ==
    ASSUME NEW data \in Seq(Chars), NEW ss \in Seq(Seq(Chars)), NEW g, IsFlat(g, ss, data),
           NEW i \in 1 .. Len(ss)
    PROVE  IsPart(data, ss, g, i)
<1>1. PICK c \in Seq(Chars) : c = ss[i]
  <2>1. PICK T : T = Seq(Chars)
    OBVIOUS
  <2>2. ss \in Seq(T)
    BY <2>1
  <2>3. ss[i] \in T
    BY <2>2
  <2> QED
    BY <2>1, <2>3
<1>2. PICK n \in Nat, h \in Nat : n = Len(ss) /\ i \in 1 .. n /\ h = i - 1 /\ h \in 0 .. n
  <2>1. PICK n \in Nat : n = Len(ss) /\ i \in 1 .. n
    OBVIOUS
  <2>2. PICK h \in Nat : h = i - 1 /\ h \in 0 .. n
    BY <2>1
  <2> QED
    BY <2>1, <2>2
<1>3. PICK a \in Nat, b \in Nat, lc \in Nat, ld \in Nat :
         a = g[h] /\ b = g[i] /\ lc = Len(c) /\ ld = Len(data)
  <2>1. g[h] \in Nat /\ g[i] \in Nat
    <3>1. g \in [0 .. n -> Nat] /\ h \in 0 .. n /\ i \in 0 .. n
      BY <1>2 DEF IsFlat
    <3> QED
      BY <3>1
  <2> QED
    BY <2>1
<1>4. b = a + lc /\ b =< ld
  <2>1. g[i] = g[i - 1] + Len(ss[i]) /\ i \in 0 .. n
    BY <1>2 DEF IsFlat
  <2>2. g[i] =< Len(data)
    BY <1>2, <2>1, Zenon DEF IsFlat
  <2> QED
    BY <1>1, <1>2, <1>3, <2>1, <2>2
<1>5. \A j \in 1 .. lc : data[a + j] = c[j]
  BY <1>1, <1>2, <1>3, Zenon DEF IsFlat
<1>6. PICK B \in Seq(Chars) : /\ B = SubSeq(data, 1, a) /\ Len(B) = a
                              /\ \A j \in 1 .. a : B[j] = data[j]
  <2>1. a =< Len(data)
    BY <1>3, <1>4
  <2> QED
    <3>1. /\ SubSeq(data, 1, a) \in Seq(Chars) /\ Len(SubSeq(data, 1, a)) = a
          /\ \A j \in 1 .. a : SubSeq(data, 1, a)[j] = data[j]
      BY <2>1, CutAt
    <3> QED
      BY <3>1
<1>7. ASSUME NEW j \in 0 .. lc
      PROVE  /\ SubSeq(data, 1, a + j) = B \o SubSeq(c, 1, j)
             /\ IsPrefix(SubSeq(data, 1, a + j), data)
  <2>1. PICK x \in Nat : x = a + j /\ x =< Len(data)
    <3>1. a + j \in Nat /\ a + j =< a + lc /\ a + lc =< ld
      BY <1>4
    <3>2. a + j =< ld
      BY <3>1
    <3> QED
      BY <1>3, <3>1, <3>2
  <2>2. PICK D \in Seq(Chars) : /\ D = SubSeq(data, 1, x) /\ Len(D) = x
                                /\ \A k \in 1 .. x : D[k] = data[k]
                                /\ IsPrefix(D, data)
    BY <2>1, CutAt
  <2>3. PICK e \in Seq(Chars) : /\ e = SubSeq(c, 1, j) /\ Len(e) = j
                                /\ \A k \in 1 .. j : e[k] = c[k]
    <3>1. j \in Nat /\ j =< Len(c)
      BY <1>3
    <3>2. /\ SubSeq(c, 1, j) \in Seq(Chars) /\ Len(SubSeq(c, 1, j)) = j
          /\ \A k \in 1 .. j : SubSeq(c, 1, j)[k] = c[k]
      BY <3>1, CutAt
    <3> QED
      BY <3>2
  <2>4. PICK E \in Seq(Chars) : /\ E = B \o e /\ Len(E) = Len(B) + Len(e)
                                /\ \A k \in 1 .. Len(B) : E[k] = B[k]
                                /\ \A k \in 1 .. Len(e) : E[Len(B) + k] = e[k]
    <3>1. /\ B \o e \in Seq(Chars) /\ Len(B \o e) = Len(B) + Len(e)
          /\ \A k \in 1 .. Len(B) : (B \o e)[k] = B[k]
          /\ \A k \in 1 .. Len(e) : (B \o e)[Len(B) + k] = e[k]
      BY Joined
    <3> QED
      BY <3>1
  <2>5. Len(E) = x /\ Len(D) = x
    BY <1>6, <2>1, <2>2, <2>3, <2>4
  <2>6. \A k \in 1 .. x : E[k] = D[k]
    <3>1. ASSUME NEW k \in 1 .. x, k =< a PROVE E[k] = D[k]
      <4>1. k \in 1 .. a
        BY <3>1
      <4> QED
        BY <1>6, <2>2, <2>4, <4>1
    <3>2. ASSUME NEW k \in 1 .. x, k > a PROVE E[k] = D[k]
      <4>1. PICK y \in 1 .. j : y = k - a /\ k = a + y /\ y \in 1 .. lc
        BY <2>1, <3>2
      <4>2. E[a + y] = e[y] /\ e[y] = c[y]
        BY <1>6, <2>3, <2>4, <4>1
      <4> QED
        BY <1>5, <2>2, <4>1, <4>2
    <3> QED
      BY <3>1, <3>2
  <2>7. E = D
    BY <2>5, <2>6, SameElements
  <2> QED
    BY <2>1, <2>2, <2>3, <2>4, <2>7
<1>8. SubSeq(c, 1, lc) = c
  <2>1. PICK u \in Seq(Chars) : u = SubSeq(c, 1, lc) /\ Len(u) = lc /\ \A k \in 1 .. lc : u[k] = c[k]
    <3>1. lc =< Len(c)
      BY <1>3
    <3>2. /\ SubSeq(c, 1, lc) \in Seq(Chars) /\ Len(SubSeq(c, 1, lc)) = lc
          /\ \A k \in 1 .. lc : SubSeq(c, 1, lc)[k] = c[k]
      BY <3>1, CutAt
    <3> QED
      BY <3>2
  <2> QED
    BY <1>3, <2>1, SameElements
<1>9. SubSeq(data, 1, b) = B \o c
  <2>1. lc \in 0 .. lc /\ a + lc = b
    BY <1>4
  <2> QED
    BY <1>7, <1>8, <2>1
<1>10. \A j \in 0 .. lc : IsPrefix(B \o SubSeq(c, 1, j), data)
  BY <1>7
<1>11. Len(B) + Len(c) =< Len(data)
  BY <1>3, <1>4, <1>6
<1>12. \A j \in 1 .. lc : \E l \in 1 .. ld : c[j] = data[l]
  <2>1. ASSUME NEW j \in 1 .. lc PROVE \E l \in 1 .. ld : c[j] = data[l]
    <3>1. PICK l \in 1 .. ld : l = a + j
      BY <1>4
    <3> QED
      BY <1>5, <3>1
  <2> QED
    BY <2>1
<1>13. /\ SubSeq(data, 1, g[i]) = SubSeq(data, 1, g[i - 1]) \o ss[i]
       /\ Len(SubSeq(data, 1, g[i - 1])) + Len(ss[i]) =< Len(data)
  BY <1>1, <1>2, <1>3, <1>6, <1>9, <1>11
<1>14. \A j \in 0 .. Len(ss[i]) :
          IsPrefix(SubSeq(data, 1, g[i - 1]) \o SubSeq(ss[i], 1, j), data)
  BY <1>1, <1>2, <1>3, <1>6, <1>10
<1>15. \A j \in 1 .. Len(ss[i]) : \E l \in 1 .. Len(data) : ss[i][j] = data[l]
  BY <1>1, <1>3, <1>12
<1> QED
  BY <1>13, <1>14, <1>15, Zenon DEF IsPart

(* The parts of a text, one by one. *)
LEMMA PartsAreAt ==
    ASSUME NEW w, NEW ss, NEW o, IsFlat(o, ss, w), NEW i \in 1 .. Len(ss)
    PROVE  At(w, o[i - 1], ss[i])
  BY Zenon DEF IsFlat, At

(* Parts of the same length. *)
IsEven(ss, n, l)    == Len(ss) = n /\ \A i \in 1 .. n : Len(ss[i]) = l
EndEvenly(o, n, l) == \A i \in 0 .. n : o[i] = l * i

LEMMA EvenParts ==
    ASSUME NEW n \in Nat, NEW ss, NEW o, NEW w, IsFlat(o, ss, w), NEW l \in Nat, IsEven(ss, n, l)
    PROVE  EndEvenly(o, n, l)
<1>0. Len(ss) = n /\ \A i \in 1 .. n : Len(ss[i]) = l
  BY DEF IsEven
<1> DEFINE T == { k \in Nat : k =< n => o[k] = l * k }
<1>1. 0 \in T
  <2>1. o[0] = 0
    BY DEF IsFlat
  <2> QED
    BY <2>1
<1>2. ASSUME NEW k \in T PROVE k + 1 \in T
  <2>1. ASSUME k + 1 =< n PROVE o[k + 1] = l * (k + 1)
    <3>1. k + 1 \in 1 .. n /\ (k + 1) - 1 = k
      BY <2>1
    <3>2. o[k + 1] = o[k] + l
      BY <1>0, <3>1 DEF IsFlat
    <3>3. o[k] = l * k
      BY <2>1
    <3> QED
      BY <3>2, <3>3
  <2> QED
    BY <2>1
<1>3. T = Nat
  <2>1. T \in SUBSET Nat
    OBVIOUS
  <2> HIDE DEF T
  <2> QED
    BY <1>1, <1>2, <2>1, SetInduction
<1>4. ASSUME NEW i \in 0 .. n PROVE o[i] = l * i
  <2>1. i \in Nat /\ i =< n
    OBVIOUS
  <2>2. i \in T
    <3> HIDE DEF T
    <3> QED
      BY <1>3, <2>1
  <2> QED
    BY <2>1, <2>2
<1> QED
  BY <1>4 DEF EndEvenly

(* What the client sends: the lines of its chunks, and those of the trailer. *)
LineOf(m, i)  == HexOf(m, i) \o m.ext \o CRLF \o m.chunks[i] \o CRLF
LinesOf(m)    == [i \in DOMAIN m.chunks |-> LineOf(m, i)]
FieldsOf(m)   == [i \in DOMAIN m.trailer |-> << m.trailer[i] >> \o CRLF]
BeginningOf(m) == FlattenSeq(LinesOf(m)) \o << "0" >>

(* Chunked messages whose data and sizes are understood: without line ends and high octets. *)
IsPlain(m) ==
    /\ IsMessage(m) /\ m.framing # "length"
    /\ ToSet(m.data) \cap {"CR", "LF", "high"} = {}
    /\ \A i \in DOMAIN m.chunks : Len(m.chunks[i]) < 16 \/ Len(m.chunks[i]) % 16 < 10

LEMMA PlainType ==
    ASSUME NEW m, IsPlain(m)
    PROVE  /\ m.chunks \in Seq(Seq(Chars)) /\ m.ext \in Seq(Chars) /\ m.trailer \in Seq({"field"})
           /\ IsExt(m.ext) /\ m.data = FlattenSeq(m.chunks)
           /\ m.wire = BeginningOf(m) \o m.ext \o CRLF \o FlattenSeq(FieldsOf(m)) \o CRLF
           /\ \A i \in 1 .. Len(m.chunks) :
                 /\ Len(m.chunks[i]) \in 1 .. 255
                 /\ Len(m.chunks[i]) < 16 \/ Len(m.chunks[i]) % 16 < 10
           /\ \A l \in 1 .. Len(m.data) : m.data[l] \notin {"NUL", "CR", "LF", "high"}
           /\ CRLF \in Seq(Chars) /\ Len(CRLF) = 2 /\ CRLF[1] = "CR" /\ CRLF[2] = "LF"
<1>1. /\ m.chunks \in Seq(Seq(STRING)) /\ \A i \in DOMAIN m.chunks : Len(m.chunks[i]) \in 1 .. 255
      /\ IsExtension(m.ext) /\ m.trailer \in Seq({"field"})
      /\ m = ChunkedMessage(m.chunks, m.ext, m.trailer, m.expect)
      /\ "NUL" \notin ToSet(m.data)
  BY Zenon DEF IsPlain, IsMessage
<1>2. m.chunks \in Seq(Seq(Chars))
  <2>1. Seq(STRING) \subseteq Seq(Chars)
    BY TextIsChars
  <2> QED
    BY <1>1, <2>1, WiderSeq
<1>3. IsExt(m.ext) /\ m.ext \in Seq(Chars)
  <2>1. PICK e \in Seq(STRING) : e = m.ext
    BY <1>1 DEF IsExtension
  <2>2. e \in Seq(Chars)
    BY TextIsChars
  <2>3. e # << >> => e[1] = ";" /\ 2 * Len(e) < MaxChunkExt
    BY <1>1, <2>1, Zenon DEF IsExtension
  <2>4. \A i \in 1 .. Len(e) : e[i] # "LF"
    <3>1. "LF" \notin ToSet(e)
      BY <1>1, <2>1, Zenon DEF IsExtension
    <3>2. \A i \in 1 .. Len(e) : e[i] \in ToSet(e)
      BY DEF ToSet
    <3> QED
      BY <3>1, <3>2
  <2> QED
    BY <2>1, <2>2, <2>3, <2>4 DEF IsExt
<1>4. m.data = FlattenSeq(m.chunks) /\ m.wire = Chunked(m.chunks, m.ext, m.trailer)
  <2>1. PICK a, b, c, d : a = m.chunks /\ b = m.ext /\ c = m.trailer /\ d = m.expect
    OBVIOUS
  <2>2. m = ChunkedMessage(a, b, c, d)
    BY <1>1, <2>1
  <2>3. PICK x, y : x = FlattenSeq(a) /\ y = Chunked(a, b, c)
    OBVIOUS
  <2>4. m.data = x /\ m.wire = y
    BY <2>2, <2>3 DEF ChunkedMessage
  <2> QED
    BY <2>1, <2>3, <2>4
<1>5. m.wire = BeginningOf(m) \o m.ext \o CRLF \o FlattenSeq(FieldsOf(m)) \o CRLF
  BY <1>4, Zenon DEF Chunked, BeginningOf, LinesOf, LineOf, HexOf, FieldsOf, FlattenSeq
<1>6. DOMAIN m.chunks = 1 .. Len(m.chunks)
  BY <1>2
<1>7. m.data \in Seq(Chars)
  BY <1>2, <1>4, FlattenIs
<1>8. \A l \in 1 .. Len(m.data) : m.data[l] \notin {"NUL", "CR", "LF", "high"}
  <2>1. ToSet(m.data) \cap {"CR", "LF", "high"} = {}
    BY DEF IsPlain
  <2>2. \A l \in 1 .. Len(m.data) : m.data[l] \in ToSet(m.data)
    BY <1>7 DEF ToSet
  <2> QED
    BY <1>1, <2>1, <2>2
<1>9. \A i \in 1 .. Len(m.chunks) : Len(m.chunks[i]) < 16 \/ Len(m.chunks[i]) % 16 < 10
  BY <1>6, Zenon DEF IsPlain
<1>10. CRLF \in Seq(Chars) /\ Len(CRLF) = 2 /\ CRLF[1] = "CR" /\ CRLF[2] = "LF"
  BY DEF CRLF, Chars
<1> QED
  BY <1>1, <1>2, <1>3, <1>4, <1>5, <1>6, <1>8, <1>9, <1>10

LEMMA LineIsLaid ==
    ASSUME NEW m, IsPlain(m), NEW i \in 1 .. Len(m.chunks)
    PROVE  /\ LineOf(m, i) \in Seq(Chars)
           /\ Len(LineOf(m, i)) = ChunkLen(HexOf(m, i), m.ext, m.chunks[i])
           /\ ChunkText(LineOf(m, i), 0, HexOf(m, i), m.ext, m.chunks[i])
<1>0. PICK w : w = LineOf(m, i)
  OBVIOUS
<1>1. PICK c \in Seq(Chars), h \in Seq(Chars), e \in Seq(Chars), f \in Seq(Chars) :
         c = m.chunks[i] /\ h = HexOf(m, i) /\ e = m.ext /\ f = CRLF
  <2>1. PICK L \in 1 .. 255 : L = Len(m.chunks[i])
    BY PlainType
  <2>2. HexOf(m, i) \in Seq(Chars)
    BY <2>1, HexFacts DEF HexOf
  <2>3. m.chunks[i] \in Seq(Chars) /\ m.ext \in Seq(Chars) /\ CRLF \in Seq(Chars)
    <3>1. PICK T : T = Seq(Chars)
      OBVIOUS
    <3>2. m.chunks \in Seq(T) /\ m.ext \in T /\ CRLF \in T
      BY <3>1, PlainType
    <3>3. m.chunks[i] \in T
      BY <3>2
    <3> QED
      BY <3>1, <3>2, <3>3
  <2> QED
    BY <2>2, <2>3
<1>2. w = FiveOf(h, e, f, c, f)
  BY <1>0, <1>1 DEF LineOf, FiveOf
<1>3. /\ w \in Seq(Chars) /\ Len(w) = Len(h) + Len(e) + Len(f) + Len(c) + Len(f)
      /\ At(w, 0, h) /\ At(w, Len(h), e) /\ At(w, Len(h) + Len(e), f)
      /\ At(w, Len(h) + Len(e) + Len(f), c)
      /\ At(w, Len(h) + Len(e) + Len(f) + Len(c), f)
  <2>1. w \in Seq(Chars) /\ PartsOf(w, h, e, f, c, f)
    BY <1>2, FiveParts, Zenon
  <2> QED
    BY <2>1, Zenon DEF PartsOf
<1>4. PICK lh \in Nat, le \in Nat, lc \in Nat : lh = Len(h) /\ le = Len(e) /\ lc = Len(c)
  OBVIOUS
<1>5. Len(f) = 2
  BY <1>1, PlainType
<1>6. Len(w) = ChunkLen(h, e, c)
  BY <1>3, <1>4, <1>5 DEF ChunkLen
<1>7. ChunkText(w, 0, h, e, c)
  <2>1. 0 + Len(h) = Len(h)
    BY <1>4
  <2> QED
    BY <1>1, <1>3, <1>5, <2>1 DEF ChunkText
<1> QED
  BY <1>0, <1>1, <1>3, <1>6, <1>7

LEMMA FieldIsLaid ==
    ASSUME NEW m, IsPlain(m), NEW i \in 1 .. Len(m.trailer), NEW w, w = << m.trailer[i] >> \o CRLF
    PROVE  w \in Seq(Chars) /\ Len(w) = 3 /\ w[1] = "field" /\ w[2] = "CR" /\ w[3] = "LF"
<1>1. m.trailer[i] = "field" /\ "field" \in Chars
  <2>1. PICK x \in Seq({"field"}) : x = m.trailer
    BY PlainType
  <2>2. x[i] \in {"field"}
    BY <2>1
  <2> QED
    BY <2>1, <2>2 DEF Chars
<1>2. PICK a \in Seq(Chars) : a = << m.trailer[i] >> /\ Len(a) = 1 /\ a[1] = "field"
  <2>1. PICK x \in Chars : x = m.trailer[i] /\ x = "field"
    BY <1>1
  <2>2. << x >> \in Seq(Chars) /\ Len(<< x >>) = 1 /\ << x >>[1] = x
    OBVIOUS
  <2> QED
    BY <2>1, <2>2
<1>3. PICK f \in Seq(Chars) : f = CRLF /\ Len(f) = 2 /\ f[1] = "CR" /\ f[2] = "LF"
  BY PlainType
<1>4. w = a \o f
  BY <1>2, <1>3
<1>5. PICK v \in Seq(Chars) : /\ v = a \o f /\ Len(v) = Len(a) + Len(f)
                              /\ \A k \in 1 .. Len(a) : v[k] = a[k]
                              /\ \A k \in 1 .. Len(f) : v[Len(a) + k] = f[k]
  <2>1. /\ a \o f \in Seq(Chars) /\ Len(a \o f) = Len(a) + Len(f)
        /\ \A k \in 1 .. Len(a) : (a \o f)[k] = a[k]
        /\ \A k \in 1 .. Len(f) : (a \o f)[Len(a) + k] = f[k]
    BY Joined
  <2> QED
    BY <2>1
<1>6. v[1] = a[1] /\ v[1 + 1] = f[1] /\ v[1 + 2] = f[2] /\ Len(v) = 3
  BY <1>2, <1>3, <1>5
<1>7. v[1] = "field" /\ v[2] = "CR" /\ v[3] = "LF"
  BY <1>2, <1>3, <1>6
<1>8. w = v
  BY <1>4, <1>5
<1> QED
  BY <1>6, <1>7, <1>8

LEMMA ChunkIsUnderstood ==
    ASSUME NEW m, IsPlain(m), NEW i \in 1 .. Len(m.chunks), NEW g, IsFlat(g, m.chunks, m.data)
    PROVE  IsChunk(HexOf(m, i), m.ext, m.chunks[i])
<1>0. PICK h : h = HexOf(m, i)
  OBVIOUS
<1>1. PICK L \in 1 .. 255, c \in Seq(Chars) :
         L = Len(c) /\ c = m.chunks[i] /\ h = Hex(L) /\ h = HexOf(m, i)
  <2>1. PICK T : T = Seq(Chars)
    OBVIOUS
  <2>2. m.chunks \in Seq(T)
    BY <2>1, PlainType
  <2>3. m.chunks[i] \in T
    BY <2>2
  <2>4. Len(m.chunks[i]) \in 1 .. 255
    BY PlainType
  <2> QED
    BY <1>0, <2>1, <2>3, <2>4 DEF HexOf
<1>2. /\ h \in Seq(Chars) /\ Len(h) \in {1, 2}
      /\ IsHexDig(h[1]) /\ h[1] # "0" /\ h[1] # "NUL"
      /\ Len(h) = 2 => IsDigit(h[2])
      /\ \A b \in SizeRead(h, Len(h)) :
            b \in Seq(Chars) /\ b # << >> /\ Len(b) =< 3 /\ HextoDec(b) \in {0, L}
  <2>1. L < 16 \/ L % 16 < 10
    BY <1>1, PlainType
  <2>2. Len(h) = 2 /\ (L < 16 \/ L % 16 < 10) => IsDigit(h[2])
    BY <1>1, HexFacts
  <2> QED
    BY <1>1, <2>1, <2>2, HexFacts
<1>3. /\ m.ext \in Seq(Chars) /\ (m.ext # << >> => m.ext[1] = ";" /\ 2 * Len(m.ext) < MaxChunkExt)
      /\ \A k \in 1 .. Len(m.ext) : m.ext[k] # "LF"
  <2>1. IsExt(m.ext)
    BY PlainType
  <2> QED
    BY <2>1, Zenon DEF IsExt
<1>4. \A k \in 1 .. Len(c) : c[k] \notin {"NUL", "CR", "LF", "high"}
  <2>1. m.data \in Seq(Chars) /\ m.chunks \in Seq(Seq(Chars))
    BY PlainType, FlattenIs
  <2>2. \A k \in 1 .. Len(c) : \E l \in 1 .. Len(m.data) : c[k] = m.data[l]
    <3>1. \A k \in 1 .. Len(m.chunks[i]) : \E l \in 1 .. Len(m.data) : m.chunks[i][k] = m.data[l]
      <4>1. IsPart(m.data, m.chunks, g, i)
        BY <2>1, PartOfText, Zenon
      <4> QED
        BY <4>1, Zenon DEF IsPart
    <3> QED
      BY <1>1, <3>1
  <2>3. \A l \in 1 .. Len(m.data) : m.data[l] \notin {"NUL", "CR", "LF", "high"}
    BY PlainType
  <2> QED
    BY <2>2, <2>3
<1>5. c # << >>
  <2>1. L # 0
    OBVIOUS
  <2>2. L = Len(c)
    BY <1>1, Zenon
  <2>3. Len(<< >>) = 0
    OBVIOUS
  <2> QED
    BY <2>1, <2>2, <2>3, Zenon
<1>6. IsChunk(h, m.ext, c)
  BY <1>1, <1>2, <1>3, <1>4, <1>5, Zenon DEF IsChunk
<1> QED
  BY <1>1, <1>6

LEMMA LineEndIs == CRLF \in Seq(Chars) /\ Len(CRLF) = 2
<1>1. PICK x \in Chars, y \in Chars : x = "CR" /\ y = "LF"
  BY DEF Chars
<1>2. << x, y >> \in Seq(Chars) /\ Len(<< x, y >>) = 2
  OBVIOUS
<1> QED
  BY <1>1, <1>2 DEF CRLF

LEMMA ChunkTextWithin ==
    ASSUME NEW h \in Seq(Chars), NEW e \in Seq(Chars), NEW c \in Seq(Chars), NEW u \in Seq(Chars),
           Len(u) = ChunkLen(h, e, c), ChunkText(u, 0, h, e, c),
           NEW w, NEW k \in Nat, At(w, k, u)
    PROVE  ChunkText(w, k, h, e, c)
<1>1. PICK f \in Seq(Chars) : f = CRLF /\ Len(f) = 2
  <2>1. CRLF \in Seq(Chars) /\ Len(CRLF) = 2
    BY LineEndIs
  <2> QED
    BY <2>1
<1>2. PICK lh \in Nat, le \in Nat, lc \in Nat, lu \in Nat :
         lh = Len(h) /\ le = Len(e) /\ lc = Len(c) /\ lu = Len(u) /\ lu = lh + le + lc + 4
  BY DEF ChunkLen
<1>3. PICK a \in Nat, b \in Nat, d \in Nat, x \in Nat :
         a = lh /\ b = lh + le /\ d = lh + le + 2 /\ x = lh + le + 2 + lc
  OBVIOUS
<1>4. At(u, 0, h) /\ At(u, a, e) /\ At(u, b, f) /\ At(u, d, c) /\ At(u, x, f)
  <2>1. /\ 0 + Len(h) = a /\ 0 + Len(h) + Len(e) = b /\ 0 + Len(h) + Len(e) + 2 = d
        /\ 0 + Len(h) + Len(e) + 2 + Len(c) = x
    BY <1>2, <1>3
  <2>2. /\ At(u, 0, h) /\ At(u, 0 + Len(h), e) /\ At(u, 0 + Len(h) + Len(e), f)
        /\ At(u, 0 + Len(h) + Len(e) + 2, c) /\ At(u, 0 + Len(h) + Len(e) + 2 + Len(c), f)
    BY <1>1, Zenon DEF ChunkText
  <2> QED
    BY <2>1, <2>2
<1>5. PICK o \in Nat : o = 0 /\ k + o = k
  OBVIOUS
<1>6. /\ o + Len(h) =< Len(u) /\ a + Len(e) =< Len(u) /\ b + Len(f) =< Len(u)
      /\ d + Len(c) =< Len(u) /\ x + Len(f) =< Len(u)
  BY <1>1, <1>2, <1>3, <1>5
<1>7. At(w, k + o, h)
  BY <1>4, <1>5, <1>6, AtWithin
<1>8. At(w, k + a, e) /\ At(w, k + b, f) /\ At(w, k + d, c) /\ At(w, k + x, f)
  <2>1. At(w, k + a, e)
    BY <1>4, <1>6, AtWithin, Zenon
  <2>2. At(w, k + b, f)
    BY <1>4, <1>6, AtWithin, Zenon
  <2>3. At(w, k + d, c)
    BY <1>4, <1>6, AtWithin, Zenon
  <2>4. At(w, k + x, f)
    BY <1>4, <1>6, AtWithin, Zenon
  <2> QED
    BY <2>1, <2>2, <2>3, <2>4
<1>9. /\ k + a = k + Len(h) /\ k + b = k + Len(h) + Len(e) /\ k + d = k + Len(h) + Len(e) + 2
      /\ k + x = k + Len(h) + Len(e) + 2 + Len(c)
  BY <1>2, <1>3
<1> QED
  BY <1>1, <1>5, <1>7, <1>8, <1>9 DEF ChunkText

LEMMA LinesAre ==
    ASSUME NEW m, IsPlain(m)
    PROVE  /\ LinesOf(m) \in Seq(Seq(Chars)) /\ Len(LinesOf(m)) = Len(m.chunks)
           /\ \A i \in 1 .. Len(m.chunks) : LinesOf(m)[i] = LineOf(m, i)
<1>1. PICK T : T = Seq(Chars)
  OBVIOUS
<1>2. PICK n \in Nat, ss \in Seq(T) : ss = m.chunks /\ n = Len(ss)
  <2>1. m.chunks \in Seq(T)
    BY <1>1, PlainType
  <2>2. Len(m.chunks) \in Nat
    BY <2>1
  <2> QED
    BY <2>1, <2>2
<1>3. \A i \in 1 .. n : LineOf(m, i) \in T
  BY <1>1, <1>2, LineIsLaid
<1>4. DOMAIN m.chunks = 1 .. n
  BY <1>2
<1>5. LinesOf(m) = [i \in 1 .. n |-> LineOf(m, i)]
  BY <1>4 DEF LinesOf
<1>6. LinesOf(m) \in Seq(T) /\ Len(LinesOf(m)) = n /\ \A i \in 1 .. n : LinesOf(m)[i] = LineOf(m, i)
  BY <1>3, <1>5
<1> QED
  BY <1>1, <1>2, <1>6

LEMMA FieldsAre ==
    ASSUME NEW m, IsPlain(m)
    PROVE  /\ FieldsOf(m) \in Seq(Seq(Chars)) /\ Len(FieldsOf(m)) = Len(m.trailer)
           /\ \A i \in 1 .. Len(m.trailer) :
                 /\ FieldsOf(m)[i] \in Seq(Chars) /\ Len(FieldsOf(m)[i]) = 3
                 /\ FieldsOf(m)[i][1] = "field"
                 /\ FieldsOf(m)[i][2] = "CR" /\ FieldsOf(m)[i][3] = "LF"
<1>1. PICK T : T = Seq(Chars)
  OBVIOUS
<1>2. PICK n \in Nat, ss \in Seq({"field"}) : ss = m.trailer /\ n = Len(ss)
  <2>1. m.trailer \in Seq({"field"})
    BY PlainType
  <2>2. Len(m.trailer) \in Nat
    BY <2>1
  <2> QED
    BY <2>1, <2>2
<1> DEFINE F(i) == << m.trailer[i] >> \o CRLF
<1>3. \A i \in 1 .. n : /\ F(i) \in T /\ Len(F(i)) = 3 /\ F(i)[1] = "field"
                        /\ F(i)[2] = "CR" /\ F(i)[3] = "LF"
  BY <1>1, <1>2, FieldIsLaid, ZenonT(60)
<1>4. DOMAIN m.trailer = 1 .. n
  BY <1>2
<1>5. FieldsOf(m) = [i \in 1 .. n |-> F(i)]
  BY <1>4 DEF FieldsOf
<1> HIDE DEF F
<1>6. FieldsOf(m) \in Seq(T) /\ Len(FieldsOf(m)) = n /\ \A i \in 1 .. n : FieldsOf(m)[i] = F(i)
  BY <1>3, <1>5
<1>7. \A i \in 1 .. n : /\ FieldsOf(m)[i] \in T /\ Len(FieldsOf(m)[i]) = 3
                        /\ FieldsOf(m)[i][1] = "field"
                        /\ FieldsOf(m)[i][2] = "CR" /\ FieldsOf(m)[i][3] = "LF"
  BY <1>3, <1>6
<1> QED
  BY <1>1, <1>2, <1>6, <1>7

(* The text of the trailer, in lines of three characters. *)
LEMMA TrailerIsLaid ==
    ASSUME NEW m, IsPlain(m), NEW G, G = FlattenSeq(FieldsOf(m))
    PROVE  /\ G \in Seq(Chars) /\ Len(G) = 3 * Len(m.trailer)
           /\ \A k \in 0 .. Len(m.trailer) - 1 :
                 G[3 * k + 1] = "field" /\ G[3 * k + 2] = "CR" /\ G[3 * k + 3] = "LF"
<1>1. PICK n \in Nat : n = Len(m.trailer)
  <2>1. m.trailer \in Seq({"field"})
    BY PlainType
  <2>2. Len(m.trailer) \in Nat
    BY <2>1
  <2> QED
    BY <2>2
<1>2. G \in Seq(Chars) /\ \E o : IsFlat(o, FieldsOf(m), G)
  BY FieldsAre, FlattenIs
<1>3. PICK o : IsFlat(o, FieldsOf(m), G)
  BY <1>2
<1>4. Len(FieldsOf(m)) = n /\ \A i \in 1 .. n : Len(FieldsOf(m)[i]) = 3
  BY <1>1, FieldsAre
<1>5. \A i \in 0 .. n : o[i] = 3 * i
  <2>0. PICK ss : ss = FieldsOf(m)
    OBVIOUS
  <2>1. PICK l \in Nat : l = 3
    OBVIOUS
  <2>3. IsFlat(o, ss, G) /\ IsEven(ss, n, l)
    BY <1>3, <1>4, <2>0, <2>1 DEF IsEven
  <2>2. \A i \in 0 .. n : o[i] = l * i
    BY <2>3, EvenParts DEF EndEvenly
  <2> QED
    BY <2>1, <2>2
<1>6. Len(G) = 3 * n
  <2>1. Len(G) = o[n]
    BY <1>3, <1>4 DEF IsFlat
  <2> QED
    BY <1>5, <2>1
<1>7. ASSUME NEW k \in 0 .. n - 1
      PROVE  G[3 * k + 1] = "field" /\ G[3 * k + 2] = "CR" /\ G[3 * k + 3] = "LF"
  <2>1. PICK i \in 1 .. n : i = k + 1 /\ k = i - 1 /\ k \in 0 .. n
    OBVIOUS
  <2>2. PICK u : u = FieldsOf(m)[i] /\ Len(u) = 3 /\ u[1] = "field" /\ u[2] = "CR" /\ u[3] = "LF"
    BY <1>1, FieldsAre
  <2>3. At(G, o[i - 1], u)
    BY <1>3, <1>4, <2>2, PartsAreAt
  <2>4. At(G, 3 * k, u)
    BY <1>5, <2>1, <2>3
  <2>5. 1 \in 1 .. Len(u) /\ 2 \in 1 .. Len(u) /\ 3 \in 1 .. Len(u)
    BY <2>2
  <2> QED
    BY <2>2, <2>4, <2>5 DEF At
<1> QED
  BY <1>1, <1>2, <1>6, <1>7

LEMMA LayoutExists ==
    ASSUME NEW m, IsPlain(m)
    PROVE  m.wire \in Seq(Chars) /\ \E o, g : Laid(m, o, g)
<1>1. PICK n \in Nat, t \in Nat : n = Len(m.chunks) /\ t = Len(m.trailer)
  <2>1. m.chunks \in Seq(Seq(Chars)) /\ m.trailer \in Seq({"field"})
    BY PlainType
  <2>2. Len(m.chunks) \in Nat /\ Len(m.trailer) \in Nat
    BY <2>1
  <2> QED
    BY <2>2
<1>2. PICK F \in Seq(Chars) : F = FlattenSeq(LinesOf(m)) /\ \E o : IsFlat(o, LinesOf(m), F)
  <2>1. LinesOf(m) \in Seq(Seq(Chars))
    BY LinesAre
  <2>2. FlattenSeq(LinesOf(m)) \in Seq(Chars) /\ \E o : IsFlat(o, LinesOf(m), FlattenSeq(LinesOf(m)))
    BY <2>1, FlattenIs
  <2> QED
    BY <2>2
<1>0. PICK o : IsFlat(o, LinesOf(m), F)
  BY <1>2
<1>3. PICK d \in Seq(Chars) : d = m.data /\ \E g : IsFlat(g, m.chunks, d)
  <2>1. m.chunks \in Seq(Seq(Chars)) /\ m.data = FlattenSeq(m.chunks)
    BY PlainType
  <2>2. FlattenSeq(m.chunks) \in Seq(Chars) /\ \E g : IsFlat(g, m.chunks, FlattenSeq(m.chunks))
    BY <2>1, FlattenIs
  <2> QED
    BY <2>1, <2>2
<1>00. PICK g : IsFlat(g, m.chunks, d)
  BY <1>3
<1>4. PICK G \in Seq(Chars) :
         /\ G = FlattenSeq(FieldsOf(m)) /\ Len(G) = 3 * t
         /\ \A k \in 0 .. t - 1 :
               G[3 * k + 1] = "field" /\ G[3 * k + 2] = "CR" /\ G[3 * k + 3] = "LF"
  BY <1>1, TrailerIsLaid
<1>5. PICK z \in Seq(Chars) : z = << "0" >> /\ Len(z) = 1 /\ z[1] = "0"
  <2>1. PICK x \in Chars : x = "0"
    BY DEF Chars
  <2>2. << x >> \in Seq(Chars) /\ Len(<< x >>) = 1 /\ << x >>[1] = x
    OBVIOUS
  <2> QED
    BY <2>1, <2>2
<1>6. PICK a \in Seq(Chars) : a = F \o z /\ Len(a) = Len(F) + Len(z) /\ At(a, 0, F) /\ At(a, Len(F), z)
  BY TwoParts
<1>7. PICK e \in Seq(Chars), f \in Seq(Chars) : e = m.ext /\ f = CRLF /\ Len(f) = 2
  BY PlainType, LineEndIs
<1>8. PICK w \in Seq(Chars) : w = m.wire /\ PartsOf(w, a, e, f, G, f)
  <2>1. m.wire = FiveOf(a, e, f, G, f)
    <3>1. BeginningOf(m) = a
      BY <1>0, <1>2, <1>5, <1>6 DEF BeginningOf
    <3>2. m.wire = BeginningOf(m) \o m.ext \o CRLF \o FlattenSeq(FieldsOf(m)) \o CRLF
      BY PlainType
    <3> QED
      BY <1>4, <1>7, <3>1, <3>2 DEF FiveOf
  <2> QED
    BY <2>1, FiveParts, Zenon
<1>9. PICK s \in Nat, le \in Nat : s = Len(F) /\ le = Len(e)
  OBVIOUS
<1>10. Len(a) = s + 1 /\ Len(G) = 3 * t /\ Len(f) = 2
  BY <1>4, <1>5, <1>6, <1>7, <1>9
<1>11. /\ Len(w) = Len(a) + Len(e) + Len(f) + Len(G) + Len(f)
       /\ At(w, 0, a) /\ At(w, Len(a), e) /\ At(w, Len(a) + Len(e), f)
       /\ At(w, Len(a) + Len(e) + Len(f), G)
       /\ At(w, Len(a) + Len(e) + Len(f) + Len(G), f)
  BY <1>8, Zenon DEF PartsOf
<1>12. /\ Len(w) = s + (le + 5 + 3 * t)
       /\ At(w, s + 1, e) /\ At(w, s + 1 + le, f)
       /\ At(w, s + le + 3, G) /\ At(w, s + le + 3 + 3 * t, f)
  <2>1. /\ Len(a) = s + 1 /\ Len(a) + Len(e) = s + 1 + le
        /\ Len(a) + Len(e) + Len(f) = s + le + 3
        /\ Len(a) + Len(e) + Len(f) + Len(G) = s + le + 3 + 3 * t
        /\ Len(a) + Len(e) + Len(f) + Len(G) + Len(f) = s + (le + 5 + 3 * t)
    BY <1>9, <1>10
  <2> QED
    BY <1>9, <1>11, <2>1
<1>13. o[n] = s /\ o \in [0 .. n -> Nat] /\ o[0] = 0 /\ \A i \in 0 .. n : o[i] =< s
  <2>1. Len(LinesOf(m)) = n
    BY <1>1, LinesAre
  <2> QED
    BY <1>0, <1>2, <1>9, <2>1 DEF IsFlat
<1>14. At(w, 0, F)
  <2>1. PICK x \in Nat : x = 0 /\ x + x = x /\ x + Len(F) =< Len(a)
    BY <1>9, <1>10
  <2>2. At(w, x, a) /\ At(a, x, F)
    BY <1>6, <1>11, <2>1
  <2>3. At(w, x + x, F)
    BY <2>1, <2>2, AtWithin, Zenon
  <2> QED
    BY <2>1, <2>3
<1>15. w[s + 1] = "0"
  <2>1. 1 \in 1 .. Len(z) /\ s + 1 \in 1 .. Len(a) /\ 0 + (s + 1) = s + 1
    BY <1>5, <1>9, <1>10
  <2>2. a[s + 1] = "0"
    BY <1>5, <1>6, <1>9, <2>1 DEF At
  <2> QED
    BY <1>11, <2>1, <2>2 DEF At
<1>16. TailText(w, s, e, t)
  <2>1. ASSUME NEW k \in 0 .. t - 1
        PROVE  /\ w[s + le + 3 + 3 * k + 1] = "field" /\ w[s + le + 3 + 3 * k + 2] = "CR"
               /\ w[s + le + 3 + 3 * k + 3] = "LF"
    <3>1. PICK i \in Nat, j \in Nat, l \in Nat :
             i = 3 * k + 1 /\ j = 3 * k + 2 /\ l = 3 * k + 3 /\ l =< 3 * t
      OBVIOUS
    <3>2. i \in 1 .. Len(G) /\ j \in 1 .. Len(G) /\ l \in 1 .. Len(G)
      BY <1>10, <3>1
    <3>3. /\ w[(s + le + 3) + i] = G[i] /\ w[(s + le + 3) + j] = G[j]
          /\ w[(s + le + 3) + l] = G[l]
      BY <1>12, <3>2, Zenon DEF At
    <3>4. G[i] = "field" /\ G[j] = "CR" /\ G[l] = "LF"
      BY <1>4, <3>1
    <3>5. /\ (s + le + 3) + i = s + le + 3 + 3 * k + 1 /\ (s + le + 3) + j = s + le + 3 + 3 * k + 2
          /\ (s + le + 3) + l = s + le + 3 + 3 * k + 3
      BY <3>1
    <3> QED
      BY <3>3, <3>4, <3>5
  <2> QED
    BY <1>7, <1>9, <1>12, <1>15, <2>1 DEF TailText
<1>17. ASSUME NEW i \in 1 .. n
       PROVE  /\ IsChunk(HexOf(m, i), e, m.chunks[i])
              /\ ChunkText(w, o[i - 1], HexOf(m, i), e, m.chunks[i])
              /\ o[i] = o[i - 1] + ChunkLen(HexOf(m, i), e, m.chunks[i])
              /\ IsPart(d, m.chunks, g, i)
  <2>1. IsChunk(HexOf(m, i), e, m.chunks[i])
    BY <1>1, <1>00, <1>3, <1>7, ChunkIsUnderstood
  <2>2. PICK u \in Seq(Chars), h \in Seq(Chars), c \in Seq(Chars) :
           u = LineOf(m, i) /\ h = HexOf(m, i) /\ c = m.chunks[i]
    <3>1. LineOf(m, i) \in Seq(Chars) /\ HexOf(m, i) \in Seq(Chars) /\ m.chunks[i] \in Seq(Chars)
      BY <1>1, <2>1, LineIsLaid DEF IsChunk
    <3> QED
      BY <3>1
  <2>3. Len(u) = ChunkLen(h, e, c) /\ ChunkText(u, 0, h, e, c)
    BY <1>1, <1>7, <2>2, LineIsLaid
  <2>4. LinesOf(m)[i] = u /\ Len(LinesOf(m)) = n
    BY <1>1, <2>2, LinesAre
  <2>5. o[i] = o[i - 1] + Len(u) /\ At(F, o[i - 1], u)
    BY <1>0, <1>2, <2>4, PartsAreAt DEF IsFlat
  <2>6. PICK k \in Nat, x \in Nat : k = o[i - 1] /\ x = 0 /\ x + k = k /\ k + Len(u) =< Len(F)
    <3>1. i - 1 \in 0 .. n /\ i \in 0 .. n
      OBVIOUS
    <3>2. o[i - 1] \in Nat /\ o[i] =< s
      BY <1>13, <3>1
    <3>3. o[i - 1] + Len(u) =< s
      BY <2>5, <3>2
    <3> QED
      BY <1>9, <3>2, <3>3
  <2>7. At(w, x + k, u)
    <3>1. At(w, x, F) /\ At(F, k, u)
      BY <1>14, <2>5, <2>6
    <3> QED
      BY <2>6, <3>1, AtWithin, Zenon
  <2>8. At(w, k, u)
    BY <2>6, <2>7
  <2>9. ChunkText(w, k, h, e, c)
    BY <2>3, <2>8, ChunkTextWithin, Zenon
  <2>10. IsPart(d, m.chunks, g, i)
    <3>1. m.chunks \in Seq(Seq(Chars)) /\ i \in 1 .. Len(m.chunks)
      BY <1>1, PlainType
    <3> QED
      BY <1>00, <1>3, <3>1, PartOfText, Zenon
  <2> QED
    BY <2>1, <2>2, <2>3, <2>5, <2>6, <2>9, <2>10
<1>18. g \in [0 .. n -> Nat] /\ g[0] = 0 /\ g[n] = Len(d) /\ \A i \in 0 .. n : g[i] =< Len(d)
  BY <1>1, <1>00, <1>3 DEF IsFlat
<1>19. ASSUME NEW i \in 0 .. n
       PROVE  BodyOf(m, g, i) \in Seq(Chars) /\ IsPrefix(BodyOf(m, g, i), d)
  <2>1. PICK x \in Nat : x = g[i] /\ x =< Len(d)
    BY <1>18
  <2>2. SubSeq(d, 1, x) \in Seq(Chars) /\ IsPrefix(SubSeq(d, 1, x), d)
    BY <2>1, CutAt
  <2> QED
    BY <1>00, <1>3, <2>1, <2>2 DEF BodyOf
<1>20. BodyOf(m, g, n) = d
  <2>1. SubSeq(d, 1, Len(d)) = d
    OBVIOUS
  <2> QED
    BY <1>00, <1>3, <1>18, <2>1 DEF BodyOf
<1>21. \A i \in 1 .. n :
          /\ BodyOf(m, g, i) = BodyOf(m, g, i - 1) \o m.chunks[i]
          /\ \A j \in 0 .. Len(m.chunks[i]) :
                IsPrefix(BodyOf(m, g, i - 1) \o SubSeq(m.chunks[i], 1, j), m.data)
          /\ Len(BodyOf(m, g, i - 1)) + Len(m.chunks[i]) =< Len(m.data)
  BY <1>00, <1>3, <1>17, Zenon DEF IsPart, BodyOf
<1>22. Len(w) = o[n] + TailLen(e, t)
  <2>1. TailLen(e, t) = le + 5 + 3 * t
    BY <1>9 DEF TailLen
  <2> QED
    BY <1>12, <1>13, <2>1
<1>23. /\ m.wire = w /\ m.ext = e /\ m.data = d /\ Len(m.chunks) = n /\ Len(m.trailer) = t
       /\ IsExt(m.ext) /\ n \in Nat /\ t \in Nat
  BY <1>1, <1>00, <1>3, <1>7, <1>8, PlainType
<1>24. TailText(m.wire, o[Len(m.chunks)], m.ext, Len(m.trailer))
  BY <1>13, <1>16, <1>23
<1>25. Laid(m, o, g)
  <2>1. /\ o \in [0 .. Len(m.chunks) -> Nat] /\ o[0] = 0 /\ g[0] = 0
        /\ Len(m.chunks) \in Nat /\ Len(m.trailer) \in Nat /\ IsExt(m.ext)
    BY <1>13, <1>18, <1>23
  <2>2. \A i \in 1 .. Len(m.chunks) :
          /\ IsChunk(HexOf(m, i), m.ext, m.chunks[i])
          /\ ChunkText(m.wire, o[i - 1], HexOf(m, i), m.ext, m.chunks[i])
          /\ o[i] = o[i - 1] + ChunkLen(HexOf(m, i), m.ext, m.chunks[i])
    BY <1>17, <1>23
  <2>3. /\ Len(m.wire) = o[Len(m.chunks)] + TailLen(m.ext, Len(m.trailer))
        /\ BodyOf(m, g, Len(m.chunks)) = m.data
    BY <1>20, <1>22, <1>23
  <2>4. \A i \in 0 .. Len(m.chunks) :
          /\ o[i] =< o[Len(m.chunks)] /\ BodyOf(m, g, i) \in Seq(Chars)
          /\ IsPrefix(BodyOf(m, g, i), m.data)
    BY <1>13, <1>19, <1>23
  <2> QED
    BY <1>21, <1>23, <1>24, <2>1, <2>2, <2>3, <2>4, Zenon DEF Laid
<1> QED
  BY <1>8, <1>25

-----------------------------------------------------------------------------
(* The request that is parsed. *)

IsRequest(r) == r = [f \in DOMAIN NewRequest |-> r[f]]

(* A request that can take in more, or has taken in all of its message. *)
InProgress(r, s, p) ==
    /\ IsRequest(r) /\ r.cur_state = s /\ r.parser = p /\ r.buf = << >>
    /\ r.status \in {"Incomplete", "Expect"}

Finished(r, p) == IsRequest(r) /\ r.cur_state = "Done" /\ r.parser = p /\ r.status = "Complete"

Refused(r, s, p, b) ==
    IsRequest(r) /\ r.cur_state = s /\ r.parser = p /\ r.buf = b /\ r.status = "Bad"

LEMMA SameError ==
    ASSUME NEW p, IsParser(p), p.error = NoError
    PROVE  [p EXCEPT !.error = NoError] = p
  BY DEF IsParser, NewParser

LEMMA SameRequest ==
    ASSUME NEW r, IsRequest(r), NEW p, r.parser = p, IsParser(p), p.error = NoError
    PROVE  [r EXCEPT !.parser.error = NoError] = r
<1>1. [p EXCEPT !.error = NoError] = p
  BY SameError
<1>2. [r EXCEPT !.parser = p] = r
  BY DEF IsRequest, NewRequest
<1>3. [r EXCEPT !.parser.error = NoError] = [r EXCEPT !.parser = [p EXCEPT !.error = NoError]]
  OBVIOUS
<1> QED
  BY <1>1, <1>2, <1>3

(* Parse, for a parser that has not failed. *)
LEMMA ParsesOn ==
    ASSUME NEW r, IsRequest(r), NEW p, r.parser = p, IsParser(p), p.error = NoError,
           p.cur_state # "Invalid", NEW m, NEW input
    PROVE  ParseAll(r, m, input, << >>) = AfterParse(ParseRequest(r, m, input), input, << >>)
<1>1. CanParse(r.parser)
  BY DEF CanParse
<1>2. [r EXCEPT !.parser.error = NoError] = r
  BY SameRequest
<1> QED
  BY <1>1, <1>2 DEF ParseAll

LEMMA AfterFailure ==
    ASSUME NEW r, IsRequest(r), NEW s, NEW p, r.cur_state = s, r.parser = p, p.error # NoError,
           NEW input, NEW b
    PROVE  Refused(AfterParse(r, input, b), s, p, input)
<1>1. AfterParse(r, input, b) = [r EXCEPT !.buf = input, !.status = "Bad", !.code = r.parser.error]
  BY DEF AfterParse, Failed
<1> QED
  BY <1>1 DEF Refused, IsRequest, NewRequest

LEMMA AfterSuccess ==
    ASSUME NEW r, IsRequest(r), NEW s, NEW p, r.cur_state = s, r.parser = p, p.error = NoError,
           NEW input
    PROVE  /\ s = "Done" => Finished(AfterParse(r, input, << >>), p)
           /\ s # "Done" /\ r.status \in {"Incomplete", "Expect"} =>
                 InProgress(AfterParse(r, input, << >>), s, p)
<1>1. PICK u : u = [r EXCEPT !.buf = << >>]
  OBVIOUS
<1>2. AfterParse(r, input, << >>) = CheckStatus(u)
  BY <1>1 DEF AfterParse, Failed
<1>3. /\ IsRequest(u) /\ u.cur_state = s /\ u.parser = p /\ u.buf = << >> /\ u.status = r.status
      /\ u.begun = r.begun
  BY <1>1 DEF IsRequest, NewRequest
<1>4. ASSUME s = "Done" PROVE Finished(CheckStatus(u), p)
  <2>1. CheckStatus(u) = [u EXCEPT !.status = "Complete"]
    BY <1>3, <1>4 DEF CheckStatus
  <2> QED
    BY <1>3, <1>4, <2>1 DEF Finished, IsRequest, NewRequest
<1>5. ASSUME s # "Done", u.status = "Expect" PROVE InProgress(CheckStatus(u), s, p)
  <2>1. CheckStatus(u) = IF u.begun THEN [u EXCEPT !.status = "Incomplete"]
                                    ELSE [u EXCEPT !.code = 100]
    BY <1>3, <1>5 DEF CheckStatus
  <2>2. InProgress([u EXCEPT !.status = "Incomplete"], s, p)
    BY <1>3, <1>5 DEF InProgress, IsRequest, NewRequest
  <2>3. InProgress([u EXCEPT !.code = 100], s, p)
    BY <1>3, <1>5 DEF InProgress, IsRequest, NewRequest
  <2> QED
    BY <2>1, <2>2, <2>3
<1>6. ASSUME s # "Done", u.status = "Incomplete" PROVE InProgress(CheckStatus(u), s, p)
  <2>1. CheckStatus(u) = u
    BY <1>3, <1>6 DEF CheckStatus
  <2> QED
    BY <1>3, <1>6, <2>1 DEF InProgress
<1> QED
  BY <1>2, <1>3, <1>4, <1>5, <1>6

(* What the headers of the message decide. *)
LEMMA AfterHeaders ==
    ASSUME NEW r, IsRequest(r), NEW p, r.parser = p, IsParser(p), p.error = NoError,
           r.cur_state = "HeaderDone", r.buf = << >>, r.status = "Incomplete",
           NEW m, m.framing = "length" => Len(m.data) \in Nat, NEW q, q = HeaderDoneHandler(r, m)
    PROVE  /\ m.framing = "chunked" => InProgress(q, "Chunked", p)
           /\ m.framing = "length" /\ Len(m.data) =< ConfigMaxBody /\ m.data # << >> =>
                 InProgress(q, "MsgBody", p)
           /\ m.framing = "length" /\ Len(m.data) =< ConfigMaxBody /\ m.data = << >> =>
                 InProgress(q, "Done", p)
<1>1. PICK u : u = IF m.expect THEN [r EXCEPT !.status = "Expect"] ELSE r
  OBVIOUS
<1>2. InProgress(u, "HeaderDone", p)
  BY <1>1 DEF InProgress, IsRequest, NewRequest
<1>3. \A s : InProgress([u EXCEPT !.cur_state = s], s, p)
  BY <1>2 DEF InProgress, IsRequest, NewRequest
<1>4. ASSUME m.framing = "chunked" PROVE InProgress(q, "Chunked", p)
  <2>1. q = [u EXCEPT !.cur_state = "Chunked"]
    BY <1>1, <1>4 DEF HeaderDoneHandler
  <2> QED
    BY <1>3, <2>1
<1>5. ASSUME m.framing = "length", Len(m.data) =< ConfigMaxBody, m.data # << >>
      PROVE  InProgress(q, "MsgBody", p)
  <2>1. q = [u EXCEPT !.cur_state = "MsgBody"]
    BY <1>1, <1>5, BodyLimitAssumption DEF HeaderDoneHandler
  <2> QED
    BY <1>3, <2>1
<1>6. ASSUME m.framing = "length", Len(m.data) =< ConfigMaxBody, m.data = << >>
      PROVE  InProgress(q, "Done", p)
  <2>1. q = [u EXCEPT !.cur_state = "Done"]
    BY <1>1, <1>6, BodyLimitAssumption DEF HeaderDoneHandler
  <2> QED
    BY <1>3, <2>1
<1> QED
  BY <1>4, <1>5, <1>6

(* A message that is announced to be too long. *)
LEMMA AfterLongHeaders ==
    ASSUME NEW r, IsRequest(r), NEW p, r.parser = p, r.cur_state = "HeaderDone",
           NEW m, m.framing = "length", Len(m.data) \in Nat, Len(m.data) > ConfigMaxBody,
           NEW q, q = HeaderDoneHandler(r, m)
    PROVE  IsRequest(q) /\ q.cur_state = "HeaderDone" /\ q.parser = [p EXCEPT !.error = 413]
<1>1. PICK u : u = IF m.expect THEN [r EXCEPT !.status = "Expect"] ELSE r
  OBVIOUS
<1>2. IsRequest(u) /\ u.cur_state = "HeaderDone" /\ u.parser = p
  BY <1>1 DEF IsRequest, NewRequest
<1>3. q = Fail(u, 413)
  <2>1. Len(m.data) # 0 /\ m.data # << >>
    BY BodyLimitAssumption
  <2> QED
    BY <1>1, <2>1 DEF HeaderDoneHandler
<1>4. q = [u EXCEPT !.parser = [p EXCEPT !.error = 413]]
  BY <1>2, <1>3 DEF Fail, Throw
<1> QED
  BY <1>2, <1>4 DEF IsRequest, NewRequest

(* A message of known length: its parser is not used, and only holds the body. *)
HoldsBody(p, B) == IsParser(p) /\ p.error = NoError /\ p.cur_state = "Start" /\ p.body = B

LengthInv(m, n, r) ==
    \/ n = 0 /\ r = NewRequest
    \/ /\ n < Len(m.data) /\ Len(m.data) =< ConfigMaxBody
       /\ \E p : InProgress(r, "MsgBody", p) /\ HoldsBody(p, SubSeq(m.data, 1, n))
    \/ /\ n = Len(m.data) /\ Len(m.data) =< ConfigMaxBody
       /\ \E p : Finished(r, p) /\ HoldsBody(p, m.data)
    \/ /\ Len(m.data) > ConfigMaxBody
       /\ \E p, b : /\ Refused(r, "HeaderDone", p, b) /\ IsParser(p)
                    /\ p.cur_state = "Start" /\ p.body = << >>

ChunkedInv(m, o, g, n, r) ==
    \/ n = 0 /\ r = NewRequest
    \/ \E p : InProgress(r, "Chunked", p) /\ Place(m, o, g, p, n, TRUE) /\ p.cur_state # "Done"
    \/ /\ n = Len(m.wire)
       /\ \E p : Finished(r, p) /\ p.cur_state = "Done" /\ p.body = m.data
    \/ \E p : \E b \in Seq(Chars) : Refused(r, "Chunked", p, b) /\ Halted(m, g, p)

LEMMA NewIsNew ==
    /\ IsRequest(NewRequest) /\ NewRequest.parser = NewParser /\ NewRequest.cur_state = "HeaderDone"
    /\ NewRequest.buf = << >> /\ NewRequest.status = "Incomplete"
    /\ HoldsBody(NewParser, << >>) /\ IsParser(NewParser) /\ NewParser.error = NoError
    /\ NewParser.cur_state = "Start" /\ NewParser.body = << >>
  BY DEF IsRequest, NewRequest, NewParser, HoldsBody, IsParser

LEMMA Pasted ==
    ASSUME NEW S, NEW w \in Seq(S), NEW k \in Nat, NEW l \in Nat, k + l =< Len(w)
    PROVE  SubSeq(w, 1, k) \o SubSeq(w, k + 1, k + l) = SubSeq(w, 1, k + l)
<1>1. PICK x \in Nat : x = k + l /\ k =< Len(w) /\ x =< Len(w)
  OBVIOUS
<1>2. PICK u \in Seq(S) : u = SubSeq(w, 1, k) /\ Len(u) = k /\ \A j \in 1 .. k : u[j] = w[j]
  <2>1. /\ SubSeq(w, 1, k) \in Seq(S) /\ Len(SubSeq(w, 1, k)) = k
        /\ \A j \in 1 .. k : SubSeq(w, 1, k)[j] = w[j]
    BY <1>1, CutAt
  <2> QED
    BY <2>1
<1>3. PICK v \in Seq(S) : /\ v = SubSeq(w, k + 1, k + l) /\ Len(v) = l
                          /\ \A j \in 1 .. l : v[j] = w[k + j]
  <2>1. /\ SubSeq(w, k + 1, k + l) \in Seq(S) /\ Len(SubSeq(w, k + 1, k + l)) = l
        /\ \A j \in 1 .. l : SubSeq(w, k + 1, k + l)[j] = w[k + j]
    BY PieceIs
  <2> QED
    BY <2>1
<1>4. PICK y \in Seq(S) : y = SubSeq(w, 1, x) /\ Len(y) = x /\ \A j \in 1 .. x : y[j] = w[j]
  <2>1. /\ SubSeq(w, 1, x) \in Seq(S) /\ Len(SubSeq(w, 1, x)) = x
        /\ \A j \in 1 .. x : SubSeq(w, 1, x)[j] = w[j]
    BY <1>1, CutAt
  <2> QED
    BY <2>1
<1>5. PICK z \in Seq(S) : /\ z = u \o v /\ Len(z) = Len(u) + Len(v)
                          /\ \A j \in 1 .. Len(u) : z[j] = u[j]
                          /\ \A j \in 1 .. Len(v) : z[Len(u) + j] = v[j]
  <2>1. /\ u \o v \in Seq(S) /\ Len(u \o v) = Len(u) + Len(v)
        /\ \A j \in 1 .. Len(u) : (u \o v)[j] = u[j]
        /\ \A j \in 1 .. Len(v) : (u \o v)[Len(u) + j] = v[j]
    BY Joined
  <2> QED
    BY <2>1
<1>6. ASSUME NEW j \in 1 .. x PROVE z[j] = y[j]
  <2>1. CASE j =< k
    BY <1>2, <1>4, <1>5, <2>1
  <2>2. CASE j > k
    <3>1. PICK i \in 1 .. l : i = j - k /\ j = k + i
      BY <1>1, <2>2
    <3>2. z[k + i] = v[i]
      BY <1>2, <1>3, <1>5, <3>1
    <3> QED
      BY <1>3, <1>4, <3>1, <3>2
  <2> QED
    BY <2>1, <2>2
<1>7. z = y
  <2>1. Len(z) = Len(y)
    BY <1>1, <1>2, <1>3, <1>4, <1>5
  <2> QED
    BY <1>4, <1>6, <2>1, SameElements
<1> QED
  BY <1>1, <1>2, <1>3, <1>4, <1>5, <1>7

(* The first n octets were taken in. *)
HasTaken(r, m, n) ==
    /\ IsRequest(r) /\ HoldsBody(r.parser, SubSeq(m.data, 1, n))
    /\ r.status \in {"Incomplete", "Expect"}
    /\ r.cur_state = IF n = Len(m.data) THEN "Done" ELSE "MsgBody"

LEMMA BodyIsTaken ==
    ASSUME NEW m, NEW S, m.data \in Seq(S), NEW k \in Nat, NEW l \in Nat, k + l =< Len(m.data),
           NEW r, NEW p, InProgress(r, "MsgBody", p), HoldsBody(p, SubSeq(m.data, 1, k)),
           NEW input, input = SubSeq(m.data, k + 1, k + l)
    PROVE  HasTaken(MessageBodyHandler(r, m, input), m, k + l)
<1>0. PICK q : q = MessageBodyHandler(r, m, input)
  OBVIOUS
<1>1. PICK w \in Seq(S) : w = m.data
  OBVIOUS
<1>2. PICK u \in Seq(S) : u = input /\ Len(u) = l
  <2>1. SubSeq(w, k + 1, k + l) \in Seq(S) /\ Len(SubSeq(w, k + 1, k + l)) = l
    BY <1>1, PieceIs
  <2> QED
    BY <1>1, <2>1
<1>3. PICK lw \in Nat : lw = Len(w) /\ k + l =< lw
  BY <1>1
<1>4. Min({l, lw}) = l
  <2>1. l =< lw
    BY <1>3
  <2> QED
    BY <2>1 DEF Min
<1>5. SubSeq(u, 1, l) = u
  BY <1>2
<1>6. PICK B : B = SubSeq(w, 1, k) \o SubSeq(w, k + 1, k + l) /\ B = SubSeq(w, 1, k + l)
  BY <1>1, Pasted
<1>7. Len(B) = k + l
  <2>1. PICK x \in Nat : x = k + l /\ x =< Len(w)
    BY <1>1
  <2>2. Len(SubSeq(w, 1, x)) = x
    BY <2>1, CutAt
  <2> QED
    BY <1>6, <2>1, <2>2
<1>8. r.parser.body \o SubSeq(input, 1, Min({Len(input), Len(m.data)})) = B
  <2>1. r.parser.body = SubSeq(w, 1, k)
    BY <1>1 DEF InProgress, HoldsBody
  <2>2. SubSeq(input, 1, Min({Len(input), Len(m.data)})) = SubSeq(w, k + 1, k + l)
    BY <1>1, <1>2, <1>3, <1>4, <1>5
  <2> QED
    BY <1>6, <2>1, <2>2
<1>9. q = [r EXCEPT !.parser.body = B, !.begun = B # << >>,
                    !.cur_state = IF Len(B) = Len(m.data) THEN "Done" ELSE @]
  BY <1>0, <1>8 DEF MessageBodyHandler
<1>10. IsRequest(q) /\ q.status = r.status /\ q.parser = [p EXCEPT !.body = B]
       /\ q.cur_state = IF Len(B) = Len(m.data) THEN "Done" ELSE "MsgBody"
  BY <1>9 DEF InProgress, IsRequest, NewRequest
<1>11. HoldsBody(q.parser, B)
  BY <1>10 DEF HoldsBody, IsParser, NewParser
<1> QED
  BY <1>0, <1>1, <1>6, <1>7, <1>10, <1>11 DEF InProgress, HasTaken

LEMMA LengthStep ==
    ASSUME NEW m, m.framing = "length", NEW S, m.data \in Seq(S), m.wire = m.data,
           NEW k \in Nat, NEW l \in Nat, k + l =< Len(m.wire), NEW r, l > 0 \/ r = NewRequest,
           LengthInv(m, k, r), NEW q, q = RequestParse(r, m, SubSeq(m.wire, k + 1, k + l))
    PROVE  LengthInv(m, k + l, q)
<1>1. PICK w \in Seq(S) : w = m.data /\ w = m.wire
  OBVIOUS
<1>2. PICK lw \in Nat, c \in Nat : lw = Len(w) /\ lw = Len(m.data) /\ k + l =< lw /\ c = ConfigMaxBody
  BY <1>1, BodyLimitAssumption
<1>3. PICK u \in Seq(S) : u = SubSeq(w, k + 1, k + l)
  BY <1>1, <1>2, PieceIs
<1>4. q = ParseAll(r, m, r.buf \o u, << >>)
  BY <1>1, <1>3 DEF RequestParse
<1>5. << >> \o u = u
  OBVIOUS
<1>6. ASSUME NEW s, NEW p, InProgress(s, "MsgBody", p), HoldsBody(p, SubSeq(w, 1, k)), lw =< c,
             NEW t, t = AfterParse(MessageBodyHandler(s, m, u), u, << >>)
      PROVE  LengthInv(m, k + l, t)
  <2>1. PICK v : v = MessageBodyHandler(s, m, u)
    OBVIOUS
  <2>2. /\ IsRequest(v) /\ HoldsBody(v.parser, SubSeq(m.data, 1, k + l))
        /\ v.status \in {"Incomplete", "Expect"}
        /\ v.cur_state = IF k + l = Len(m.data) THEN "Done" ELSE "MsgBody"
    <3>1. /\ m.data \in Seq(S) /\ k + l =< Len(m.data) /\ HoldsBody(p, SubSeq(m.data, 1, k))
          /\ u = SubSeq(m.data, k + 1, k + l)
      BY <1>1, <1>2, <1>3, <1>6
    <3>2. HasTaken(v, m, k + l)
      BY <1>6, <2>1, <3>1, BodyIsTaken
    <3> QED
      BY <3>2 DEF HasTaken
  <2>3. PICK p2 : p2 = v.parser /\ p2.error = NoError
    BY <2>2 DEF HoldsBody
  <2>4. t = AfterParse(v, u, << >>)
    BY <1>6, <2>1
  <2>5. CASE k + l = lw
    <3>1. v.cur_state = "Done"
      BY <1>2, <2>2, <2>5
    <3>2. Finished(t, p2)
      BY <2>2, <2>3, <2>4, <3>1, AfterSuccess
    <3>3. SubSeq(w, 1, lw) = w
      <4>1. SubSeq(w, 1, Len(w)) = w
        OBVIOUS
      <4> QED
        BY <1>2, <4>1
    <3>4. HoldsBody(p2, m.data)
      BY <1>1, <2>2, <2>3, <2>5, <3>3
    <3> QED
      BY <1>2, <1>6, <2>5, <3>2, <3>4 DEF LengthInv
  <2>6. CASE k + l < lw
    <3>1. v.cur_state = "MsgBody"
      BY <1>2, <2>2, <2>6
    <3>2. InProgress(t, "MsgBody", p2)
      BY <2>2, <2>3, <2>4, <3>1, AfterSuccess
    <3> QED
      BY <1>2, <1>6, <2>2, <2>3, <2>6, <3>2 DEF LengthInv
  <2> QED
    BY <1>2, <2>5, <2>6
<1>7. ASSUME NEW s, IsRequest(s), NEW p, s.parser = p, s.cur_state = "HeaderDone", IsParser(p),
             p.cur_state = "Start", p.body = << >>, lw > c, NEW input, NEW t,
             t = AfterParse(ParseRequest(s, m, input), input, << >>)
      PROVE  LengthInv(m, k + l, t)
  <2>1. PICK v : v = HeaderDoneHandler(s, m)
    OBVIOUS
  <2>2. PICK p2 : p2 = [p EXCEPT !.error = 413]
    OBVIOUS
  <2>3. IsRequest(v) /\ v.cur_state = "HeaderDone" /\ v.parser = p2
    <3>1. m.framing = "length" /\ Len(m.data) \in Nat /\ Len(m.data) > ConfigMaxBody
      BY <1>2, <1>7
    <3>2. v = HeaderDoneHandler(s, m) /\ IsRequest(s) /\ s.parser = p /\ s.cur_state = "HeaderDone"
      BY <1>7, <2>1
    <3>3. v.parser = [p EXCEPT !.error = 413] /\ IsRequest(v) /\ v.cur_state = "HeaderDone"
      BY <3>1, <3>2, AfterLongHeaders
    <3> QED
      BY <2>2, <3>3
  <2>4. IsParser(p2) /\ p2.error = 413 /\ p2.cur_state = "Start" /\ p2.body = << >>
    BY <1>7, <2>2, SMTT(60) DEF IsParser, NewParser
  <2>5. p2.error # NoError
    BY <2>4 DEF NoError
  <2>6. ParseRequest(s, m, input) = v
    BY <1>7, <2>1, <2>3, <2>5 DEF ParseRequest, ParseMessage, Failed
  <2>7. Refused(t, "HeaderDone", p2, input)
    BY <1>7, <2>3, <2>5, <2>6, AfterFailure
  <2> QED
    BY <1>2, <1>7, <2>4, <2>7 DEF LengthInv
<1>8. CASE k = 0 /\ r = NewRequest
  <2>1. q = AfterParse(ParseRequest(r, m, u), u, << >>)
    <3>1. /\ IsRequest(r) /\ r.parser = NewParser /\ IsParser(NewParser)
          /\ NewParser.error = NoError /\ NewParser.cur_state # "Invalid" /\ r.buf = << >>
      BY <1>8, NewIsNew
    <3>2. ParseAll(r, m, u, << >>) = AfterParse(ParseRequest(r, m, u), u, << >>)
      BY <3>1, ParsesOn, Zenon
    <3> QED
      BY <1>4, <1>5, <3>1, <3>2
  <2>2. CASE lw > c
    BY <1>7, <1>8, <2>1, <2>2, NewIsNew
  <2>3. PICK v : v = HeaderDoneHandler(r, m)
    OBVIOUS
  <2>4. ParseRequest(r, m, u) = ParseMessage(v, m, u)
    BY <1>8, <2>3, NewIsNew DEF ParseRequest
  <2>5. /\ lw =< c /\ m.data # << >> => InProgress(v, "MsgBody", NewParser)
        /\ lw =< c /\ m.data = << >> => InProgress(v, "Done", NewParser)
    BY <1>2, <1>8, <2>3, NewIsNew, AfterHeaders
  <2>6. CASE lw =< c /\ m.data # << >>
    <3>1. ParseMessage(v, m, u) = MessageBodyHandler(v, m, u)
      BY <2>5, <2>6, NewIsNew DEF ParseMessage, InProgress, Failed
    <3>2. HoldsBody(NewParser, SubSeq(w, 1, k))
      <4>1. SubSeq(w, 1, 0) = << >>
        OBVIOUS
      <4> QED
        BY <1>8, <4>1, NewIsNew
    <3> QED
      BY <1>6, <2>1, <2>4, <2>5, <2>6, <3>1, <3>2
  <2>7. CASE lw =< c /\ m.data = << >>
    <3>1. InProgress(v, "Done", NewParser)
      BY <2>5, <2>7
    <3>2. ParseMessage(v, m, u) = v
      BY <3>1, NewIsNew DEF ParseMessage, InProgress, Failed
    <3>3. Finished(q, NewParser)
      <4>1. IsRequest(v) /\ v.cur_state = "Done" /\ v.parser = NewParser /\ NewParser.error = NoError
        BY <3>1, NewIsNew DEF InProgress
      <4>2. Finished(AfterParse(v, u, << >>), NewParser)
        BY <4>1, AfterSuccess
      <4> QED
        BY <2>1, <2>4, <3>2, <4>2
    <3>4. HoldsBody(NewParser, m.data)
      BY <2>7, NewIsNew
    <3>5. lw = 0 /\ k + l = Len(m.data)
      BY <1>1, <1>2, <2>7
    <3> QED
      BY <1>2, <2>7, <3>3, <3>4, <3>5 DEF LengthInv
  <2> QED
    BY <1>2, <2>2, <2>6, <2>7
<1>9. ASSUME k < lw, lw =< c, NEW p, InProgress(r, "MsgBody", p), HoldsBody(p, SubSeq(m.data, 1, k))
      PROVE  LengthInv(m, k + l, q)
  <2>1. /\ IsRequest(r) /\ r.parser = p /\ IsParser(p) /\ p.error = NoError
        /\ p.cur_state = "Start" /\ r.buf = << >> /\ r.cur_state = "MsgBody"
    BY <1>9 DEF InProgress, HoldsBody
  <2>2. ParseAll(r, m, u, << >>) = AfterParse(ParseRequest(r, m, u), u, << >>)
    BY <2>1, ParsesOn
  <2>3. ParseRequest(r, m, u) = MessageBodyHandler(r, m, u)
    BY <2>1 DEF ParseRequest, ParseMessage, Failed
  <2>4. q = AfterParse(MessageBodyHandler(r, m, u), u, << >>)
    BY <1>4, <1>5, <2>1, <2>2, <2>3
  <2> QED
    BY <1>1, <1>6, <1>9, <2>4
<1>10. ASSUME k = lw, NEW p, Finished(r, p)
       PROVE  LengthInv(m, k + l, q)
  <2>1. l = 0
    BY <1>2, <1>10
  <2>2. r.status = "Complete" /\ NewRequest.status = "Incomplete"
    BY <1>10, NewIsNew DEF Finished
  <2> QED
    BY <2>1, <2>2
<1>11. ASSUME lw > c, NEW p, NEW b, Refused(r, "HeaderDone", p, b), IsParser(p),
              p.cur_state = "Start", p.body = << >>
       PROVE  LengthInv(m, k + l, q)
  <2>1. IsRequest(r) /\ r.parser = p /\ r.cur_state = "HeaderDone"
    BY <1>11 DEF Refused
  <2>2. PICK s : s = [r EXCEPT !.parser.error = NoError]
    OBVIOUS
  <2>3. PICK p2 : p2 = [p EXCEPT !.error = NoError]
    OBVIOUS
  <2>4. s = [r EXCEPT !.parser = p2]
    BY <2>1, <2>2, <2>3
  <2>5. IsRequest(s) /\ s.parser = p2 /\ s.cur_state = "HeaderDone"
    BY <2>1, <2>4 DEF IsRequest, NewRequest
  <2>6. IsParser(p2) /\ p2.cur_state = "Start" /\ p2.body = << >>
    BY <1>11, <2>3 DEF IsParser, NewParser
  <2>7. PICK input : input = r.buf \o u
    OBVIOUS
  <2>8. q = AfterParse(ParseRequest(s, m, input), input, << >>)
    <3>1. CanParse(r.parser)
      BY <1>11, <2>1 DEF CanParse
    <3> QED
      BY <1>4, <2>2, <2>7, <3>1 DEF ParseAll
  <2> QED
    BY <1>7, <1>11, <2>5, <2>6, <2>8
<1> QED
  BY <1>1, <1>2, <1>8, <1>9, <1>10, <1>11 DEF LengthInv

LEMMA NewPlace ==
    ASSUME NEW m, NEW o, NEW g, Laid(m, o, g)
    PROVE  Place(m, o, g, NewParser, 0, FALSE)
<1>1. PICK n \in Nat : n = Len(m.chunks)
  BY DEF Laid
<1>2. o[0] = 0 /\ g[0] = 0 /\ BodyOf(m, g, n) = m.data /\ BodyOf(m, g, n) \in Seq(Chars)
  <2>1. n \in 0 .. n
    OBVIOUS
  <2> QED
    BY <1>1, <2>1, Zenon DEF Laid
<1>3. PICK d \in Seq(Chars) : d = m.data
  BY <1>2
<1>4. BodyOf(m, g, 0) = << >>
  <2>1. SubSeq(d, 1, 0) = << >>
    OBVIOUS
  <2> QED
    BY <1>2, <1>3, <2>1 DEF BodyOf
<1>5. Is(NewParser, "Start", << >>, 0, << >>, FALSE, 0, FALSE, FALSE)
  BY DEF Is, Holds, Seen, NewParser
<1>6. AtStart(NewParser, FALSE, << >>)
  BY <1>5 DEF AtStart, EndOfPiece
<1>7. 0 \in 0 .. n
  OBVIOUS
<1> QED
  BY <1>1, <1>2, <1>4, <1>6, <1>7, Zenon DEF Place

LEMMA ChunksAreTaken ==
    ASSUME NEW m, NEW o, NEW g, Laid(m, o, g), m.wire \in Seq(Chars), NEW z \in BOOLEAN,
           NEW k \in Nat, NEW l \in Nat, k + l =< Len(m.wire), l > 0 \/ ~ z,
           NEW r, NEW p, InProgress(r, "Chunked", p), Place(m, o, g, p, k, z),
           NEW u, u = SubSeq(m.wire, k + 1, k + l), u \in Seq(Chars),
           NEW t, t = AfterParse(ChunkedHandler(r, u), u, << >>)
    PROVE  ChunkedInv(m, o, g, k + l, t)
<1>1. PICK q : q = Parse(p, u) /\ (Place(m, o, g, q, k + l, TRUE) \/ Halted(m, g, q))
  BY PieceIsParsed
<1>2. PICK v : v = ChunkedHandler(r, u)
  OBVIOUS
<1>3. /\ IsRequest(v) /\ v.parser = q /\ v.status \in {"Incomplete", "Expect"}
      /\ v.cur_state = IF Ended(q) THEN "Done" ELSE "Chunked"
  <2>1. /\ IsRequest(r) /\ r.parser = p /\ r.status \in {"Incomplete", "Expect"}
        /\ r.cur_state = "Chunked"
    BY DEF InProgress
  <2>2. PICK y : y = (u # << >>) /\ v = ChunksParsed(r, q, y)
    BY <1>1, <1>2, <2>1 DEF ChunkedHandler
  <2>3. v = [r EXCEPT !.parser = q,
                      !.begun = @ \/ (y /\ q.error = NoError),
                      !.cur_state = IF Ended(q) THEN "Done" ELSE @]
    BY <2>2 DEF ChunksParsed
  <2> QED
    BY <2>1, <2>3 DEF IsRequest, NewRequest
<1>4. t = AfterParse(v, u, << >>)
  BY <1>2
<1>5. CASE Halted(m, g, q)
  <2>1. q.error # NoError
    <3>1. q.error = 413
      BY <1>5, HaltedHasFailed
    <3> QED
      BY <3>1 DEF NoError
  <2>2. v.cur_state = "Chunked"
    BY <1>3, <2>1 DEF Ended
  <2>3. Refused(t, "Chunked", q, u)
    BY <1>3, <1>4, <2>1, <2>2, AfterFailure
  <2> QED
    BY <1>5, <2>3, Zenon DEF ChunkedInv
<1>6. CASE Place(m, o, g, q, k + l, TRUE)
  <2>1. PICK x \in Nat : x = k + l
    OBVIOUS
  <2>2. Place(m, o, g, q, x, TRUE)
    BY <1>6, <2>1
  <2>3. /\ Sound(q, m.data)
        /\ q.cur_state = "Done" => x = Len(m.wire) /\ q.body = m.data
    BY <2>2, PlaceFacts
  <2>4. q.error = NoError
    BY <2>3 DEF Sound
  <2>5. CASE q.cur_state = "Done"
    <3>1. v.cur_state = "Done"
      BY <1>3, <2>4, <2>5 DEF Ended
    <3>2. Finished(t, q)
      BY <1>3, <1>4, <2>4, <3>1, AfterSuccess
    <3>3. k + l = Len(m.wire) /\ q.body = m.data
      BY <2>1, <2>3, <2>5
    <3> QED
      BY <2>5, <3>2, <3>3, Zenon DEF ChunkedInv
  <2>6. CASE q.cur_state # "Done"
    <3>1. v.cur_state = "Chunked"
      BY <1>3, <2>6 DEF Ended
    <3>2. InProgress(t, "Chunked", q)
      BY <1>3, <1>4, <2>4, <3>1, AfterSuccess
    <3> QED
      BY <1>6, <2>6, <3>2, Zenon DEF ChunkedInv
  <2> QED
    BY <2>5, <2>6
<1> QED
  BY <1>1, <1>5, <1>6

LEMMA ChunkedStep ==
    ASSUME NEW m, m.framing = "chunked", NEW o, NEW g, Laid(m, o, g), m.wire \in Seq(Chars),
           NEW k \in Nat, NEW l \in Nat, k + l =< Len(m.wire), NEW r, l > 0 \/ r = NewRequest,
           ChunkedInv(m, o, g, k, r), NEW q, q = RequestParse(r, m, SubSeq(m.wire, k + 1, k + l))
    PROVE  ChunkedInv(m, o, g, k + l, q)
<1>1. PICK u \in Seq(Chars) : u = SubSeq(m.wire, k + 1, k + l)
  BY PieceIs
<1>2. q = ParseAll(r, m, r.buf \o u, << >>)
  BY <1>1 DEF RequestParse
<1>3. << >> \o u = u
  OBVIOUS
<1>4. CASE k = 0 /\ r = NewRequest
  <2>1. /\ IsRequest(r) /\ r.parser = NewParser /\ IsParser(NewParser)
        /\ NewParser.error = NoError /\ NewParser.cur_state # "Invalid" /\ r.buf = << >>
        /\ r.cur_state = "HeaderDone" /\ r.status = "Incomplete"
    BY <1>4, NewIsNew
  <2>2. ParseAll(r, m, u, << >>) = AfterParse(ParseRequest(r, m, u), u, << >>)
    BY <2>1, ParsesOn, Zenon
  <2>3. PICK v : v = HeaderDoneHandler(r, m)
    OBVIOUS
  <2>4. InProgress(v, "Chunked", NewParser)
    BY <2>1, <2>3, AfterHeaders
  <2>5. ParseRequest(r, m, u) = ChunkedHandler(v, u)
    <3>1. ~ Failed(v) /\ v.cur_state = "Chunked"
      BY <2>1, <2>4 DEF InProgress, Failed
    <3> QED
      BY <2>1, <2>3, <3>1 DEF ParseRequest, ParseMessage
  <2>6. q = AfterParse(ChunkedHandler(v, u), u, << >>)
    BY <1>2, <1>3, <2>1, <2>2, <2>5
  <2>7. PICK z \in BOOLEAN : z = FALSE /\ Place(m, o, g, NewParser, k, z)
    BY <1>4, NewPlace
  <2> QED
    BY <1>1, <2>4, <2>6, <2>7, ChunksAreTaken
<1>5. ASSUME NEW p, InProgress(r, "Chunked", p), Place(m, o, g, p, k, TRUE), p.cur_state # "Done"
      PROVE  ChunkedInv(m, o, g, k + l, q)
  <2>1. l > 0
    <3>1. r.cur_state = "Chunked" /\ NewRequest.cur_state = "HeaderDone"
      BY <1>5, NewIsNew DEF InProgress
    <3> QED
      BY <3>1
  <2>2. PICK z \in BOOLEAN : z = TRUE /\ Place(m, o, g, p, k, z)
    BY <1>5
  <2>3. IsParser(p) /\ p.error = NoError /\ p.cur_state # "Invalid"
    BY <2>2, PlaceFacts DEF Sound
  <2>4. IsRequest(r) /\ r.parser = p /\ r.buf = << >> /\ r.cur_state = "Chunked"
    BY <1>5 DEF InProgress
  <2>5. ParseAll(r, m, u, << >>) = AfterParse(ParseRequest(r, m, u), u, << >>)
    BY <2>3, <2>4, ParsesOn, Zenon
  <2>6. ParseRequest(r, m, u) = ChunkedHandler(r, u)
    BY <2>3, <2>4 DEF ParseRequest, ParseMessage, Failed
  <2>7. q = AfterParse(ChunkedHandler(r, u), u, << >>)
    BY <1>2, <1>3, <2>4, <2>5, <2>6
  <2> QED
    BY <1>1, <1>5, <2>1, <2>2, <2>7, ChunksAreTaken
<1>6. ASSUME k = Len(m.wire), NEW p, Finished(r, p)
      PROVE  ChunkedInv(m, o, g, k + l, q)
  <2>1. l = 0
    BY <1>6
  <2>2. r.status = "Complete" /\ NewRequest.status = "Incomplete"
    BY <1>6, NewIsNew DEF Finished
  <2> QED
    BY <2>1, <2>2
<1>7. ASSUME NEW p, NEW b \in Seq(Chars), Refused(r, "Chunked", p, b), Halted(m, g, p)
      PROVE  ChunkedInv(m, o, g, k + l, q)
  <2>1. PICK input \in Seq(Chars) : input = b \o u
    BY Joined
  <2>2. IsRequest(r) /\ r.parser = p /\ r.cur_state = "Chunked" /\ r.buf = b
    BY <1>7 DEF Refused
  <2>3. p.error = 413 /\ p.cur_state = "Data"
    BY <1>7, Zenon DEF Halted, Stopped
  <2>4. PICK s : s = [r EXCEPT !.parser.error = NoError]
    OBVIOUS
  <2>5. PICK p2 : p2 = [p EXCEPT !.error = NoError]
    OBVIOUS
  <2>6. s = [r EXCEPT !.parser = p2]
    BY <2>2, <2>4, <2>5
  <2>7. IsRequest(s) /\ s.parser = p2 /\ s.cur_state = "Chunked"
    BY <2>2, <2>6 DEF IsRequest, NewRequest
  <2>8. IsParser(p)
    BY <1>7, Zenon DEF Halted, Stopped, IsParser
  <2>9. p2.error = NoError
    BY <2>5, <2>8 DEF IsParser, NewParser
  <2>10. q = AfterParse(ParseRequest(s, m, input), input, << >>)
    <3>1. CanParse(r.parser)
      BY <2>2, <2>3 DEF CanParse
    <3> QED
      BY <1>2, <2>1, <2>2, <2>4, <3>1 DEF ParseAll
  <2>11. ParseRequest(s, m, input) = ChunkedHandler(s, input)
    BY <2>7, <2>9 DEF ParseRequest, ParseMessage, Failed
  <2>12. Parse(p2, input) = p
    <3>1. Parse(p, input) = p
      BY <1>7, HaltedStays
    <3>2. [p2 EXCEPT !.error = NoError] = p2
      BY <2>5, <2>8 DEF IsParser, NewParser
    <3>3. Parse(p2, input) = Parse(p, input)
      <4>1. Parse(p, input) = AfterParseCheck(TurnsOf([p EXCEPT !.error = NoError], Append(input, "NUL")))
        BY ParseIs
      <4>2. Parse(p2, input) = AfterParseCheck(TurnsOf([p2 EXCEPT !.error = NoError], Append(input, "NUL")))
        BY ParseIs
      <4> QED
        BY <2>5, <3>2, <4>1, <4>2
    <3> QED
      BY <3>1, <3>3
  <2>13. PICK v : v = ChunkedHandler(s, input)
    OBVIOUS
  <2>14. IsRequest(v) /\ v.parser = p /\ v.cur_state = "Chunked"
    <3>1. PICK y : y = (input # << >>) /\ v = ChunksParsed(s, p, y)
      BY <2>7, <2>12, <2>13 DEF ChunkedHandler
    <3>2. ~ Ended(p)
      BY <2>3 DEF Ended
    <3>3. v = [s EXCEPT !.parser = p, !.begun = @ \/ (y /\ p.error = NoError),
                        !.cur_state = IF Ended(p) THEN "Done" ELSE @]
      BY <3>1 DEF ChunksParsed
    <3> QED
      BY <2>7, <3>2, <3>3 DEF IsRequest, NewRequest
  <2>15. Refused(q, "Chunked", p, input)
    <3>1. p.error # NoError
      BY <2>3 DEF NoError
    <3>2. Refused(AfterParse(v, input, << >>), "Chunked", p, input)
      BY <2>14, <3>1, AfterFailure
    <3> QED
      BY <2>10, <2>11, <2>13, <3>2
  <2> QED
    BY <1>7, <2>15, Zenon DEF ChunkedInv
<1> QED
  BY <1>4, <1>5, <1>6, <1>7, Zenon DEF ChunkedInv

-----------------------------------------------------------------------------
(* The invariant. *)

BodyInv ==
    /\ message \in Messages
    /\ message.framing = "length" =>
          received \in Nat /\ LengthInv(message, received, request)
    /\ message.framing # "length" /\ Plain =>
          received \in Nat /\ \E o, g : /\ Laid(message, o, g)
                                        /\ ChunkedInv(message, o, g, received, request)

LEMMA LengthMessage ==
    ASSUME NEW m \in Messages, m.framing = "length"
    PROVE  m.data \in Seq(STRING) /\ m.wire = m.data
<1>1. IsMessage(m)
  BY MessagesAssumption
<1>2. m = MessageOfLength(m.data, m.expect) /\ m.data \in Seq(STRING)
  BY <1>1, Zenon DEF IsMessage
<1>3. PICK d, e : d = m.data /\ e = m.expect
  OBVIOUS
<1>4. m = MessageOfLength(d, e)
  BY <1>2, <1>3
<1>5. m.wire = d
  BY <1>4 DEF MessageOfLength
<1> QED
  BY <1>2, <1>3, <1>5

LEMMA ChunkedFraming ==
    ASSUME NEW m \in Messages, m.framing # "length"
    PROVE  IsMessage(m) /\ m.framing = "chunked"
<1>1. IsMessage(m)
  BY MessagesAssumption
<1>2. m = ChunkedMessage(m.chunks, m.ext, m.trailer, m.expect)
  BY <1>1, Zenon DEF IsMessage
<1>3. PICK a, b, c, d : a = m.chunks /\ b = m.ext /\ c = m.trailer /\ d = m.expect
  OBVIOUS
<1>4. m = ChunkedMessage(a, b, c, d)
  BY <1>2, <1>3
<1>5. PICK x, y : x = FlattenSeq(a) /\ y = Chunked(a, b, c)
  OBVIOUS
<1>6. m.framing = "chunked"
  BY <1>4, <1>5 DEF ChunkedMessage
<1> QED
  BY <1>1, <1>6

LEMMA PlainMessage ==
    ASSUME message \in Messages, message.framing # "length", Plain
    PROVE  IsPlain(message)
<1>1. IsMessage(message)
  BY ChunkedFraming
<1> QED
  BY <1>1, Zenon DEF IsPlain, Plain, DataIsTaken, SizesAreTaken

LEMMA BodyInit == ASSUME Init PROVE BodyInv
<1>1. message \in Messages /\ received = 0 /\ request = NewRequest
  BY DEF Init
<1>2. LengthInv(message, received, request)
  BY <1>1, Zenon DEF LengthInv
<1>3. \A o, g : ChunkedInv(message, o, g, received, request)
  BY <1>1, Zenon DEF ChunkedInv
<1>4. received \in Nat
  BY <1>1
<1>5. message.framing # "length" /\ Plain => \E o, g : Laid(message, o, g)
  BY <1>1, PlainMessage, LayoutExists
<1> QED
  BY <1>1, <1>2, <1>3, <1>4, <1>5, Zenon DEF BodyInv

LEMMA BodyReceive == ASSUME BodyInv, NEW n \in 0 .. Len(message.wire), Receive(n) PROVE BodyInv'
<1>1. PICK m, k, r, q :
         /\ m = message /\ m = message' /\ k = received /\ k + n = received'
         /\ r = request /\ q = request'
  BY DEF Receive
<1>2. /\ n > 0 \/ r = NewRequest
      /\ k + n =< Len(m.wire)
      /\ q = RequestParse(r, m, SubSeq(m.wire, k + 1, k + n))
  BY <1>1 DEF Receive
<1>3. m \in Messages
  BY <1>1 DEF BodyInv
<1>4. ASSUME m.framing = "length" PROVE k + n \in Nat /\ LengthInv(m, k + n, q)
  <2>1. k \in Nat /\ LengthInv(m, k, r)
    BY <1>1, <1>4 DEF BodyInv
  <2>2. m.wire = m.data /\ m.data \in Seq(STRING)
    BY <1>3, <1>4, LengthMessage
  <2>3. PICK l \in Nat : l = n
    BY <1>1, <2>2
  <2>4. LengthInv(m, k + l, q)
    BY <1>2, <1>4, <2>1, <2>2, <2>3, LengthStep
  <2> QED
    BY <2>1, <2>3, <2>4
<1>5. ASSUME m.framing # "length", IsPlain(m), NEW o, NEW g, Laid(m, o, g),
             ChunkedInv(m, o, g, k, r), k \in Nat
      PROVE  k + n \in Nat /\ ChunkedInv(m, o, g, k + n, q)
  <2>1. m.framing = "chunked"
    BY <1>3, <1>5, ChunkedFraming
  <2>2. m.wire \in Seq(Chars)
    BY <1>5, LayoutExists
  <2>3. PICK l \in Nat : l = n
    BY <1>1, <2>2
  <2>4. ChunkedInv(m, o, g, k + l, q)
    BY <1>2, <1>5, <2>1, <2>2, <2>3, ChunkedStep
  <2> QED
    BY <1>5, <2>3, <2>4
<1>6. Plain' <=> Plain
  BY <1>1 DEF Plain, DataIsTaken, SizesAreTaken
<1>7. ASSUME m.framing # "length", Plain
      PROVE  k + n \in Nat /\ \E o, g : Laid(m, o, g) /\ ChunkedInv(m, o, g, k + n, q)
  <2>1. IsPlain(m)
    BY <1>1, <1>3, <1>7, PlainMessage
  <2>2. PICK o, g : Laid(m, o, g) /\ ChunkedInv(m, o, g, k, r) /\ k \in Nat
    BY <1>1, <1>7, Zenon DEF BodyInv
  <2> QED
    BY <1>5, <1>7, <2>1, <2>2, Zenon
<1> QED
  BY <1>1, <1>3, <1>4, <1>6, <1>7, Zenon DEF BodyInv

LEMMA BodyStep == BodyInv /\ [Next]_vars => BodyInv'
<1> SUFFICES ASSUME BodyInv, [Next]_vars PROVE BodyInv'
  OBVIOUS
<1>1. CASE Next
  <2>1. PICK n \in 0 .. Len(message.wire) : Receive(n)
    BY <1>1, Zenon DEF Next
  <2> QED
    BY <2>1, BodyReceive
<1>2. CASE UNCHANGED vars
  <2>1. message' = message /\ received' = received /\ request' = request
    BY <1>2 DEF vars
  <2>2. Plain' <=> Plain
    BY <2>1 DEF Plain, DataIsTaken, SizesAreTaken
  <2> QED
    BY <2>1, <2>2, Zenon DEF BodyInv
<1> QED
  BY <1>1, <1>2

-----------------------------------------------------------------------------
(* What follows from it. *)

LEMMA LengthRejected ==
    ASSUME NEW m, NEW n, NEW r, LengthInv(m, n, r), Len(m.data) \in Nat, Len(m.data) > ConfigMaxBody
    PROVE  r.status # "Complete" /\ r.parser.body = << >>
<1>1. ~ (Len(m.data) =< ConfigMaxBody)
  BY BodyLimitAssumption
<1>2. CASE r = NewRequest
  BY <1>2, NewIsNew
<1>3. CASE \E p, b : /\ Refused(r, "HeaderDone", p, b) /\ IsParser(p)
                     /\ p.cur_state = "Start" /\ p.body = << >>
  BY <1>3 DEF Refused
<1> QED
  BY <1>1, <1>2, <1>3, Zenon DEF LengthInv

LEMMA OwnPrefix ==
    ASSUME NEW S, NEW d \in Seq(S)
    PROVE  IsPrefix(d, d) /\ IsPrefix(<< >>, d)
  BY DEF IsPrefix

(* What is said of a request, and of the message it was given. *)
Understood(m, n, r, limit) ==
    /\ IsPrefix(TakenBy(r.parser), m.data)
    /\ r.status = "Complete" => n = Len(m.wire)
    /\ Len(m.data) =< limit /\ n = Len(m.wire) /\ r # NewRequest =>
          r.status = "Complete" /\ r.parser.body = m.data

LEMMA TakenOutside ==
    ASSUME NEW p, NEW S, p.body \in Seq(S), p.cur_state # "Data"
    PROVE  TakenBy(p) = p.body
<1>1. p.body \o << >> = p.body
  OBVIOUS
<1> QED
  BY <1>1, Zenon DEF TakenBy

LEMMA NewUnderstood ==
    ASSUME NEW m, NEW S, m.data \in Seq(S), NEW n, NEW limit
    PROVE  Understood(m, n, NewRequest, limit)
<1>1. PICK r : r = NewRequest /\ r.parser.body = << >> /\ r.parser.cur_state = "Start" /\ r.status = "Incomplete"
  BY NewIsNew
<1>2. TakenBy(r.parser) = << >>
  <2>1. << >> \in Seq(S)
    OBVIOUS
  <2> QED
    BY <1>1, <2>1, TakenOutside
<1>3. IsPrefix(<< >>, m.data)
  BY OwnPrefix
<1> QED
  BY <1>1, <1>2, <1>3 DEF Understood

LEMMA LengthUnderstood ==
    ASSUME NEW m, NEW S, m.data \in Seq(S), m.wire = m.data, NEW n \in Nat, NEW r, LengthInv(m, n, r)
    PROVE  Understood(m, n, r, ConfigMaxBody)
<1>1. PICK lw \in Nat, c \in Nat : lw = Len(m.data) /\ lw = Len(m.wire) /\ c = ConfigMaxBody
  BY BodyLimitAssumption
<1>2. CASE r = NewRequest
  BY <1>2, NewUnderstood
<1>3. ASSUME n < Len(m.data), NEW p, InProgress(r, "MsgBody", p), HoldsBody(p, SubSeq(m.data, 1, n))
      PROVE  Understood(m, n, r, ConfigMaxBody)
  <2>1. n =< Len(m.data)
    BY <1>1, <1>3
  <2>2. PICK B \in Seq(S) : B = SubSeq(m.data, 1, n) /\ IsPrefix(B, m.data)
    BY <2>1, CutAt
  <2>3. p.body = B /\ p.cur_state = "Start"
    BY <1>3, <2>2, Zenon DEF HoldsBody
  <2>4. TakenBy(p) = B
    BY <2>3, TakenOutside
  <2>5. r.parser = p /\ r.status # "Complete" /\ n # Len(m.wire)
    BY <1>1, <1>3 DEF InProgress
  <2> QED
    BY <2>2, <2>4, <2>5, Zenon DEF Understood
<1>4. ASSUME n = Len(m.data), NEW p, Finished(r, p), HoldsBody(p, m.data)
      PROVE  Understood(m, n, r, ConfigMaxBody)
  <2>1. p.body = m.data /\ p.cur_state = "Start"
    BY <1>4, Zenon DEF HoldsBody
  <2>2. TakenBy(p) = m.data /\ IsPrefix(m.data, m.data)
    BY <2>1, TakenOutside, OwnPrefix
  <2>3. r.parser = p /\ r.status = "Complete" /\ n = Len(m.wire)
    BY <1>4 DEF Finished
  <2> QED
    BY <2>1, <2>2, <2>3, Zenon DEF Understood
<1>5. ASSUME Len(m.data) > ConfigMaxBody, NEW p, NEW b, Refused(r, "HeaderDone", p, b),
             p.cur_state = "Start", p.body = << >>
      PROVE  Understood(m, n, r, ConfigMaxBody)
  <2>1. TakenBy(p) = << >> /\ IsPrefix(<< >>, m.data)
    <3>1. << >> \in Seq(S)
      OBVIOUS
    <3> QED
      BY <1>5, <3>1, TakenOutside, OwnPrefix
  <2>2. r.parser = p /\ r.status # "Complete" /\ ~ (Len(m.data) =< ConfigMaxBody)
    BY <1>1, <1>5 DEF Refused
  <2> QED
    BY <2>1, <2>2, Zenon DEF Understood
<1> QED
  BY <1>2, <1>3, <1>4, <1>5, Zenon DEF LengthInv

LEMMA ChunkedUnderstood ==
    ASSUME NEW m, NEW o, NEW g, Laid(m, o, g), m.data \in Seq(Chars), NEW n \in Nat, NEW r,
           ChunkedInv(m, o, g, n, r)
    PROVE  Understood(m, n, r, DefaultMaxBody)
<1>1. CASE r = NewRequest
  BY <1>1, NewUnderstood
<1>2. ASSUME NEW p, InProgress(r, "Chunked", p), Place(m, o, g, p, n, TRUE), p.cur_state # "Done"
      PROVE  Understood(m, n, r, DefaultMaxBody)
  <2>1. Sound(p, m.data) /\ n # Len(m.wire)
    <3>1. PICK z \in BOOLEAN : z = TRUE
      OBVIOUS
    <3>2. Place(m, o, g, p, n, z)
      BY <1>2, <3>1
    <3> QED
      BY <1>2, <3>1, <3>2, PlaceFacts
  <2>2. r.parser = p /\ r.status # "Complete"
    BY <1>2 DEF InProgress
  <2> QED
    BY <2>1, <2>2, Zenon DEF Understood, Sound
<1>3. ASSUME n = Len(m.wire), NEW p, Finished(r, p), p.cur_state = "Done", p.body = m.data
      PROVE  Understood(m, n, r, DefaultMaxBody)
  <2>1. TakenBy(p) = m.data /\ IsPrefix(m.data, m.data)
    <3>1. p.cur_state # "Data"
      BY <1>3
    <3> QED
      BY <1>3, <3>1, TakenOutside, OwnPrefix
  <2>2. r.parser = p /\ r.status = "Complete"
    BY <1>3 DEF Finished
  <2> QED
    BY <1>3, <2>1, <2>2, Zenon DEF Understood
<1>4. ASSUME NEW p, NEW b, Refused(r, "Chunked", p, b), Halted(m, g, p)
      PROVE  Understood(m, n, r, DefaultMaxBody)
  <2>1. IsPrefix(TakenBy(p), m.data) /\ Len(m.data) > DefaultMaxBody
    <3>1. Halted(m, g, p)
      BY <1>4
    <3> QED
      BY <3>1, HaltedFacts
  <2>2. r.parser = p /\ r.status # "Complete"
    BY <1>4 DEF Refused
  <2>3. ~ (Len(m.data) =< DefaultMaxBody)
    <3>1. Len(m.data) \in Nat
      OBVIOUS
    <3> QED
      BY <2>1, <3>1, ChunkLimitsAssumption
  <2> QED
    BY <2>1, <2>2, <2>3, Zenon DEF Understood
<1> QED
  BY <1>1, <1>2, <1>3, <1>4, Zenon DEF ChunkedInv

LEMMA BodyInvUnderstood ==
    ASSUME BodyInv, Plain
    PROVE  Understood(message, received, request, Limit)
<1>1. message \in Messages
  BY DEF BodyInv
<1>2. CASE message.framing = "length"
  <2>1. message.data \in Seq(STRING) /\ message.wire = message.data
    BY <1>1, <1>2, LengthMessage
  <2>2. received \in Nat /\ LengthInv(message, received, request)
    BY <1>2 DEF BodyInv
  <2>3. Understood(message, received, request, ConfigMaxBody)
    BY <2>1, <2>2, LengthUnderstood
  <2> QED
    BY <1>2, <2>3 DEF Limit
<1>3. CASE message.framing # "length"
  <2>1. IsPlain(message)
    BY <1>1, <1>3, PlainMessage
  <2>2. PICK o, g : received \in Nat /\ Laid(message, o, g) /\ ChunkedInv(message, o, g, received, request)
    BY <1>3, Zenon DEF BodyInv
  <2>3. message.data \in Seq(Chars)
    <3>1. message.chunks \in Seq(Seq(Chars)) /\ message.data = FlattenSeq(message.chunks)
      BY <2>1, PlainType
    <3> QED
      BY <3>1, FlattenIs
  <2>4. Understood(message, received, request, DefaultMaxBody)
    BY <2>2, <2>3, ChunkedUnderstood
  <2> QED
    BY <1>3, <2>4 DEF Limit
<1> QED
  BY <1>2, <1>3

LEMMA BodyInvariant == Spec => []BodyInv
<1>1. Init => BodyInv
  BY BodyInit
<1> QED
  BY <1>1, BodyStep, PTL DEF Spec

(***************************************************************************)
(* Nothing of a message that is announced with a length beyond the limit   *)
(* of its target is kept, and it is never complete, however much of it the *)
(* client sends (OverlongIsRejected).                                      *)
(***************************************************************************)
THEOREM OverlongRejected == Spec => []OverlongIsRejected
<1>1. BodyInv => OverlongIsRejected
  <2> SUFFICES ASSUME BodyInv, message.framing = "length", Len(message.data) > ConfigMaxBody
               PROVE  request.status # "Complete" /\ request.parser.body = << >>
    BY DEF OverlongIsRejected
  <2>1. message.data \in Seq(STRING) /\ LengthInv(message, received, request)
    BY LengthMessage DEF BodyInv
  <2>2. Len(message.data) \in Nat
    BY <2>1
  <2> QED
    BY <2>1, <2>2, LengthRejected
<1> QED
  BY <1>1, BodyInvariant, PTL

(***************************************************************************)
(* However a plain message, of any number of chunks, is cut, what was      *)
(* taken of it is the beginning of its data; it is complete when all of it *)
(* arrived, no sooner, and its body is the data (PlainDataIsUnderstood).   *)
(***************************************************************************)
THEOREM PlainDataUnderstood == Spec => []PlainDataIsUnderstood
<1>1. BodyInv => PlainDataIsUnderstood
  <2>1. ASSUME BodyInv, Plain
        PROVE  /\ IsPrefix(Taken, message.data)
               /\ request.status = "Complete" => AllReceived
               /\ Len(message.data) =< Limit /\ AllReceived /\ request # NewRequest =>
                     request.status = "Complete" /\ request.parser.body = message.data
    BY <2>1, BodyInvUnderstood, Zenon DEF Understood, Taken, TakenBy, AllReceived
  <2> QED
    BY <2>1, Zenon DEF PlainDataIsUnderstood
<1> QED
  BY <1>1, BodyInvariant, PTL
===============================================================================
