----------------------------- MODULE Serving_proofs -----------------------------
(***************************************************************************)
(* How requests for files are carried out: what the announced length, the  *)
(* chosen location and the abstract FileStore ask of it, for every tree of *)
(* files, every configuration and any requests.                            *)
(***************************************************************************)
EXTENDS Serving, Target_proofs

-----------------------------------------------------------------------------
(* The file system. *)

LEMMA LastSlashIs ==
    ASSUME NEW p \in Seq(STRING)
    PROVE  /\ LastSlash(p) \in 0 .. Len(p)
           /\ LastSlash(p) # 0 => p[LastSlash(p)] = "/"
           /\ \A i \in 1 .. Len(p) : p[i] = "/" => LastSlash(p) # 0 /\ i =< LastSlash(p)
<1> DEFINE I == { i \in 1 .. Len(p) : p[i] = "/" }
<1>1. LastSlash(p) = IF I # {} THEN Max(I) ELSE 0
  BY DEF LastSlash, SelectLastInSeq
<1>2. CASE I = {}
  BY <1>1, <1>2
<1>3. CASE I # {}
  <2>1. Len(p) \in Nat /\ I \in SUBSET (1 .. Len(p))
    OBVIOUS
  <2> HIDE DEF I
  <2>2. Max(I) \in I /\ \A y \in I : y =< Max(I)
    BY <1>3, <2>1, MaxExists
  <2> QED
    BY <1>1, <1>3, <2>1, <2>2 DEF I
<1> QED
  BY <1>2, <1>3

LEMMA WithoutSlashType ==
    ASSUME NEW p \in Seq(STRING)
    PROVE  /\ WithoutSlash(p) \in Seq(STRING)
           /\ ~ EndsInSlash(p) => WithoutSlash(p) = p
<1>1. CASE Len(p) > 1 /\ Last(p) = "/"
  <2>1. WithoutSlash(p) = SubSeq(p, 1, Len(p) - 1)
    BY <1>1 DEF WithoutSlash, Front
  <2>2. SubSeq(p, 1, Len(p) - 1) \in Seq(STRING)
    BY <1>1
  <2>3. EndsInSlash(p)
    BY <1>1 DEF EndsInSlash
  <2> QED
    BY <2>1, <2>2, <2>3
<1>2. CASE ~ (Len(p) > 1 /\ Last(p) = "/")
  BY <1>2 DEF WithoutSlash
<1> QED
  BY <1>1, <1>2

(* The directories on the way to a path are paths that are shorter. *)
LEMMA AncestorsType ==
    ASSUME NEW p \in Seq(STRING), NEW a \in Ancestors(p)
    PROVE  \E i \in 2 .. Len(p) :
              /\ p[i] = "/" /\ a = SubSeq(p, 1, i - 1)
              /\ a \in Seq(STRING) /\ Len(a) = i - 1 /\ \A j \in 1 .. i - 1 : a[j] = p[j]
              /\ a # p
<1>1. PICK i \in 2 .. Len(p) : p[i] = "/" /\ a = SubSeq(p, 1, i - 1)
  BY DEF Ancestors
<1>2. a \in Seq(STRING) /\ Len(a) = i - 1 /\ \A j \in 1 .. i - 1 : a[j] = p[j]
  BY <1>1
<1>3. a # p
  BY <1>2
<1> QED
  BY <1>1, <1>2, <1>3

LEMMA AncestorOf ==
    ASSUME NEW p \in Seq(STRING), NEW i \in 2 .. Len(p), p[i] = "/"
    PROVE  SubSeq(p, 1, i - 1) \in Ancestors(p)
  BY DEF Ancestors

LEMMA ObstacleExists ==
    ASSUME NEW t, NEW p \in Seq(STRING), Obstacles(t, p) # {}
    PROVE  Obstacle(t, p) \in Obstacles(t, p)
<1> DEFINE L == { Len(a) : a \in Obstacles(t, p) }
<1>1. \A a \in Obstacles(t, p) : Len(a) \in Nat
  BY AncestorsType DEF Obstacles
<1>2. L \in SUBSET Nat /\ L # {}
  BY <1>1
<1> HIDE DEF L
<1>3. Min(L) \in L /\ \A y \in L : Min(L) =< y
  BY <1>2, MinExists
<1>4. \E a \in Obstacles(t, p) : \A b \in Obstacles(t, p) : Len(a) <= Len(b)
  BY <1>3 DEF L
<1> QED
  BY <1>4 DEF Obstacle

LEMMA KindType ==
    ASSUME NEW P, NEW t \in [P -> Entries], NEW p
    PROVE  Kind(t, p) \in { "absent", "file", "directory", "closed", "locked" }
  BY DEF Kind, Entry, Entries, Absent

(* What stat() says. *)
LEMMA StatCases ==
    ASSUME NEW P, NEW t \in [P -> Entries], NEW p \in Seq(STRING)
    PROVE  LET node == WithoutSlash(p)
           IN  /\ Obstacles(t, node) # {} =>
                    /\ Stat(t, p) \in Errors
                    /\ Stat(t, p) = "ENOENT" => \E a \in Ancestors(node) : Kind(t, a) = "absent"
               /\ Obstacles(t, node) = {} =>
                    Stat(t, p) = CASE Kind(t, node) = "absent"             -> "ENOENT"
                                   [] Kind(t, node) = "file" /\ node # p   -> "ENOTDIR"
                                   [] OTHER                                -> Kind(t, node)
<1> DEFINE node == WithoutSlash(p)
<1>1. node \in Seq(STRING)
  BY WithoutSlashType
<1> HIDE DEF node
<1>2. CASE Obstacles(t, node) # {}
  <2> DEFINE o == Obstacle(t, node)
  <2>1. o \in Obstacles(t, node)
    BY <1>1, <1>2, ObstacleExists
  <2> HIDE DEF o
  <2>2. o \in Ancestors(node) /\ Kind(t, o) \in { "absent", "file", "locked" }
    BY <2>1, KindType DEF Obstacles
  <2>3. Stat(t, p) = Errno(Kind(t, o))
    BY <1>2 DEF Stat, node, o
  <2>4. Errno(Kind(t, o)) \in Errors /\ (Errno(Kind(t, o)) = "ENOENT" => Kind(t, o) = "absent")
    BY <2>2 DEF Errno, Errors
  <2> QED
    BY <1>2, <2>2, <2>3, <2>4 DEF node
<1>3. CASE Obstacles(t, node) = {}
  BY <1>3 DEF Stat, node
<1> QED
  BY <1>2, <1>3 DEF node

(* What is regular is a file of that name, and the way to it is free. *)
LEMMA StatIsFile ==
    ASSUME NEW P, NEW t \in [P -> Entries], NEW p \in Seq(STRING)
    PROVE  Stat(t, p) = "file" <=>
              /\ p \in P /\ t[p].kind = "file"
              /\ p = WithoutSlash(p) /\ Obstacles(t, p) = {}
<1> DEFINE node == WithoutSlash(p)
<1>1. Kind(t, node) \in { "absent", "file", "directory", "closed", "locked" }
  BY KindType
<1>2. Kind(t, node) = "file" => node \in P /\ Kind(t, node) = t[node].kind
  BY DEF Kind, Entry, Absent
<1>3. node \in P => Kind(t, node) = t[node].kind
  BY DEF Kind, Entry
<1> HIDE DEF node
<1>4. CASE Obstacles(t, node) # {}
  <2>1. Stat(t, p) # "file"
    BY <1>4, StatCases DEF Errors, node
  <2> QED
    BY <1>4, <2>1 DEF node
<1>5. CASE Obstacles(t, node) = {}
  <2>1. Stat(t, p) = CASE Kind(t, node) = "absent"             -> "ENOENT"
                       [] Kind(t, node) = "file" /\ node # p   -> "ENOTDIR"
                       [] OTHER                                -> Kind(t, node)
    BY <1>5, StatCases DEF node
  <2>2. Stat(t, p) = "file" <=> Kind(t, node) = "file" /\ node = p
    BY <1>1, <2>1
  <2> QED
    BY <1>2, <1>3, <1>5, <2>2 DEF node
<1> QED
  BY <1>4, <1>5

(* Where stat() finds nothing, nothing is. *)
LEMMA NotFoundIsAbsent ==
    ASSUME NEW P, NEW t \in [P -> Entries], NEW n, WellFormed(t, n),
           NEW p \in P, p \in Seq(STRING), p = WithoutSlash(p), Stat(t, p) = "ENOENT"
    PROVE  t[p].kind = "absent"
<1>1. Kind(t, p) = t[p].kind
  BY DEF Kind, Entry
<1>2. CASE Obstacles(t, p) # {}
  <2>1. PICK a \in Ancestors(p) : Kind(t, a) = "absent"
    BY <1>2, StatCases
  <2>2. \A b \in Ancestors(p) : t[p].kind # "absent" => Kind(t, b) \in DirectoryKinds
    BY DEF WellFormed
  <2> QED
    BY <2>1, <2>2 DEF DirectoryKinds
<1>3. CASE Obstacles(t, p) = {}
  <2>1. Stat(t, p) = CASE Kind(t, p) = "absent"             -> "ENOENT"
                       [] Kind(t, p) = "file" /\ p # p      -> "ENOTDIR"
                       [] OTHER                             -> Kind(t, p)
    BY <1>3, StatCases
  <2>2. Kind(t, p) \in { "absent", "file", "directory", "closed", "locked" }
    BY KindType
  <2> QED
    BY <1>1, <2>1, <2>2
<1> QED
  BY <1>2, <1>3

(* The calls look at no more than kinds. *)
LEMMA KindsDecide ==
    ASSUME NEW P, NEW t, NEW u, DOMAIN t = P, DOMAIN u = P, \A q \in P : t[q].kind = u[q].kind, NEW p
    PROVE  /\ Kind(t, p) = Kind(u, p)
           /\ Obstacles(t, p) = Obstacles(u, p)
           /\ Stat(t, p) = Stat(u, p)
           /\ MayCreate(t, p) = MayCreate(u, p)
<1>1. \A q : Kind(t, q) = Kind(u, q)
  BY DEF Kind, Entry
<1>2. \A q : Obstacles(t, q) = Obstacles(u, q)
  BY <1>1 DEF Obstacles
<1>3. \A q : Obstacle(t, q) = Obstacle(u, q)
  BY <1>2 DEF Obstacle
<1>4. Stat(t, p) = Stat(u, p)
  BY <1>1, <1>2, <1>3 DEF Stat
<1>5. MayCreate(t, p) = MayCreate(u, p)
  BY <1>1, <1>2 DEF MayCreate
<1> QED
  BY <1>1, <1>2, <1>4, <1>5

LEMMA MayCreateIs ==
    ASSUME NEW P, NEW t \in [P -> Entries], NEW p \in Seq(STRING), MayCreate(t, p)
    PROVE  /\ p \in P /\ p # << >> /\ p = WithoutSlash(p) /\ t[p].kind = "absent"
           /\ Obstacles(t, p) = {} /\ Stat(t, p) = "ENOENT"
<1>1. /\ p \in P /\ p = WithoutSlash(p) /\ t[p].kind = "absent" /\ Kind(t, p) = "absent"
      /\ Obstacles(t, p) = {} /\ Kind(t, Parent(p)) = "directory"
  BY DEF MayCreate, Kind, Entry
<1>2. p # << >>
  <2> SUFFICES ASSUME p = << >> PROVE FALSE
    OBVIOUS
  <2>1. LastSlash(p) = 0
    <3>1. LastSlash(p) \in 0 .. Len(p)
      BY LastSlashIs
    <3>2. Len(p) = 0
      OBVIOUS
    <3> QED
      BY <3>1, <3>2
  <2>2. Parent(p) = << >>
    BY <1>1, <2>1 DEF Parent
  <2> QED
    BY <1>1, <2>2
<1>3. Stat(t, p) = "ENOENT"
  BY <1>1, StatCases
<1> QED
  BY <1>1, <1>2, <1>3

LEMMA MoreInodes ==
    ASSUME NEW t, NEW n \in Nat, WellFormed(t, n), NEW m \in Nat, n =< m
    PROVE  WellFormed(t, m)
<1>1. \A i \in 1 .. n : i \in 1 .. m
  OBVIOUS
<1> QED
  BY <1>1 DEF WellFormed

(* Nothing is lost from the order of things when something is made ... *)
LEMMA MadeIsWellFormed ==
    ASSUME NEW P, \A p \in P : p \in Seq(STRING),
           NEW t \in [P -> Entries], NEW n \in Nat, WellFormed(t, n),
           NEW p \in P, MayCreate(t, p)
    PROVE  /\ [t EXCEPT ![p] = File(n + 1)] \in [P -> Entries]
           /\ WellFormed([t EXCEPT ![p] = File(n + 1)], n + 1)
           /\ [t EXCEPT ![p] = Directory] \in [P -> Entries]
           /\ WellFormed([t EXCEPT ![p] = Directory], n)
<1>1. p # << >> /\ t[p].kind = "absent" /\ Obstacles(t, p) = {}
  BY MayCreateIs
<1>2. ASSUME NEW e \in Entries, NEW q \in P, [t EXCEPT ![p] = e][q].kind # "absent"
      PROVE  \A a \in Ancestors(q) : Kind([t EXCEPT ![p] = e], a) \in DirectoryKinds
  <2> DEFINE u == [t EXCEPT ![p] = e]
  <2> SUFFICES ASSUME NEW a \in Ancestors(q) PROVE Kind(u, a) \in DirectoryKinds
    OBVIOUS
  <2>1. Kind(t, a) \in DirectoryKinds
    <3>1. CASE q = p
      <4>1. Kind(t, a) \in { "directory", "closed" }
        BY <1>1, <3>1 DEF Obstacles
      <4> QED
        BY <4>1 DEF DirectoryKinds
    <3>2. CASE q # p
      <4>1. t[q].kind # "absent"
        BY <1>2, <3>2
      <4> QED
        BY <4>1 DEF WellFormed
    <3> QED
      BY <3>1, <3>2
  <2>2. a # p
    BY <1>1, <2>1 DEF Kind, Entry, DirectoryKinds
  <2> QED
    BY <2>1, <2>2 DEF Kind, Entry
<1>3. File(n + 1) \in Entries /\ Directory \in Entries
  BY DEF File, Directory, Entries
<1>4. WellFormed([t EXCEPT ![p] = File(n + 1)], n + 1)
  <2> DEFINE u == [t EXCEPT ![p] = File(n + 1)]
  <2>1. DOMAIN u = P /\ u[p] = File(n + 1) /\ \A q \in P \ {p} : u[q] = t[q]
    OBVIOUS
  <2>2. \A q \in P : u[q].kind # "absent" => \A a \in Ancestors(q) : Kind(u, a) \in DirectoryKinds
    BY <1>2, <1>3
  <2> HIDE DEF u
  <2>3. \A q \in P \ {p} : t[q].kind = "file" => q # << >> /\ t[q].inode \in 1 .. n
    BY DEF WellFormed
  <2>4. \A q, r \in P : q # r /\ t[q].kind = "file" /\ t[r].kind = "file" => t[q].inode # t[r].inode
    BY DEF WellFormed
  <2>5. u[p].kind = "file" /\ u[p].inode = n + 1
    BY <2>1 DEF File
  <2>6. ASSUME NEW q \in P, u[q].kind = "file"
        PROVE  q # << >> /\ u[q].inode \in 1 .. n + 1
               /\ \A r \in P \ {q} : u[r].kind = "file" => u[r].inode # u[q].inode
    <3>1. CASE q = p
      BY <1>1, <2>1, <2>3, <2>5, <3>1
    <3>2. CASE q # p
      <4>1. u[q] = t[q] /\ t[q].inode \in 1 .. n /\ q # << >>
        BY <2>1, <2>3, <2>6, <3>2
      <4>2. ASSUME NEW r \in P \ {q}, u[r].kind = "file" PROVE u[r].inode # u[q].inode
        <5>1. CASE r = p
          BY <2>5, <4>1, <5>1
        <5>2. CASE r # p
          <6>1. u[r] = t[r]
            BY <2>1, <5>2
          <6> QED
            BY <2>4, <2>6, <4>1, <4>2, <6>1
        <5> QED
          BY <5>1, <5>2
      <4> QED
        BY <4>1, <4>2
    <3> QED
      BY <3>1, <3>2
  <2>7. WellFormed(u, n + 1)
    BY <2>1, <2>2, <2>6 DEF WellFormed
  <2> QED
    BY <2>7 DEF u
<1>5. WellFormed([t EXCEPT ![p] = Directory], n)
  <2> DEFINE u == [t EXCEPT ![p] = Directory]
  <2>1. DOMAIN u = P /\ u[p].kind = "directory" /\ \A q \in P \ {p} : u[q] = t[q]
    BY DEF Directory
  <2>2. \A q \in P : u[q].kind # "absent" => \A a \in Ancestors(q) : Kind(u, a) \in DirectoryKinds
    BY <1>2, <1>3
  <2> HIDE DEF u
  <2>3. ASSUME NEW q \in P, u[q].kind = "file"
        PROVE  q # << >> /\ u[q].inode \in 1 .. n
               /\ \A r \in P \ {q} : u[r].kind = "file" => u[r].inode # u[q].inode
    <3>1. q # p /\ t[q].kind = "file" /\ u[q] = t[q]
      BY <2>1, <2>3
    <3>2. \A r \in P \ {q} : u[r].kind = "file" => u[r] = t[r]
      BY <2>1
    <3> QED
      BY <3>1, <3>2 DEF WellFormed
  <2>4. WellFormed(u, n)
    BY <2>1, <2>2, <2>3 DEF WellFormed
  <2> QED
    BY <2>4 DEF u
<1> QED
  BY <1>3, <1>4, <1>5

(* ... or removed that nothing lies in. *)
LEMMA RemovedIsWellFormed ==
    ASSUME NEW P, NEW t \in [P -> Entries], NEW n, WellFormed(t, n), NEW p \in P,
           \A q \in P : t[q].kind # "absent" => p \notin Ancestors(q)
    PROVE  /\ [t EXCEPT ![p] = Absent] \in [P -> Entries]
           /\ WellFormed([t EXCEPT ![p] = Absent], n)
<1> DEFINE u == [t EXCEPT ![p] = Absent]
<1>1. Absent \in Entries
  BY DEF Absent, Entries
<1>2. u \in [P -> Entries]
  BY <1>1
<1>3. DOMAIN u = P /\ u[p].kind = "absent" /\ \A q \in P \ {p} : u[q] = t[q]
  BY DEF Absent
<1> HIDE DEF u
<1>4. ASSUME NEW q \in P, u[q].kind # "absent"
      PROVE  \A a \in Ancestors(q) : Kind(u, a) \in DirectoryKinds
  <2>1. q # p /\ t[q].kind # "absent"
    BY <1>3, <1>4
  <2>2. \A a \in Ancestors(q) : a # p /\ Kind(t, a) \in DirectoryKinds
    BY <2>1 DEF WellFormed
  <2>3. \A a \in Ancestors(q) : Kind(u, a) = Kind(t, a)
    BY <1>3, <2>2 DEF Kind, Entry
  <2> QED
    BY <2>2, <2>3
<1>5. ASSUME NEW q \in P, u[q].kind = "file"
      PROVE  q # << >> /\ u[q].inode \in 1 .. n
             /\ \A r \in P \ {q} : u[r].kind = "file" => u[r].inode # u[q].inode
  <2>1. q # p /\ t[q].kind = "file" /\ u[q] = t[q]
    BY <1>3, <1>5
  <2>2. \A r \in P \ {q} : u[r].kind = "file" => u[r] = t[r]
    BY <1>3
  <2> QED
    BY <2>1, <2>2 DEF WellFormed
<1>6. WellFormed(u, n)
  BY <1>3, <1>4, <1>5 DEF WellFormed
<1> QED
  BY <1>2, <1>6 DEF u

LEMMA FilesHoldNothing ==
    ASSUME NEW P, NEW t \in [P -> Entries], NEW n, WellFormed(t, n), NEW p \in P, t[p].kind \in { "file", "absent" },
           NEW q \in P, t[q].kind # "absent"
    PROVE  p \notin Ancestors(q)
<1>1. Kind(t, p) \notin DirectoryKinds
  BY DEF Kind, Entry, DirectoryKinds
<1>2. \A a \in Ancestors(q) : Kind(t, a) \in DirectoryKinds
  BY DEF WellFormed
<1> QED
  BY <1>1, <1>2

(* What lies deep in a directory lies in something that lies in it. *)
LEMMA EmptyHoldNothing ==
    ASSUME NEW P, \A p \in P : p \in Seq(STRING) /\ ~ EndsInSlash(p),
           NEW t \in [P -> Entries], NEW n, WellFormed(t, n),
           NEW p \in P, Inside(t, p) = {},
           NEW q \in P, t[q].kind # "absent"
    PROVE  p \notin Ancestors(q)
<1> SUFFICES ASSUME p \in Ancestors(q) PROVE FALSE
  OBVIOUS
<1>1. q \in Seq(STRING) /\ p \in Seq(STRING)
  OBVIOUS
<1>2. PICK i \in 2 .. Len(q) : /\ q[i] = "/" /\ p = SubSeq(q, 1, i - 1)
                               /\ Len(p) = i - 1 /\ \A j \in 1 .. i - 1 : p[j] = q[j]
  BY <1>1, AncestorsType
<1> DEFINE J == { j \in i + 1 .. Len(q) : q[j] = "/" }
<1>3. PICK a \in P : /\ t[a].kind # "absent" /\ Len(a) >= i
                     /\ \A k \in 1 .. Len(a) : a[k] = q[k]
                     /\ \A k \in i + 1 .. Len(a) : q[k] # "/"
  <2>1. CASE J = {}
    <3>1. Len(q) >= i /\ \A k \in i + 1 .. Len(q) : q[k] # "/"
      BY <1>1, <1>2, <2>1
    <3> QED
      BY <3>1
  <2>2. CASE J # {}
    <3>1. J \in SUBSET Nat
      BY <1>1
    <3> DEFINE m == Min(J)
    <3>2. m \in J /\ \A j \in J : m =< j
      <4> HIDE DEF J
      <4> QED
        BY <2>2, <3>1, MinExists
    <3> HIDE DEF m
    <3>3. m \in i + 1 .. Len(q) /\ m \in 2 .. Len(q) /\ q[m] = "/" /\ m - 1 >= i
      BY <1>1, <3>2
    <3> DEFINE a == SubSeq(q, 1, m - 1)
    <3>4. a \in Ancestors(q)
      BY <1>1, <3>3, AncestorOf
    <3>5. Len(a) = m - 1 /\ \A k \in 1 .. m - 1 : a[k] = q[k]
      BY <1>1, <3>3
    <3> HIDE DEF a
    <3>6. Kind(t, a) \in DirectoryKinds
      BY <3>4 DEF WellFormed
    <3>7. a \in P /\ t[a].kind # "absent"
      BY <3>6 DEF Kind, Entry, DirectoryKinds, Absent
    <3>8. \A k \in i + 1 .. m - 1 : q[k] # "/"
      <4> SUFFICES ASSUME NEW k \in i + 1 .. m - 1, q[k] = "/" PROVE FALSE
        OBVIOUS
      <4>1. k \in J
        BY <1>1, <3>3
      <4>2. m =< k /\ k =< m - 1 /\ m \in Nat /\ k \in Nat
        BY <1>1, <3>2, <3>3, <4>1
      <4> QED
        BY <4>2
    <3>9. Len(a) >= i
      BY <3>3, <3>5
    <3> QED
      BY <3>5, <3>7, <3>8, <3>9
  <2> QED
    BY <2>1, <2>2
<1>4. a \in Seq(STRING) /\ ~ EndsInSlash(a) /\ WithoutSlash(a) = a
  BY WithoutSlashType
<1>5. LastSlash(a) = i
  <2>1. i \in 1 .. Len(a) /\ a[i] = "/"
    BY <1>2, <1>3, <1>4
  <2>2. LastSlash(a) \in 1 .. Len(a) /\ i =< LastSlash(a) /\ a[LastSlash(a)] = "/"
    BY <1>4, <2>1, LastSlashIs
  <2>3. LastSlash(a) \notin i + 1 .. Len(a)
    BY <1>3, <2>2
  <2> QED
    BY <1>2, <2>2, <2>3
<1>6. Parent(a) = p
  <2> DEFINE b == SubSeq(a, 1, i - 1)
  <2>1. b \in Seq(STRING) /\ Len(b) = i - 1 /\ \A j \in 1 .. i - 1 : b[j] = a[j]
    BY <1>2, <1>3, <1>4
  <2>2. \A j \in 1 .. i - 1 : a[j] = q[j]
    BY <1>2, <1>3, <1>4
  <2>3. Parent(a) = b
    BY <1>4, <1>5 DEF Parent
  <2> HIDE DEF b
  <2>4. b = p
    BY <1>1, <1>2, <2>1, <2>2
  <2> QED
    BY <2>3, <2>4
<1>7. a \in Inside(t, p)
  BY <1>3, <1>6 DEF Inside
<1> QED
  BY <1>7

-----------------------------------------------------------------------------
(* The inductive invariant. *)

Steps == { "idle", "index", "assign", "cgi", "get", "kind", "open", "list", "entries",
           "subdir", "look", "create", "write", "find", "regular", "remove" }

ReplyType == [ status : Nat, inode : Nat, length : Nat, shown : Seq(Pieces), sent : BOOLEAN, body : Seq(Pieces) ]

FilesOK ==
    /\ tree \in [Paths -> Entries] /\ data \in Seq(Seq(Pieces)) /\ space \in Nat
    /\ scenario.sealed \subseteq 1 .. Len(data)
    /\ WellFormed(tree, Len(data))

TypeOK ==
    /\ scenario \in Scenarios /\ outsiders \in Nat
    /\ FilesOK
    /\ client \in Clients \cup {NoClient} /\ at \in Steps
    /\ path \in Seq(STRING) /\ turn \in Nat \ {0}
    /\ generate \in BOOLEAN /\ created \in BOOLEAN /\ disturbed \in BOOLEAN
    /\ replies \in [Clients -> ReplyType]

(* Between two requests nothing is left of the first. *)
IdleOK ==
    /\ at = "idle" <=> client = NoClient
    /\ at = "idle" => NoRequest

(* A reply announces what a file began with, and still does. *)
ReplyOK(r, contents) ==
    /\ r.inode \in 0 .. Len(contents)
    /\ r.inode # 0 => r.length = Len(r.shown) /\ IsPrefix(r.shown, contents[r.inode])
    /\ ~ r.sent => r.body = << >>
    /\ r.sent /\ r.inode # 0 => IsPrefix(r.shown, r.body)

RepliesOK ==
    /\ \A c \in Clients : ReplyOK(replies[c], data)
    /\ client # NoClient => replies[client] = NoReply
    /\ at = "create" /\ path \in Paths /\ tree[path].kind = "file" =>
          \A c \in Clients : replies[c].inode # tree[path].inode

AskedPath == CleanUpPath(Located(target, scenario.requests[client].path))

(* A request that index files are looked for. *)
IsForDirectory == EndsInSlash(AskedPath) /\ Method = "GET" /\ ~ IsSet(target["cgi_pass"])

SelectedTarget ==
    \E server \in { ServerSelection(scenario.servers, scenario.requests[client].host,
                                    scenario.requests[client].port) } :
       target = TargetConfig(server, LocationSelection(server, scenario.requests[client].path))

(* Its path is what was asked for, or one of the index files there. *)
PathAt(step) ==
    IF step = "index"
       THEN IsForDirectory /\ path = Located(target, scenario.requests[client].path) /\ ~ generate
       ELSE \/ path = AskedPath /\ (generate => IsForDirectory)
            \/ IsForDirectory /\ ~ generate /\ (IsPrefix(AskedPath, path) \/ (path = << >> /\ step = "assign"))

(* Each step is one of its method. *)
StepAt(step) ==
    /\ step \in { "get", "kind", "open" } => Method = "GET"
    /\ step \in { "list", "entries" } => generate
    /\ step \in { "subdir", "look", "create", "write" } => Method = "POST"
    /\ step \in { "find", "regular", "remove" } => Method = "DELETE"
    /\ step \notin { "index", "assign", "cgi" } => ~ IsSet(target["cgi_pass"]) /\ path # << >>
    /\ step \notin { "index", "assign", "list", "entries" } => ~ generate
    /\ step = "cgi" => IsSet(target["cgi_pass"])
    /\ step \in { "look", "create", "write" } => LastSlash(path) # 0
    /\ step = "remove" => path = WithoutSlash(path)
    /\ created => step = "write"

RequestOK ==
    client # NoClient =>
       /\ SelectedTarget /\ IsTarget(target)
       /\ IsAllowedMethod(target, Method) /\ ~ IsSet(target["return"])
       /\ PathAt(at) /\ StepAt(at)

(* What anybody finds at a path. *)
Held(kind, content, sealed) == [kind |-> kind, content |-> content, sealed |-> sealed]

BeforeTree == [p \in Paths |-> [kind |-> before.files[p].kind, inode |-> 0]]

(* While nobody interferes, the files are as they were when the request came, *)
(* but for the file that it has made.                                      *)
HiddenFiles ==
    /\ before.space = space
    /\ ~ created => before.files = Files
    /\ created => /\ path \in Paths /\ MayCreate(BeforeTree, path)
                  /\ before.files = [Files EXCEPT ![path] = Held("absent", << >>, FALSE)]
                  /\ Files[path] = Held("file", << >>, FALSE)

(* ... and what the last call said of them is still so. *)
HiddenAt(step) ==
    /\ step \in { "kind", "open", "regular" } => IsThere(tree, path)
    /\ step = "open" => ~ IsDirectory(tree, path)
    /\ step = "entries" => IsDirectory(tree, path)
    /\ step = "create" => Stat(tree, path) = "ENOENT"
    /\ step = "write" /\ ~ created => Stat(tree, path) # "ENOENT"
    /\ step = "remove" => Stat(tree, path) = "file"

HiddenOK == client # NoClient /\ ~ disturbed => HiddenFiles /\ HiddenAt(at)

IInv == TypeOK /\ IdleOK /\ RepliesOK /\ RequestOK /\ HiddenOK

-----------------------------------------------------------------------------
(* What happens to the files. *)

LEMMA PathsLemma ==
    \A p \in Paths : p \in Seq(STRING) /\ ~ EndsInSlash(p) /\ WithoutSlash(p) = p
  BY PathsAssumption, WithoutSlashType

LEMMA FilesType ==
    ASSUME FilesOK
    PROVE  /\ Files \in [Paths -> [kind : DirectoryKinds \cup { "absent", "file" },
                                   content : Seq(Pieces), sealed : BOOLEAN]]
           /\ \A p \in Paths : /\ Files[p].kind = tree[p].kind
                               /\ tree[p].kind = "file" => /\ tree[p].inode \in 1 .. Len(data)
                                                           /\ Files[p].content = data[tree[p].inode]
                                                           /\ Files[p].sealed <=> tree[p].inode \in scenario.sealed
                               /\ tree[p].kind # "file" => Files[p] = Held(tree[p].kind, << >>, FALSE)
<1>1. ASSUME NEW p \in Paths, tree[p].kind = "file" PROVE tree[p].inode \in 1 .. Len(data)
  BY <1>1 DEF FilesOK, WellFormed
<1>2. \A i \in 1 .. Len(data) : data[i] \in Seq(Pieces)
  BY DEF FilesOK
<1>3. \A p \in Paths : tree[p].kind \in DirectoryKinds \cup { "absent", "file" }
  BY DEF FilesOK, Entries, DirectoryKinds
<1>4. ASSUME NEW p \in Paths
      PROVE  /\ Files[p] \in [kind : DirectoryKinds \cup { "absent", "file" },
                              content : Seq(Pieces), sealed : BOOLEAN]
             /\ Files[p].kind = tree[p].kind
             /\ tree[p].kind = "file" => /\ tree[p].inode \in 1 .. Len(data)
                                         /\ Files[p].content = data[tree[p].inode]
                                         /\ Files[p].sealed <=> tree[p].inode \in scenario.sealed
             /\ tree[p].kind # "file" => Files[p] = Held(tree[p].kind, << >>, FALSE)
  <2>1. CASE tree[p].kind = "file"
    <3>1. data[tree[p].inode] \in Seq(Pieces)
      BY <1>1, <1>2, <2>1
    <3>2. Files[p] = [kind |-> "file", content |-> data[tree[p].inode], sealed |-> tree[p].inode \in scenario.sealed]
      BY <2>1 DEF Files
    <3>3. (tree[p].inode \in scenario.sealed) \in BOOLEAN
      OBVIOUS
    <3> DEFINE b == tree[p].inode \in scenario.sealed
               v == data[tree[p].inode]
    <3>4. /\ Files[p] = [kind |-> "file", content |-> v, sealed |-> b]
          /\ b \in BOOLEAN /\ v \in Seq(Pieces)
      BY <3>1, <3>2, <3>3
    <3> HIDE DEF b, v, Files
    <3>5. /\ Files[p] \in [kind : DirectoryKinds \cup { "absent", "file" },
                            content : Seq(Pieces), sealed : BOOLEAN]
          /\ Files[p].kind = "file" /\ Files[p].content = v /\ Files[p].sealed = b
      BY <3>4
    <3> QED
      BY <1>1, <2>1, <3>5 DEF b, v
  <2>2. CASE tree[p].kind # "file"
    <3>1. Files[p] = Held(tree[p].kind, << >>, FALSE)
      BY <2>2 DEF Files, Held
    <3>2. << >> \in Seq(Pieces)
      OBVIOUS
    <3> QED
      BY <1>3, <2>2, <3>1, <3>2 DEF Held
  <2> QED
    BY <2>1, <2>2
<1>5. DOMAIN Files = Paths /\ Files = [p \in Paths |-> Files[p]]
  BY DEF Files
<1> HIDE DEF Files
<1> QED
  BY <1>4, <1>5

LEMMA FilesChange ==
    ASSUME NEW p \in Paths, NEW v, Files'[p] = v, \A q \in Paths \ {p} : Files'[q] = Files[q]
    PROVE  Files' = [Files EXCEPT ![p] = v]
  BY ZenonT(60) DEF Files

(* A file is made. *)
LEMMA FileMade ==
    ASSUME FilesOK, NEW p \in Paths, MayCreate(tree, p), NEW content \in Seq(Pieces),
           tree' = [tree EXCEPT ![p] = File(Len(data) + 1)], data' = Append(data, content),
           scenario' = scenario, space' \in Nat
    PROVE  /\ FilesOK'
           /\ Len(data') = Len(data) + 1
           /\ \A i \in 1 .. Len(data) : data'[i] = data[i]
           /\ tree'[p].kind = "file" /\ tree'[p].inode = Len(data) + 1
           /\ Files' = [Files EXCEPT ![p] = Held("file", content, FALSE)]
<1>1. Len(data) \in Nat /\ data \in Seq(Seq(Pieces)) /\ tree \in [Paths -> Entries] /\ WellFormed(tree, Len(data))
  BY DEF FilesOK
<1>2. /\ data' \in Seq(Seq(Pieces)) /\ Len(data') = Len(data) + 1
      /\ data'[Len(data) + 1] = content
      /\ \A i \in 1 .. Len(data) : data'[i] = data[i]
  BY <1>1
<1>3. tree' \in [Paths -> Entries] /\ WellFormed(tree', Len(data) + 1)
  <2>1. \A q \in Paths : q \in Seq(STRING)
    BY PathsLemma
  <2> QED
    BY <1>1, <2>1, MadeIsWellFormed
<1>4. scenario'.sealed \subseteq 1 .. Len(data) /\ 1 .. Len(data) \subseteq 1 .. Len(data')
  BY <1>1, <1>2 DEF FilesOK
<1>5. FilesOK'
  BY <1>2, <1>3, <1>4 DEF FilesOK
<1>6. tree'[p] = File(Len(data) + 1) /\ \A q \in Paths \ {p} : tree'[q] = tree[q]
  BY <1>1
<1>7. tree'[p].kind = "file" /\ tree'[p].inode = Len(data) + 1
  BY <1>6 DEF File
<1>8. Len(data) + 1 \notin scenario.sealed
  BY <1>1 DEF FilesOK
<1>9. ASSUME NEW q \in Paths \ {p} PROVE Files'[q] = Files[q]
  <2>1. tree'[q] = tree[q]
    BY <1>6
  <2>2. tree[q].kind = "file" => tree[q].inode \in 1 .. Len(data)
    BY FilesType
  <2>3. tree[q].kind = "file" => data'[tree[q].inode] = data[tree[q].inode]
    BY <1>2, <2>2
  <2> QED
    BY <2>1, <2>3 DEF Files
<1>10. Files'[p] = Held("file", content, FALSE)
  BY <1>2, <1>7, <1>8 DEF Files, Held
<1>11. Files' = [Files EXCEPT ![p] = Held("file", content, FALSE)]
  BY <1>9, <1>10, ZenonT(60) DEF Files
<1> QED
  BY <1>2, <1>5, <1>7, <1>11

(* A file gets another content. *)
LEMMA FileFilled ==
    ASSUME FilesOK, NEW p \in Paths, tree[p].kind = "file", NEW content \in Seq(Pieces),
           tree' = tree, data' = [data EXCEPT ![tree[p].inode] = content],
           scenario' = scenario, space' \in Nat
    PROVE  /\ FilesOK'
           /\ Len(data') = Len(data)
           /\ \A i \in 1 .. Len(data) : data'[i] = IF i = tree[p].inode THEN content ELSE data[i]
           /\ Files' = [Files EXCEPT ![p] = Held("file", content, Files[p].sealed)]
<1>1. Len(data) \in Nat /\ data \in Seq(Seq(Pieces)) /\ tree[p].inode \in 1 .. Len(data)
  <2>1. tree[p].inode \in 1 .. Len(data)
    BY FilesType
  <2> QED
    BY <2>1 DEF FilesOK
<1>2. /\ data' \in Seq(Seq(Pieces)) /\ Len(data') = Len(data)
      /\ \A i \in 1 .. Len(data) : data'[i] = IF i = tree[p].inode THEN content ELSE data[i]
  BY <1>1
<1>3. FilesOK'
  BY <1>2 DEF FilesOK
<1>4. ASSUME NEW q \in Paths \ {p} PROVE Files'[q] = Files[q]
  <2>1. CASE tree[q].kind = "file"
    <3>1. tree[q].inode \in 1 .. Len(data) /\ tree[q].inode # tree[p].inode
      BY <2>1 DEF FilesOK, WellFormed
    <3>2. data'[tree[q].inode] = data[tree[q].inode]
      BY <1>2, <3>1
    <3> QED
      BY <2>1, <3>2 DEF Files
  <2>2. CASE tree[q].kind # "file"
    BY <2>2 DEF Files
  <2> QED
    BY <2>1, <2>2
<1>5. data'[tree[p].inode] = content
  BY <1>1, <1>2
<1>6. Files'[p] = Held("file", content, Files[p].sealed)
  BY <1>5 DEF Files, Held
<1>7. Files' = [Files EXCEPT ![p] = Held("file", content, Files[p].sealed)]
  BY <1>4, <1>6, FilesChange
<1> QED
  BY <1>2, <1>3, <1>7

(* A file, or a directory in which nothing is, goes. *)
LEMMA PathRemoved ==
    ASSUME FilesOK, NEW p \in Paths, tree[p].kind = "file" \/ Inside(tree, p) = {},
           tree' = [tree EXCEPT ![p] = Absent], data' = data,
           scenario' = scenario, space' \in Nat
    PROVE  FilesOK' /\ Files' = [Files EXCEPT ![p] = Held("absent", << >>, FALSE)]
<1>1. tree \in [Paths -> Entries] /\ WellFormed(tree, Len(data))
  BY DEF FilesOK
<1>2. \A q \in Paths : tree[q].kind # "absent" => p \notin Ancestors(q)
  <2>1. \A q \in Paths : q \in Seq(STRING) /\ ~ EndsInSlash(q)
    BY PathsLemma
  <2>2. CASE tree[p].kind = "file"
    BY <1>1, <2>2, FilesHoldNothing
  <2>3. CASE Inside(tree, p) = {}
    BY <1>1, <2>1, <2>3, EmptyHoldNothing
  <2> QED
    BY <2>2, <2>3
<1>3. tree' \in [Paths -> Entries] /\ WellFormed(tree', Len(data))
  BY <1>1, <1>2, RemovedIsWellFormed
<1>4. FilesOK'
  BY <1>3 DEF FilesOK
<1>5. tree'[p] = Absent /\ \A q \in Paths \ {p} : tree'[q] = tree[q]
  BY <1>1
<1>6. Files' = [Files EXCEPT ![p] = Held("absent", << >>, FALSE)]
  <2>1. \A q \in Paths \ {p} : Files'[q] = Files[q]
    BY <1>5 DEF Files
  <2>2. Files'[p] = Held("absent", << >>, FALSE)
    <3>1. tree'[p].kind = "absent"
      BY <1>5 DEF Absent
    <3>2. Files'[p] = [kind |-> "absent", content |-> << >>, sealed |-> FALSE]
      BY <3>1 DEF Files
    <3> QED
      BY <3>2 DEF Held
  <2> QED
    BY <2>1, <2>2, FilesChange
<1> QED
  BY <1>4, <1>6

LEMMA DirectoryMade ==
    ASSUME FilesOK, NEW p \in Paths, MayCreate(tree, p),
           tree' = [tree EXCEPT ![p] = Directory], data' = data,
           scenario' = scenario, space' \in Nat
    PROVE  FilesOK' /\ \A q \in Paths \ {p} : Files'[q] = Files[q]
<1>1. tree \in [Paths -> Entries] /\ WellFormed(tree, Len(data)) /\ Len(data) \in Nat
  BY DEF FilesOK
<1>2. tree' \in [Paths -> Entries] /\ WellFormed(tree', Len(data))
  <2>1. \A q \in Paths : q \in Seq(STRING)
    BY PathsLemma
  <2> QED
    BY <1>1, <2>1, MadeIsWellFormed
<1>3. FilesOK'
  BY <1>2 DEF FilesOK
<1>4. \A q \in Paths \ {p} : tree'[q] = tree[q]
  BY <1>1
<1> QED
  BY <1>3, <1>4 DEF Files

-----------------------------------------------------------------------------
(* Requests, and the targets they have. *)

LEMMA ScenarioType ==
    ASSUME scenario \in Scenarios
    PROVE  /\ scenario.servers \in Seq(ToSet(scenario.servers)) /\ scenario.servers # << >>
           /\ \A i \in DOMAIN scenario.servers : IsServer(scenario.servers[i])
           /\ \A c \in Clients :
                 /\ scenario.requests[c].method \in { "GET", "POST", "DELETE" }
                 /\ scenario.requests[c].path \in Seq(STRING) /\ scenario.requests[c].path # << >>
                 /\ scenario.requests[c].path[1] = "/"
                 /\ scenario.requests[c].body \in Seq(Pieces)
<1>1. IsScenario(scenario)
  BY ScenariosAssumption
<1>2. \A i \in DOMAIN scenario.servers : scenario.servers[i] \in ToSet(scenario.servers)
  BY DEF ToSet
<1>3. \A c \in Clients : scenario.requests[c] \in Requests
  BY <1>1 DEF IsScenario
<1>4. ASSUME NEW c \in Clients
      PROVE  /\ scenario.requests[c].method \in { "GET", "POST", "DELETE" }
             /\ scenario.requests[c].path \in Seq(STRING) /\ scenario.requests[c].path # << >>
             /\ scenario.requests[c].path[1] = "/"
             /\ scenario.requests[c].body \in Seq(Pieces)
  BY <1>3 DEF Requests
<1> QED
  BY <1>1, <1>2, <1>4 DEF IsScenario

(* The server and the location of a request, as they were asked for. *)
LEMMA Selected ==
    ASSUME scenario \in Scenarios, NEW c \in Clients
    PROVE  LET r      == scenario.requests[c]
               i      == FirstNamed(scenario.servers, Candidate(scenario.servers, r.port), r.host)
               server == ServerSelection(scenario.servers, r.host, r.port)
           IN  /\ i \in DOMAIN scenario.servers /\ server = scenario.servers[i]
               /\ \E l \in DOMAIN server.locations :
                     /\ LocationSelection(server, r.path) = server.locations[l]
                     /\ IsLocationFor(server.locations, l, r.path)
               /\ IsTarget(TargetConfig(server, LocationSelection(server, r.path)))
<1> DEFINE r      == scenario.requests[c]
           i      == FirstNamed(scenario.servers, Candidate(scenario.servers, r.port), r.host)
           server == ServerSelection(scenario.servers, r.host, r.port)
<1>1. /\ scenario.servers \in Seq(ToSet(scenario.servers)) /\ scenario.servers # << >>
      /\ \A k \in DOMAIN scenario.servers : IsServer(scenario.servers[k])
      /\ r.path \in Seq(STRING) /\ r.path # << >> /\ r.path[1] = "/"
  BY ScenarioType
<1>2. i \in DOMAIN scenario.servers /\ server = scenario.servers[i]
  <2> HIDE DEF r
  <2> QED
    BY <1>1, ServerSelected
<1>3. IsServer(server)
  BY <1>1, <1>2
<1> HIDE DEF server, r, i
<1> DEFINE S == ToSet(server.locations)
<1>4. server.locations \in Seq(S) /\ \A l \in S : l.uri \in Seq(STRING) /\ IsTarget(TargetConfig(server, l))
  <2>1. server.locations \in Seq(S) /\ \A l \in S : IsTarget(TargetConfig(server, l))
    BY <1>3 DEF IsServer
  <2>2. ASSUME NEW l \in S PROVE TargetConfig(server, l)["uri"] = l.uri
    <3>1. "uri" \in LocationKeysOnly \cup InheritedKeys \cup { "uri" } /\ "uri" \notin LocationKeysOnly
          /\ "uri" \notin InheritedKeys
      BY DEF LocationKeysOnly, InheritedKeys
    <3> QED
      BY <3>1, Zenon DEF TargetConfig
  <2> QED
    BY <2>1, <2>2 DEF IsTarget
<1>5. \E l \in DOMAIN server.locations : IsPrefix(server.locations[l].uri, r.path)
  <2>1. PICK l \in DOMAIN server.locations : server.locations[l].uri = << "/" >>
    BY <1>3 DEF IsServer, ToSet
  <2> DEFINE root == << "/" >>
  <2>2. root \in Seq(STRING) /\ Len(root) = 1 /\ root[1] = "/"
    <3> DEFINE x == r.path[1]
    <3>1. x \in STRING
      BY <1>1
    <3> HIDE DEF x
    <3>2. << x >> \in Seq(STRING) /\ Len(<< x >>) = 1 /\ << x >>[1] = x
      BY <3>1, Singleton
    <3>3. x = "/"
      BY <1>1 DEF x
    <3> QED
      BY <3>2, <3>3
  <2>3. Len(r.path) >= 1
    BY <1>1
  <2> HIDE DEF root
  <2>4. IsPrefix(root, r.path)
    <3>1. \A k \in 1 .. Len(root) : root[k] = r.path[k]
      BY <1>1, <2>2
    <3> QED
      BY <1>1, <2>2, <2>3, <3>1, PrefixByElements
  <2> QED
    BY <2>1, <2>4 DEF root
<1>6. PICK l \in DOMAIN server.locations :
         /\ LocationSelection(server, r.path) = server.locations[l]
         /\ IsPrefix(server.locations[l].uri, r.path)
         /\ \A k \in DOMAIN server.locations :
               IsPrefix(server.locations[k].uri, r.path)
                  => Len(server.locations[k].uri) =< Len(server.locations[l].uri)
  <2> HIDE DEF S
  <2> QED
    BY <1>4, <1>5, LocationSelected
<1>7. IsLocationFor(server.locations, l, r.path)
  BY <1>6 DEF IsLocationFor
<1>8. IsTarget(TargetConfig(server, LocationSelection(server, r.path)))
  <2>1. server.locations[l] \in S
    BY DEF ToSet
  <2> HIDE DEF S
  <2> QED
    BY <1>4, <1>6, <2>1
<1> QED
  BY <1>2, <1>6, <1>7, <1>8 DEF server, r, i

LEMMA AskedPathType ==
    ASSUME NEW p \in Seq(STRING), p # << >>, NEW config, IsTarget(config)
    PROVE  /\ Located(config, p) \in Seq(STRING) /\ Located(config, p) # << >>
           /\ CleanUpPath(Located(config, p)) \in Seq(STRING)
           /\ CleanUpPath(Located(config, p)) # << >>
           /\ EndsInSlash(CleanUpPath(Located(config, p))) <=> EndsInSlash(Located(config, p))
<1>1. config["uri"] \in Seq(STRING) /\ config["alias"] \in Seq(STRING) /\ config["root"] \in Seq(STRING)
  BY DEF IsTarget
<1>2. Located(config, p) \in Seq(STRING) /\ Located(config, p) # << >>
  BY <1>1, LocatedType
<1> QED
  BY <1>2, CleanUpPathEnd

-----------------------------------------------------------------------------
(* The steps keep the invariant. *)

Quiet == UNCHANGED << scenario, fileSystem, outsiders >>

LEMMA NoRequestType ==
    ASSUME NoRequest
    PROVE  /\ client \in Clients \cup {NoClient} /\ at \in Steps
           /\ path \in Seq(STRING) /\ turn \in Nat \ {0}
           /\ generate \in BOOLEAN /\ created \in BOOLEAN /\ disturbed \in BOOLEAN
<1>1. << >> \in Seq(STRING)
  OBVIOUS
<1>2. path \in Seq(STRING)
  BY <1>1 DEF NoRequest
<1>3. at \in Steps
  BY DEF NoRequest, Steps
<1>4. turn \in Nat \ {0} /\ client \in Clients \cup {NoClient}
  BY DEF NoRequest
<1>5. generate \in BOOLEAN /\ created \in BOOLEAN /\ disturbed \in BOOLEAN
  BY DEF NoRequest
<1> QED
  BY <1>2, <1>3, <1>4, <1>5

LEMMA InitIInv == Init => IInv
<1> SUFFICES ASSUME Init PROVE IInv
  OBVIOUS
<1>1. IsScenario(scenario)
  BY ScenariosAssumption DEF Init
<1>2. FilesOK
  BY <1>1 DEF Init, IsScenario, FilesOK
<1>3. NoReply \in ReplyType
  BY DEF NoReply, ReplyType
<1>4. TypeOK
  <2>1. NoRequest /\ scenario \in Scenarios /\ replies \in [Clients -> ReplyType]
    BY <1>3 DEF Init
  <2>2. outsiders \in Nat
    BY <1>1 DEF Init, IsScenario
  <2> QED
    BY <1>2, <2>1, <2>2, NoRequestType DEF TypeOK
<1>5. Len(data) \in Nat
  BY <1>2 DEF FilesOK
<1>6. ReplyOK(NoReply, data)
  BY <1>5 DEF ReplyOK, NoReply
<1>7. \A c \in Clients : replies[c] = NoReply
  BY DEF Init
<1>8. RepliesOK
  BY <1>6, <1>7 DEF Init, NoRequest, RepliesOK
<1> QED
  BY <1>4, <1>8, ClientsAssumption DEF Init, NoRequest, IInv, IdleOK, RequestOK, HiddenOK

LEMMA RepliesKept ==
    ASSUME TypeOK, FilesOK', RepliesOK, Len(data) =< Len(data'),
           \A c \in Clients : replies[c].inode # 0 => IsPrefix(data[replies[c].inode], data'[replies[c].inode])
    PROVE  \A c \in Clients : ReplyOK(replies[c], data')
<1> SUFFICES ASSUME NEW c \in Clients PROVE ReplyOK(replies[c], data')
  OBVIOUS
<1> DEFINE r == replies[c]
<1>1. ReplyOK(r, data) /\ r \in ReplyType
  BY DEF RepliesOK, TypeOK
<1>2. data \in Seq(Seq(Pieces)) /\ data' \in Seq(Seq(Pieces)) /\ Len(data) \in Nat /\ Len(data') \in Nat
  BY DEF TypeOK, FilesOK
<1> HIDE DEF r
<1>3. r.inode \in 0 .. Len(data')
  BY <1>1, <1>2 DEF ReplyOK
<1>4. ASSUME r.inode # 0 PROVE r.length = Len(r.shown) /\ IsPrefix(r.shown, data'[r.inode])
  <2> DEFINE a == data[r.inode]
             b == data'[r.inode]
  <2>1. r.inode \in 1 .. Len(data) /\ r.inode \in 1 .. Len(data')
    BY <1>1, <1>2, <1>4 DEF ReplyOK
  <2>2. a \in Seq(Pieces) /\ b \in Seq(Pieces) /\ r.shown \in Seq(Pieces)
    BY <1>1, <1>2, <2>1 DEF ReplyType
  <2>3. IsPrefix(r.shown, a) /\ IsPrefix(a, b)
    BY <1>1, <1>4 DEF ReplyOK, r
  <2> HIDE DEF a, b
  <2>4. IsPrefix(r.shown, b)
    BY <2>2, <2>3, PrefixTransitive
  <2> QED
    BY <1>1, <1>4, <2>4 DEF ReplyOK, b
<1>5. ReplyOK(r, data')
  BY <1>1, <1>3, <1>4 DEF ReplyOK
<1> QED
  BY <1>5 DEF r

LEMMA PrefixReflexive ==
    ASSUME NEW S, NEW p \in Seq(S)
    PROVE  IsPrefix(p, p)
  BY DEF IsPrefix

LEMMA RepliesQuiet ==
    ASSUME TypeOK, RepliesOK, data' = data
    PROVE  \A c \in Clients : ReplyOK(replies[c], data')
  BY DEF RepliesOK

(* The request is answered. *)
LEMMA Finished ==
    ASSUME TypeOK, RepliesOK, client \in Clients,
           NEW status \in Nat, NEW inode \in 0 .. Len(data'), NEW length \in Nat, NEW shown \in Seq(Pieces),
           inode # 0 => length = Len(shown) /\ IsPrefix(shown, data'[inode]),
           FormResponse(status, inode, length, shown),
           scenario' = scenario, outsiders' = outsiders, FilesOK',
           \A c \in Clients : ReplyOK(replies[c], data')
    PROVE  IInv'
<1>1. replies[client] = NoReply
  BY ClientsAssumption DEF RepliesOK
<1> DEFINE new == [ status |-> status, inode |-> inode, length |-> length, shown |-> shown,
                    sent |-> FALSE, body |-> << >> ]
<1>2. /\ replies \in [Clients -> ReplyType]
      /\ replies' = [replies EXCEPT ![client] =
                        [@ EXCEPT !.status = status, !.inode = inode, !.length = length, !.shown = shown]]
  BY DEF TypeOK, FormResponse
<1>3. replies'[client] = new /\ \A c \in Clients \ {client} : replies'[c] = replies[c]
  <2> DEFINE old == replies[client]
  <2>1. replies'[client] = [old EXCEPT !.status = status, !.inode = inode, !.length = length, !.shown = shown]
    BY <1>2
  <2>2. old = [ status |-> 0, inode |-> 0, length |-> 0, shown |-> << >>, sent |-> FALSE, body |-> << >> ]
    BY <1>1 DEF NoReply
  <2> HIDE DEF old
  <2>3. replies'[client] = new
    BY <2>1, <2>2
  <2> QED
    BY <1>2, <2>3
<1>4. Len(data') \in Nat
  BY DEF FilesOK
<1>5. new \in ReplyType
  <2>1. inode \in Nat /\ << >> \in Seq(Pieces)
    BY <1>4
  <2> QED
    BY <2>1 DEF ReplyType
<1>6. ReplyOK(new, data')
  BY DEF ReplyOK
<1> HIDE DEF new
<1>7. replies' \in [Clients -> ReplyType]
  BY <1>2, <1>3, <1>5
<1>8. \A c \in Clients : ReplyOK(replies'[c], data')
  BY <1>3, <1>6
<1>9. NoRequest'
  BY DEF FormResponse, NoRequest
<1>10. TypeOK'
  <2>1. scenario' \in Scenarios /\ outsiders' \in Nat
    BY DEF TypeOK
  <2>2. /\ (client \in Clients \cup {NoClient})' /\ (at \in Steps)'
        /\ (path \in Seq(STRING))' /\ (turn \in Nat \ {0})'
        /\ (generate \in BOOLEAN)' /\ (created \in BOOLEAN)' /\ (disturbed \in BOOLEAN)'
    <3>1. (NoRequest => /\ client \in Clients \cup {NoClient} /\ at \in Steps
                        /\ path \in Seq(STRING) /\ turn \in Nat \ {0}
                        /\ generate \in BOOLEAN /\ created \in BOOLEAN /\ disturbed \in BOOLEAN)'
      BY NoRequestType, PTL
    <3> QED
      BY <1>9, <3>1
  <2> QED
    BY <1>7, <2>1, <2>2 DEF TypeOK
<1>11. RepliesOK'
  BY <1>8, <1>9 DEF RepliesOK, NoRequest
<1> QED
  BY <1>9, <1>10, <1>11 DEF IInv, IdleOK, NoRequest, RequestOK, HiddenOK

(* ... by a text of the server's own. *)
LEMMA Replied ==
    ASSUME IInv, client \in Clients, NEW status \in Nat, Reply(status), Quiet
    PROVE  IInv'
<1>1. TypeOK /\ RepliesOK /\ FilesOK' /\ data' = data /\ scenario' = scenario /\ outsiders' = outsiders
  BY DEF IInv, TypeOK, FilesOK, Quiet, fileSystem
<1>2. \A c \in Clients : ReplyOK(replies[c], data')
  BY <1>1, RepliesQuiet
<1>3. 0 \in 0 .. Len(data') /\ << >> \in Seq(Pieces) /\ 0 \in Nat
  BY <1>1 DEF FilesOK
<1> QED
  BY <1>1, <1>2, <1>3, Finished DEF Reply

(* The next call is due. *)
LEMMA Went ==
    ASSUME IInv, client \in Clients, NEW step \in Steps \ {"idle"}, Goto(step), Quiet,
           PathAt(step), StepAt(step), disturbed \/ HiddenAt(step),
           step # "create" \/ (path \in Paths => tree[path].kind # "file")
    PROVE  IInv'
<1>1. /\ at' = step /\ UNCHANGED << client, target, path, turn, generate, created, listed >>
      /\ UNCHANGED << before, disturbed >> /\ replies' = replies
      /\ UNCHANGED << scenario, tree, data, space, outsiders >>
  BY DEF Goto, Quiet, fileSystem, request, history
<1>2. client # NoClient
  BY ClientsAssumption
<1>3. TypeOK'
  BY <1>1 DEF IInv, TypeOK, FilesOK, Steps
<1>4. IdleOK'
  BY <1>1, <1>2 DEF IdleOK
<1>5. RepliesOK'
  BY <1>1 DEF IInv, RepliesOK
<1>6. RequestOK'
  <2>1. SelectedTarget' = SelectedTarget /\ (Method = Method') /\ (AskedPath = AskedPath')
    BY <1>1 DEF SelectedTarget, Method, AskedPath
  <2>2. IsForDirectory' = IsForDirectory
    BY <1>1, <2>1 DEF IsForDirectory
  <2>3. PathAt(at)'
    BY <1>1, <2>1, <2>2 DEF PathAt
  <2>4. StepAt(at)'
    BY <1>1, <2>1 DEF StepAt
  <2> QED
    BY <1>1, <1>2, <2>1, <2>3, <2>4 DEF IInv, RequestOK
<1>7. HiddenOK'
  <2>1. Files' = Files /\ BeforeTree' = BeforeTree
    BY <1>1 DEF Files, BeforeTree
  <2>2. HiddenFiles => HiddenFiles'
    BY <1>1, <2>1 DEF HiddenFiles
  <2>3. HiddenAt(step) => HiddenAt(at)'
    BY <1>1 DEF HiddenAt
  <2> QED
    BY <1>1, <1>2, <2>2, <2>3 DEF IInv, HiddenOK
<1> QED
  BY <1>3, <1>4, <1>5, <1>6, <1>7 DEF IInv

LEMMA Current ==
    ASSUME IInv, at # "idle"
    PROVE  /\ client \in Clients /\ client # NoClient
           /\ PathAt(at) /\ StepAt(at) /\ IsTarget(target)
           /\ ~ disturbed => HiddenFiles /\ HiddenAt(at)
           /\ Method \in { "GET", "POST", "DELETE" } /\ Body \in Seq(Pieces)
           /\ AskedPath \in Seq(STRING) /\ AskedPath # << >> /\ path \in Seq(STRING)
           /\ FilesOK /\ tree \in [Paths -> Entries] /\ WellFormed(tree, Len(data))
           /\ TypeOK /\ RepliesOK
<1>1. client \in Clients /\ client # NoClient
  BY DEF IInv, IdleOK, TypeOK
<1>2. PathAt(at) /\ StepAt(at) /\ IsTarget(target)
  BY <1>1 DEF IInv, RequestOK
<1>3. ~ disturbed => HiddenFiles /\ HiddenAt(at)
  BY <1>1 DEF IInv, HiddenOK
<1>4. /\ Method \in { "GET", "POST", "DELETE" } /\ Body \in Seq(Pieces)
      /\ scenario.requests[client].path \in Seq(STRING) /\ scenario.requests[client].path # << >>
  BY <1>1, ScenarioType DEF IInv, TypeOK, Method, Body
<1>5. AskedPath \in Seq(STRING) /\ AskedPath # << >>
  BY <1>2, <1>4, AskedPathType DEF AskedPath
<1> QED
  BY <1>1, <1>2, <1>3, <1>4, <1>5 DEF IInv, TypeOK, FilesOK

LEMMA ValidateIInv ==
    ASSUME IInv, NEW c \in Clients, Validate(c)
    PROVE  IInv'
<1> DEFINE r == scenario.requests[c]
           server == ServerSelection(scenario.servers, r.host, r.port)
           config == TargetConfig(server, LocationSelection(server, r.path))
<1>1. /\ at = "idle" /\ replies[c] = NoReply /\ Quiet
      /\ Answered(c, config) \/ Resolve(c, r, config)
  BY DEF Validate, Quiet
<1>2. client = NoClient /\ NoRequest /\ TypeOK /\ RepliesOK /\ FilesOK
  BY <1>1 DEF IInv, IdleOK, TypeOK
<1>3. IsTarget(config)
  BY <1>2, Selected DEF TypeOK
<1>4. /\ r.method \in { "GET", "POST", "DELETE" }
      /\ r.path \in Seq(STRING) /\ r.path # << >>
  BY <1>2, ScenarioType DEF TypeOK
<1>5. UNCHANGED << scenario, tree, data, space, outsiders >> /\ FilesOK'
  BY <1>1, <1>2 DEF Quiet, fileSystem, FilesOK
<1>6. c # NoClient
  BY ClientsAssumption
<1>7. CASE Answered(c, config)
  <2>1. PICK status \in Nat : ReplyTo(c, status)
    <3>1. 405 \in Nat /\ (IsSet(config["return"]) => config["return"][1] \in Nat)
      BY <1>3 DEF IsTarget
    <3> QED
      BY <1>7, <3>1 DEF Answered
  <2>2. /\ UNCHANGED << at, client, target, path, turn, generate, created, listed, before, disturbed >>
    BY <1>7 DEF Answered, request, history
  <2> DEFINE old == replies[c]
             new == [ status |-> status, inode |-> 0, length |-> 0, shown |-> << >>, sent |-> FALSE, body |-> << >> ]
  <2>3. /\ replies' \in [Clients -> ReplyType]
        /\ \A d \in Clients : ReplyOK(replies'[d], data')
    <3>1. old = [ status |-> 0, inode |-> 0, length |-> 0, shown |-> << >>, sent |-> FALSE, body |-> << >> ]
          /\ replies' = [replies EXCEPT ![c] = [old EXCEPT !.status = status]]
      BY <1>1, <2>1 DEF NoReply, ReplyTo
    <3>2. new \in ReplyType
      <4>1. << >> \in Seq(Pieces)
        OBVIOUS
      <4> QED
        BY <4>1 DEF ReplyType
    <3>3. ReplyOK(new, data')
      BY <1>5, <3>1 DEF ReplyOK, FilesOK
    <3> HIDE DEF old
    <3>4. replies'[c] = [old EXCEPT !.status = status] /\ \A d \in Clients \ {c} : replies'[d] = replies[d]
      BY <1>2, <3>1 DEF TypeOK
    <3>5. replies'[c] = new
      <4>1. old = [ status |-> 0, inode |-> 0, length |-> 0, shown |-> << >>, sent |-> FALSE, body |-> << >> ]
        BY <3>1
      <4>2. replies'[c] = [old EXCEPT !.status = status]
        BY <3>4
      <4> QED
        BY <4>1, <4>2
    <3> HIDE DEF new
    <3>6. replies' \in [Clients -> ReplyType]
      BY <1>2, <3>1, <3>2, <3>4, <3>5 DEF TypeOK
    <3> QED
      BY <1>2, <1>5, <3>3, <3>4, <3>5, <3>6 DEF TypeOK, RepliesOK
  <2>4. TypeOK'
    BY <1>2, <1>5, <2>2, <2>3 DEF TypeOK
  <2>5. RepliesOK'
    BY <1>1, <1>2, <1>5, <2>2, <2>3 DEF RepliesOK
  <2>6. NoRequest'
    BY <1>2, <2>2 DEF NoRequest
  <2> QED
    BY <2>4, <2>5, <2>6 DEF IInv, IdleOK, RequestOK, HiddenOK, NoRequest
<1>8. CASE Resolve(c, r, config)
  <2> DEFINE located == Located(config, r.path)
             search == IndexIsDue(config, r.path, r.method) /\ config["autoindex"]
  <2>1. /\ client' = c /\ target' = config /\ before' = [files |-> Files, space |-> space]
        /\ at' = IF search THEN "index" ELSE "assign"
        /\ path' = IF search THEN located ELSE Resolved(config, r.path, r.method)
        /\ UNCHANGED << turn, generate, created, listed, replies, disturbed >>
        /\ IsAllowedMethod(config, r.method) /\ ~ IsSet(config["return"])
    BY <1>8 DEF Resolve
  <2>2. /\ located \in Seq(STRING) /\ CleanUpPath(located) \in Seq(STRING)
        /\ EndsInSlash(CleanUpPath(located)) <=> EndsInSlash(located)
    BY <1>3, <1>4, AskedPathType
  <2>3. turn = 1 /\ generate = FALSE /\ created = FALSE /\ disturbed = FALSE
    BY <1>2 DEF NoRequest
  <2>4. << >> \in Seq(STRING)
    OBVIOUS
  <2>5. path' = located \/ path' = << >> \/ path' = CleanUpPath(located)
    BY <2>1 DEF Resolved
  <2>6. TypeOK'
    <3>1. path' \in Seq(STRING) /\ at' \in Steps /\ client' \in Clients
      BY <2>1, <2>2, <2>4, <2>5 DEF Steps
    <3> QED
      BY <1>2, <1>5, <2>1, <3>1 DEF TypeOK
  <2>7. IdleOK'
    BY <1>6, <2>1 DEF IdleOK
  <2>8. RepliesOK'
    BY <1>1, <1>2, <1>5, <2>1 DEF RepliesOK
  <2>9. scenario'.requests[client'] = r /\ Method' = r.method /\ AskedPath' = CleanUpPath(located)
    BY <1>5, <2>1 DEF Method, AskedPath
  <2>10. IsForDirectory' <=> IndexIsDue(config, r.path, r.method)
    BY <2>1, <2>2, <2>9 DEF IsForDirectory, IndexIsDue
  <2>11. PathAt(at)'
    <3>1. CASE search
      BY <2>1, <2>3, <2>9, <2>10, <3>1 DEF PathAt
    <3>2. CASE ~ search
      <4>1. \/ path' = CleanUpPath(located)
            \/ path' = << >> /\ IsForDirectory'
        BY <2>1, <2>10, <3>2 DEF Resolved
      <4> QED
        BY <2>1, <2>3, <2>9, <3>2, <4>1 DEF PathAt
    <3> QED
      BY <3>1, <3>2
  <2>12. StepAt(at)'
    BY <2>1, <2>3 DEF StepAt
  <2>13. SelectedTarget'
    BY <1>5, <2>1, <2>9 DEF SelectedTarget
  <2>14. RequestOK'
    BY <1>3, <2>1, <2>9, <2>11, <2>12, <2>13 DEF RequestOK
  <2>15. Files' = Files
    BY <1>5 DEF Files
  <2>16. HiddenOK'
    BY <1>5, <2>1, <2>3, <2>15 DEF HiddenOK, HiddenFiles, HiddenAt
  <2> QED
    BY <2>6, <2>7, <2>8, <2>14, <2>16 DEF IInv
<1> QED
  BY <1>1, <1>7, <1>8

LEMMA SearchIndexFilesIInv ==
    ASSUME IInv, SearchIndexFiles
    PROVE  IInv'
<1>1. /\ at = "index"
      /\ UNCHANGED << scenario, tree, data, space, outsiders, client, target, created, listed, replies, before, disturbed >>
  BY DEF SearchIndexFiles, fileSystem, history
<1>2. /\ client \in Clients /\ client # NoClient
      /\ PathAt("index") /\ StepAt("index") /\ IsTarget(target)
      /\ ~ disturbed => HiddenFiles /\ HiddenAt("index")
      /\ AskedPath \in Seq(STRING) /\ AskedPath # << >> /\ path \in Seq(STRING)
      /\ FilesOK /\ TypeOK /\ RepliesOK
  BY <1>1, Current
<1>3. /\ IsForDirectory /\ CleanUpPath(path) = AskedPath /\ ~ generate /\ ~ created
      /\ path = Located(target, scenario.requests[client].path)
  BY <1>2 DEF PathAt, StepAt, AskedPath
<1>4. /\ Method' = Method /\ AskedPath' = AskedPath /\ IsForDirectory' = IsForDirectory
      /\ SelectedTarget' = SelectedTarget
  BY <1>1 DEF Method, AskedPath, IsForDirectory, SelectedTarget
<1> DEFINE file == CleanUpPath(path \o target["index"][turn])
<1>5. /\ path' \in Seq(STRING) /\ turn' \in Nat \ {0} /\ generate' \in BOOLEAN
      /\ PathAt(at)' /\ at' \in { "index", "assign" }
  <2>1. CASE turn > Len(target["index"])
    <3>1. generate' = TRUE /\ path' = CleanUpPath(path) /\ at' = "assign" /\ turn' = turn
      BY <2>1 DEF SearchIndexFiles
    <3>2. PathAt(at)'
      BY <1>3, <1>4, <3>1 DEF PathAt
    <3> QED
      BY <1>2, <1>3, <3>1, <3>2 DEF TypeOK
  <2>2. CASE ~ (turn > Len(target["index"]))
    <3>1. generate' = generate
      BY <2>2 DEF SearchIndexFiles
    <3>2. target["index"][turn] \in Seq(STRING)
      <4> DEFINE ix == target["index"]
      <4>1. ix \in Seq(Seq(STRING)) /\ turn \in Nat \ {0} /\ ~ (turn > Len(ix))
        BY <1>2, <2>2 DEF IsTarget, TypeOK
      <4> HIDE DEF ix
      <4>2. ix[turn] \in Seq(STRING)
        BY <4>1
      <4> QED
        BY <4>2 DEF ix
    <3>3. file \in Seq(STRING) /\ IsPrefix(AskedPath, file)
      <4> DEFINE q == target["index"][turn]
      <4>1. q \in Seq(STRING) /\ path \in Seq(STRING)
        BY <1>2, <3>2
      <4> HIDE DEF q
      <4>2. path \o q \in Seq(STRING)
        BY <4>1
      <4>3. CleanUpPath(path \o q) \in Seq(STRING)
        BY <4>2, CleanUpPathEnd
      <4>4. IsPrefix(CleanUpPath(path), CleanUpPath(path \o q))
        BY <4>1, CleanUpPathPrefix
      <4> QED
        BY <1>3, <4>3, <4>4 DEF q
    <3>4. CASE IsThere(tree, file)
      <4>1. path' = file /\ at' = "assign" /\ turn' = turn
        BY <2>2, <3>4 DEF SearchIndexFiles
      <4>2. PathAt(at)'
        BY <1>3, <1>4, <3>1, <3>3, <4>1 DEF PathAt
      <4> QED
        BY <1>2, <1>3, <3>1, <3>3, <4>1, <4>2 DEF TypeOK
    <3>5. CASE ~ IsThere(tree, file)
      <4>1. path' = path /\ at' = at /\ turn' = turn + 1
        BY <2>2, <3>5 DEF SearchIndexFiles, NextTurn
      <4>2. PathAt(at)'
        BY <1>1, <1>3, <1>4, <3>1, <4>1 DEF PathAt
      <4> QED
        BY <1>1, <1>2, <1>3, <3>1, <4>1, <4>2 DEF TypeOK
    <3> QED
      BY <3>4, <3>5
  <2> QED
    BY <2>1, <2>2
<1>6. TypeOK'
  BY <1>1, <1>2, <1>5 DEF TypeOK, FilesOK, Steps
<1>7. IdleOK'
  BY <1>1, <1>2, <1>5 DEF IdleOK
<1>8. RepliesOK'
  BY <1>1, <1>2, <1>5 DEF RepliesOK
<1>9. RequestOK'
  <2>1. StepAt(at)'
    BY <1>1, <1>3, <1>5 DEF StepAt
  <2>2. SelectedTarget /\ IsAllowedMethod(target, Method) /\ ~ IsSet(target["return"])
    BY <1>2 DEF IInv, RequestOK
  <2> QED
    BY <1>1, <1>2, <1>4, <1>5, <2>1, <2>2 DEF RequestOK
<1>10. HiddenOK'
  <2>1. Files' = Files
    BY <1>1 DEF Files
  <2> QED
    BY <1>1, <1>2, <1>3, <1>5, <2>1 DEF HiddenOK, HiddenFiles, HiddenAt
<1> QED
  BY <1>6, <1>7, <1>8, <1>9, <1>10 DEF IInv

(* A path at the steps of one handler is a path at its next. *)
LEMMA SamePath ==
    ASSUME NEW step, NEW next, PathAt(step), step \notin { "index" }, next \notin { "index" }, path # << >>
    PROVE  PathAt(next)
  BY DEF PathAt

LEMMA AssignIInv ==
    ASSUME IInv, AssignResponseResolvedPath
    PROVE  IInv'
<1>1. at = "assign" /\ Quiet
  BY DEF AssignResponseResolvedPath, Quiet
<1>2. /\ client \in Clients /\ PathAt("assign") /\ StepAt("assign")
      /\ Method \in { "GET", "POST", "DELETE" }
  BY <1>1, Current
<1>3. CASE Reply(404) \/ Reply(403)
  <2>1. PICK status \in Nat : Reply(status)
    BY <1>3
  <2> QED
    BY <1>1, <1>2, <2>1, Replied
<1>4. CASE path # << >> /\ Goto(Handler)
  <2>1. generate => IsForDirectory
    BY <1>2 DEF PathAt
  <2>2. /\ Handler \in { "cgi", "list", "get", "subdir", "find" }
        /\ Handler = "cgi" <=> IsSet(target["cgi_pass"])
        /\ Handler # "cgi" => (Handler = "list" <=> generate)
        /\ Handler = "get" => Method = "GET"
        /\ Handler = "subdir" => Method = "POST"
        /\ Handler = "find" => Method = "DELETE"
    BY <1>2 DEF Handler
  <2>3. StepAt(Handler)
    BY <1>2, <1>4, <2>1, <2>2 DEF StepAt, IsForDirectory
  <2>4. PathAt(Handler)
    BY <1>2, <1>4, <2>2, SamePath
  <2>5. HiddenAt(Handler) /\ Handler # "create" /\ Handler \in Steps \ {"idle"}
    BY <2>2 DEF HiddenAt, Steps
  <2> HIDE DEF Handler
  <2> QED
    BY <1>1, <1>2, <1>4, <2>3, <2>4, <2>5, Went
<1> QED
  BY <1>3, <1>4 DEF AssignResponseResolvedPath

(* A path without a slash is in no directory. *)
LEMMA NoDirectoryPath ==
    ASSUME path \in Seq(STRING), tree \in [Paths -> Entries], LastSlash(path) = 0
    PROVE  DirectoryPath(path) # << "/" >> /\ ~ IsDirectory(tree, DirectoryPath(path))
<1> DEFINE none == DirectoryPath(path)
<1>1. none = << >>
  BY DEF DirectoryPath
<1> HIDE DEF none
<1>2. none \in Seq(STRING) /\ none \notin Paths /\ WithoutSlash(none) = none
  BY <1>1, PathsAssumption DEF WithoutSlash
<1>3. Kind(tree, none) = "absent"
  BY <1>2 DEF Kind, Entry, Absent
<1>4. Stat(tree, none) = "ENOENT" \/ Stat(tree, none) \in Errors
  BY <1>2, <1>3, StatCases
<1>5. none # << "/" >>
  BY <1>1
<1> QED
  BY <1>4, <1>5 DEF none, IsDirectory, Errors, DirectoryKinds

(* The calls that look, and go on or reply. *)
LEMMA LooksIInv ==
    ASSUME IInv, GetFile \/ NoDirectory \/ ValidSubDirectory \/ CreateFileIfNeeded \/ FindFile \/ RegularOnly
    PROVE  IInv'
<1>1. /\ at \in { "get", "kind", "subdir", "look", "find", "regular" } /\ Quiet
  BY DEF GetFile, NoDirectory, ValidSubDirectory, CreateFileIfNeeded, FindFile, RegularOnly, Quiet
<1>2. /\ client \in Clients /\ PathAt(at) /\ StepAt(at) /\ path \in Seq(STRING)
      /\ ~ disturbed => HiddenAt(at)
      /\ tree \in [Paths -> Entries] /\ WellFormed(tree, Len(data))
  BY <1>1, Current
<1>3. path # << >>
  BY <1>1, <1>2 DEF StepAt
<1>4. ASSUME NEW next \in Steps \ {"idle"}, Goto(next), StepAt(next), disturbed \/ HiddenAt(next),
             next # "index", next # "create" \/ (path \in Paths => tree[path].kind # "file")
      PROVE  IInv'
  <2>1. PathAt(next)
    BY <1>1, <1>2, <1>3, <1>4, SamePath
  <2> QED
    BY <1>1, <1>2, <1>4, <2>1, Went
<1>5. ASSUME NEW status \in Nat, Reply(status) PROVE IInv'
  BY <1>1, <1>2, <1>5, Replied
<1>6. CASE GetFile
  <2>1. at = "get"
    BY <1>6 DEF GetFile
  <2>2. CASE IsThere(tree, path)
    <3>1. Goto("kind")
      BY <1>6, <2>2 DEF GetFile
    <3>2. StepAt("kind")
      BY <1>2, <2>1 DEF StepAt
    <3>3. HiddenAt("kind")
      BY <2>2 DEF HiddenAt
    <3> QED
      BY <1>4, <3>1, <3>2, <3>3 DEF Steps
  <2>3. CASE ~ IsThere(tree, path)
    <3>1. Reply(FileHandlingError(Stat(tree, path))) /\ FileHandlingError(Stat(tree, path)) \in Nat
      BY <1>6, <2>3 DEF GetFile, FileHandlingError
    <3> QED
      BY <1>5, <3>1
  <2> QED
    BY <2>2, <2>3
<1>7. CASE NoDirectory
  <2>1. at = "kind"
    BY <1>7 DEF NoDirectory
  <2>2. CASE IsDirectory(tree, path)
    BY <1>5, <1>7, <2>2 DEF NoDirectory
  <2>3. CASE ~ IsDirectory(tree, path)
    <3>1. Goto("open")
      BY <1>7, <2>3 DEF NoDirectory
    <3>2. StepAt("open")
      BY <1>2, <2>1 DEF StepAt
    <3>3. disturbed \/ HiddenAt("open")
      BY <1>2, <2>1, <2>3 DEF HiddenAt
    <3> QED
      BY <1>4, <3>1, <3>2, <3>3 DEF Steps
  <2> QED
    BY <2>2, <2>3
<1>8. CASE ValidSubDirectory
  <2>1. at = "subdir"
    BY <1>8 DEF ValidSubDirectory
  <2>2. CASE Goto("look") /\ (DirectoryPath(path) = << "/" >> \/ IsDirectory(tree, DirectoryPath(path)))
    <3>1. LastSlash(path) # 0
      BY <1>2, <2>2, NoDirectoryPath
    <3>2. StepAt("look") /\ HiddenAt("look")
      BY <1>2, <2>1, <3>1 DEF StepAt, HiddenAt
    <3> QED
      BY <1>4, <2>2, <3>2 DEF Steps
  <2>3. CASE Reply(403)
    BY <1>5, <2>3
  <2> QED
    BY <1>8, <2>2, <2>3 DEF ValidSubDirectory
<1>9. CASE CreateFileIfNeeded
  <2>1. at = "look"
    BY <1>9 DEF CreateFileIfNeeded
  <2>2. CASE Stat(tree, path) = "ENOENT"
    <3>1. Goto("create")
      BY <1>9, <2>2 DEF CreateFileIfNeeded, MustCreate
    <3>2. StepAt("create") /\ HiddenAt("create")
      BY <1>2, <2>1, <2>2 DEF StepAt, HiddenAt
    <3>3. path \in Paths => tree[path].kind # "file"
      <4> SUFFICES ASSUME path \in Paths PROVE tree[path].kind = "absent"
        OBVIOUS
      <4>1. path = WithoutSlash(path)
        BY PathsLemma
      <4> QED
        BY <1>2, <2>2, <4>1, NotFoundIsAbsent
    <3> QED
      BY <1>4, <3>1, <3>2, <3>3 DEF Steps
  <2>3. CASE Stat(tree, path) # "ENOENT"
    <3>1. Goto("write")
      BY <1>9, <2>3 DEF CreateFileIfNeeded, MustCreate
    <3>2. StepAt("write") /\ HiddenAt("write")
      BY <1>2, <2>1, <2>3 DEF StepAt, HiddenAt
    <3> QED
      BY <1>4, <3>1, <3>2 DEF Steps
  <2> QED
    BY <2>2, <2>3
<1>10. CASE FindFile
  <2>1. at = "find"
    BY <1>10 DEF FindFile
  <2>2. CASE IsThere(tree, path)
    <3>1. Goto("regular")
      BY <1>10, <2>2 DEF FindFile
    <3>2. StepAt("regular") /\ HiddenAt("regular")
      BY <1>2, <2>1, <2>2 DEF StepAt, HiddenAt
    <3> QED
      BY <1>4, <3>1, <3>2 DEF Steps
  <2>3. CASE ~ IsThere(tree, path)
    <3>1. Reply(FileHandlingError(Stat(tree, path))) /\ FileHandlingError(Stat(tree, path)) \in Nat
      BY <1>10, <2>3 DEF FindFile, FileHandlingError
    <3> QED
      BY <1>5, <3>1
  <2> QED
    BY <2>2, <2>3
<1>11. CASE RegularOnly
  <2>1. at = "regular"
    BY <1>11 DEF RegularOnly
  <2>2. CASE Stat(tree, path) = "file"
    <3>1. Goto("remove")
      BY <1>11, <2>2 DEF RegularOnly, IsRegularFile
    <3>2. path = WithoutSlash(path)
      BY <1>2, <2>2, StatIsFile
    <3>3. StepAt("remove") /\ HiddenAt("remove")
      BY <1>2, <2>1, <2>2, <3>2 DEF StepAt, HiddenAt
    <3> QED
      BY <1>4, <3>1, <3>3 DEF Steps
  <2>3. CASE Stat(tree, path) # "file"
    BY <1>5, <1>11, <2>3 DEF RegularOnly, IsRegularFile
  <2> QED
    BY <2>2, <2>3
<1> QED
  BY <1>6, <1>7, <1>8, <1>9, <1>10, <1>11

LEMMA HandleCGIIInv ==
    ASSUME IInv, HandleCGI
    PROVE  IInv'
<1>1. at = "cgi" /\ Quiet
  BY DEF HandleCGI, Quiet
<1>2. client \in Clients
  BY <1>1, Current
<1>3. PICK status \in Nat : Reply(status)
  BY DEF HandleCGI
<1> QED
  BY <1>1, <1>2, <1>3, Replied

LEMMA OpenDirectoryIInv ==
    ASSUME IInv, OpenDirectory
    PROVE  IInv'
<1>1. at = "list" /\ Quiet
  BY DEF OpenDirectory, Quiet
<1>2. /\ client \in Clients /\ client # NoClient /\ PathAt("list") /\ StepAt("list")
      /\ ~ disturbed => HiddenFiles
  BY <1>1, Current
<1>3. CASE Reply(500)
  BY <1>1, <1>2, <1>3, Replied
<1>4. CASE Stat(tree, path) \in { "directory", "closed" }
  <2>1. /\ at' = "entries"
        /\ UNCHANGED << scenario, tree, data, space, outsiders, client, target, path, turn, generate,
                        created, before, disturbed, replies >>
    BY <1>4 DEF OpenDirectory, fileSystem, history
  <2>2. /\ Method' = Method /\ AskedPath' = AskedPath /\ IsForDirectory' = IsForDirectory
        /\ SelectedTarget' = SelectedTarget /\ Files' = Files
    BY <2>1 DEF Method, AskedPath, IsForDirectory, SelectedTarget, Files
  <2>3. TypeOK' /\ IdleOK' /\ RepliesOK'
    BY <1>1, <2>1 DEF IInv, TypeOK, FilesOK, IdleOK, RepliesOK, Steps
  <2>4. RequestOK'
    <3>1. PathAt(at)'
      BY <1>2, <2>1, <2>2 DEF PathAt
    <3>2. StepAt(at)'
      BY <1>2, <2>1, <2>2 DEF StepAt
    <3> QED
      BY <1>2, <2>1, <2>2, <3>1, <3>2 DEF IInv, RequestOK
  <2>5. HiddenOK'
    <3>1. (~ disturbed => HiddenAt(at))'
      BY <1>2, <1>4, <2>1 DEF HiddenAt, IsDirectory, DirectoryKinds, StepAt
    <3>2. (~ disturbed => HiddenFiles)'
      BY <1>2, <2>1, <2>2 DEF HiddenFiles, StepAt
    <3> QED
      BY <3>1, <3>2 DEF HiddenOK
  <2> QED
    BY <2>3, <2>4, <2>5 DEF IInv
<1> QED
  BY <1>3, <1>4 DEF OpenDirectory

LEMMA FormatLinesIInv ==
    ASSUME IInv, FormatLines
    PROVE  IInv'
<1>1. at = "entries" /\ Quiet
  BY DEF FormatLines, Quiet
<1>2. client \in Clients
  BY <1>1, Current
<1>3. PICK status \in Nat : Reply(status)
  BY DEF FormatLines
<1> QED
  BY <1>1, <1>2, <1>3, Replied

(* What is announced of a file is what it holds. *)
LEMMA CreateStreamIInv ==
    ASSUME IInv, CreateStreamFromPath
    PROVE  IInv'
<1>1. at = "open" /\ Quiet
  BY DEF CreateStreamFromPath, Quiet
<1>2. /\ client \in Clients /\ TypeOK /\ RepliesOK /\ FilesOK /\ path \in Seq(STRING)
      /\ tree \in [Paths -> Entries]
  BY <1>1, Current
<1>3. CASE Reply(500)
  BY <1>1, <1>2, <1>3, Replied
<1>4. CASE IsOpenable(path)
  <2> DEFINE i == Inode(tree, path)
  <2>1. /\ path \in Paths /\ tree[path].kind = "file"
    BY <1>2, <1>4, StatIsFile DEF IsOpenable
  <2>2. i \in 1 .. Len(data)
    BY <1>2, <2>1, FilesType DEF Inode
  <2>3. FormResponse(200, i, Len(data[i]), data[i])
    BY <1>4 DEF CreateStreamFromPath, StreamSize
  <2>4. data[i] \in Seq(Pieces) /\ Len(data[i]) \in Nat
    BY <1>2, <2>2 DEF FilesOK
  <2>5. FilesOK' /\ data' = data /\ scenario' = scenario /\ outsiders' = outsiders
    BY <1>1, <1>2 DEF FilesOK, Quiet, fileSystem
  <2>6. \A c \in Clients : ReplyOK(replies[c], data')
    BY <1>2, <2>5, RepliesQuiet
  <2> HIDE DEF i
  <2> DEFINE shown == data[i]
             length == Len(data[i])
  <2>7. /\ shown \in Seq(Pieces) /\ length \in Nat /\ length = Len(shown) /\ i \in 0 .. Len(data')
        /\ IsPrefix(shown, data'[i])
    BY <2>2, <2>4, <2>5, PrefixReflexive
  <2>8. FormResponse(200, i, length, shown)
    BY <2>3
  <2> HIDE DEF shown, length
  <2> QED
    BY <1>2, <2>5, <2>6, <2>7, <2>8, Finished
<1> QED
  BY <1>3, <1>4 DEF CreateStreamFromPath

-----------------------------------------------------------------------------
(* The steps that change files keep the invariant. *)

LEMMA OpenableIs ==
    ASSUME FilesOK, path \in Seq(STRING), IsOpenable(path)
    PROVE  /\ path \in Paths /\ tree[path].kind = "file"
           /\ Inode(tree, path) = tree[path].inode
           /\ tree[path].inode \in 1 .. Len(data)
           /\ data[tree[path].inode] \in Seq(Pieces)
           /\ ~ Files[path].sealed
<1>1. path \in Paths /\ tree[path].kind = "file"
  BY StatIsFile DEF FilesOK, IsOpenable
<1>2. tree[path].inode \in 1 .. Len(data) /\ ~ Files[path].sealed
  BY <1>1, FilesType DEF IsOpenable, Inode
<1> QED
  BY <1>1, <1>2 DEF FilesOK, Inode

(* Where something was made after a look that found nothing, nothing was lost. *)
LEMMA CreateFileIInv ==
    ASSUME IInv, CreateFile
    PROVE  IInv'
<1>1. at = "create" /\ UNCHANGED << scenario, space, outsiders >>
  BY DEF CreateFile
<1>2. /\ client \in Clients /\ client # NoClient /\ PathAt("create") /\ StepAt("create")
      /\ ~ disturbed => HiddenFiles /\ HiddenAt("create")
      /\ FilesOK /\ TypeOK /\ RepliesOK /\ path \in Seq(STRING) /\ tree \in [Paths -> Entries]
  BY <1>1, Current
<1>3. ~ created /\ path # << >>
  BY <1>2 DEF StepAt
<1>4. << >> \in Seq(Pieces) /\ space' \in Nat /\ data \in Seq(Seq(Pieces)) /\ Len(data) \in Nat
  BY <1>1, <1>2 DEF FilesOK
<1>5. CASE Reply(FileHandlingError(CreateErrno)) /\ UNCHANGED << tree, data >>
  <2>1. Quiet
    BY <1>1, <1>5 DEF Quiet, fileSystem
  <2>2. FileHandlingError(CreateErrno) \in Nat
    BY DEF FileHandlingError
  <2> QED
    BY <1>2, <1>5, <2>1, <2>2, Replied
<1>6. CASE IsOpenable(path) \/ MayCreate(tree, path)
  <2>1. /\ at' = "write" /\ created' = TRUE
        /\ UNCHANGED << client, target, path, turn, generate, listed, before, disturbed, replies >>
        /\ IF IsOpenable(path)
              THEN data' = [data EXCEPT ![Inode(tree, path)] = << >>] /\ UNCHANGED tree
              ELSE NewFile(<< >>)
    BY <1>6 DEF CreateFile, history
  <2>2. ASSUME IsOpenable(path)
        PROVE  /\ disturbed
               /\ FilesOK' /\ Len(data) =< Len(data')
               /\ \A c \in Clients : replies[c].inode # 0 =>
                     IsPrefix(data[replies[c].inode], data'[replies[c].inode])
    <3>1. /\ path \in Paths /\ tree[path].kind = "file" /\ Inode(tree, path) = tree[path].inode
          /\ tree[path].inode \in 1 .. Len(data)
      BY <1>2, <2>2, OpenableIs
    <3>2. disturbed
      BY <1>2, <2>2 DEF HiddenAt, IsOpenable
    <3>3. data' = [data EXCEPT ![tree[path].inode] = << >>] /\ tree' = tree
      BY <2>1, <2>2, <3>1
    <3>4. /\ FilesOK' /\ Len(data') = Len(data)
          /\ \A i \in 1 .. Len(data) : data'[i] = IF i = tree[path].inode THEN << >> ELSE data[i]
      BY <1>1, <1>2, <1>4, <3>1, <3>3, FileFilled
    <3>5. ASSUME NEW c \in Clients, replies[c].inode # 0
          PROVE  IsPrefix(data[replies[c].inode], data'[replies[c].inode])
      <4> DEFINE i == replies[c].inode
      <4>1. i \in 1 .. Len(data) /\ i # tree[path].inode
        BY <1>1, <1>2, <1>4, <3>1, <3>5 DEF RepliesOK, ReplyOK
      <4>2. data'[i] = data[i] /\ data[i] \in Seq(Pieces)
        BY <1>4, <3>4, <4>1
      <4> HIDE DEF i
      <4>3. IsPrefix(data[i], data[i])
        BY <4>2, PrefixReflexive
      <4>4. IsPrefix(data[i], data'[i])
        BY <4>2, <4>3
      <4> QED
        BY <4>4 DEF i
    <3> QED
      BY <1>4, <3>2, <3>4, <3>5
  <2>3. ASSUME ~ IsOpenable(path)
        PROVE  /\ MayCreate(tree, path) /\ path \in Paths /\ tree[path].kind = "absent"
               /\ FilesOK' /\ Len(data) =< Len(data')
               /\ Files' = [Files EXCEPT ![path] = Held("file", << >>, FALSE)]
               /\ \A c \in Clients : replies[c].inode # 0 =>
                     IsPrefix(data[replies[c].inode], data'[replies[c].inode])
    <3>1. MayCreate(tree, path) /\ NewFile(<< >>)
      BY <1>6, <2>1, <2>3
    <3>2. path \in Paths /\ tree[path].kind = "absent"
      BY <1>2, <3>1, MayCreateIs
    <3>3. tree' = [tree EXCEPT ![path] = File(Len(data) + 1)] /\ data' = Append(data, << >>)
      BY <3>1 DEF NewFile
    <3>4. /\ FilesOK' /\ Len(data') = Len(data) + 1
          /\ \A i \in 1 .. Len(data) : data'[i] = data[i]
          /\ Files' = [Files EXCEPT ![path] = Held("file", << >>, FALSE)]
      BY <1>1, <1>2, <1>4, <3>1, <3>2, <3>3, FileMade
    <3>5. ASSUME NEW c \in Clients, replies[c].inode # 0
          PROVE  IsPrefix(data[replies[c].inode], data'[replies[c].inode])
      <4> DEFINE i == replies[c].inode
      <4>1. i \in 1 .. Len(data)
        BY <1>2, <1>4, <3>5 DEF RepliesOK, ReplyOK
      <4>2. data'[i] = data[i] /\ data[i] \in Seq(Pieces)
        BY <1>4, <3>4, <4>1
      <4> HIDE DEF i
      <4>3. IsPrefix(data[i], data[i])
        BY <4>2, PrefixReflexive
      <4>4. IsPrefix(data[i], data'[i])
        BY <4>2, <4>3
      <4> QED
        BY <4>4 DEF i
    <3> QED
      BY <1>4, <3>1, <3>2, <3>4, <3>5
  <2>4. FilesOK' /\ \A c \in Clients : ReplyOK(replies[c], data')
    BY <1>2, <2>2, <2>3, RepliesKept
  <2>5. TypeOK'
    BY <1>1, <1>2, <2>1, <2>4 DEF TypeOK, Steps
  <2>6. IdleOK'
    BY <1>2, <2>1 DEF IdleOK
  <2>7. RepliesOK'
    BY <1>2, <2>1, <2>4 DEF RepliesOK
  <2>8. RequestOK'
    <3>1. /\ Method' = Method /\ AskedPath' = AskedPath /\ IsForDirectory' = IsForDirectory
          /\ SelectedTarget' = SelectedTarget
      BY <1>1, <2>1 DEF Method, AskedPath, IsForDirectory, SelectedTarget
    <3>2. PathAt(at)'
      BY <1>2, <1>3, <2>1, <3>1 DEF PathAt
    <3>3. StepAt(at)'
      BY <1>2, <2>1, <3>1 DEF StepAt
    <3> QED
      BY <1>2, <2>1, <3>1, <3>2, <3>3 DEF IInv, RequestOK
  <2>9. HiddenOK'
    <3> SUFFICES ASSUME ~ disturbed PROVE HiddenFiles' /\ HiddenAt(at)'
      BY <2>1 DEF HiddenOK
    <3>1. /\ MayCreate(tree, path) /\ path \in Paths /\ tree[path].kind = "absent"
          /\ Files' = [Files EXCEPT ![path] = Held("file", << >>, FALSE)]
      BY <2>2, <2>3
    <3>2. before.space = space /\ before.files = Files
      BY <1>2, <1>3 DEF HiddenFiles
    <3>3. HiddenAt(at)'
      BY <2>1 DEF HiddenAt
    <3>4. Files[path] = Held("absent", << >>, FALSE) /\ DOMAIN Files = Paths
          /\ \A q \in Paths : Files[q].kind = tree[q].kind
      BY <1>2, <3>1, FilesType
    <3>5. before.files = [Files' EXCEPT ![path] = Held("absent", << >>, FALSE)]
      <4>1. Files = [q \in Paths |-> Files[q]]
        BY DEF Files
      <4> HIDE DEF Files
      <4>2. [[Files EXCEPT ![path] = Held("file", << >>, FALSE)] EXCEPT ![path] = Held("absent", << >>, FALSE)] = Files
        BY <3>1, <3>4, <4>1
      <4> QED
        BY <3>1, <3>2, <4>2
    <3>6. Files'[path] = Held("file", << >>, FALSE)
      BY <3>1, <3>4
    <3>7. MayCreate(BeforeTree, path)
      <4>1. DOMAIN BeforeTree = Paths /\ \A q \in Paths : BeforeTree[q].kind = tree[q].kind
        BY <3>2, <3>4 DEF BeforeTree
      <4>2. DOMAIN tree = Paths
        BY <1>2
      <4> QED
        BY <3>1, <4>1, <4>2, KindsDecide
    <3>8. BeforeTree' = BeforeTree
      BY <2>1 DEF BeforeTree
    <3> QED
      BY <1>1, <2>1, <3>1, <3>2, <3>3, <3>5, <3>6, <3>7, <3>8 DEF HiddenFiles
  <2> QED
    BY <2>5, <2>6, <2>7, <2>8, <2>9 DEF IInv
<1> QED
  BY <1>5, <1>6 DEF CreateFile

LEMMA StoredIs ==
    ASSUME space \in Nat, Body \in Seq(Pieces)
    PROVE  /\ Stored \in Nat /\ Stored =< space /\ Stored =< Len(Body)
           /\ space - Stored \in Nat
           /\ SubSeq(Body, 1, Stored) \in Seq(Pieces)
<1> DEFINE n == Len(Body)
<1>1. n \in Nat
  OBVIOUS
<1> HIDE DEF n
<1>2. { space, n } \in SUBSET Nat /\ { space, n } # {}
  BY <1>1
<1>3. Min({ space, n }) \in { space, n } /\ \A y \in { space, n } : Min({ space, n }) =< y
  BY <1>2, MinExists
<1>4. Stored = Min({ space, n })
  BY DEF Stored, n
<1>5. Stored \in Nat /\ Stored =< space /\ Stored =< n
  BY <1>1, <1>3, <1>4
<1> HIDE DEF Stored
<1> QED
  BY <1>5 DEF n

(* What the body of a request makes of the files. *)
LEMMA Written ==
    ASSUME IInv, WriteToFile, IsOpenable(path) \/ MayCreate(tree, path)
    PROVE  /\ path \in Paths /\ space' = space - Stored /\ FilesOK' /\ Len(data) =< Len(data')
           /\ Files' = [Files EXCEPT ![path] =
                           Held("file", Files[path].content \o SubSeq(Body, 1, Stored), FALSE)]
           /\ \A i \in 1 .. Len(data) : IsPrefix(data[i], data'[i])
<1>1. /\ at = "write" /\ UNCHANGED << scenario, outsiders >> /\ space' = space - Stored
      /\ IF IsOpenable(path)
            THEN /\ data' = [data EXCEPT ![Inode(tree, path)] = Appended(@, SubSeq(Body, 1, Stored))]
                 /\ UNCHANGED tree
            ELSE NewFile(SubSeq(Body, 1, Stored))
  BY DEF WriteToFile
<1>2. /\ FilesOK /\ TypeOK /\ path \in Seq(STRING) /\ tree \in [Paths -> Entries] /\ Body \in Seq(Pieces)
  BY <1>1, Current
<1>3. space \in Nat /\ data \in Seq(Seq(Pieces)) /\ Len(data) \in Nat
  BY <1>2 DEF FilesOK
<1> DEFINE more == SubSeq(Body, 1, Stored)
<1>4. more \in Seq(Pieces) /\ space' \in Nat
  BY <1>1, <1>2, <1>3, StoredIs
<1> HIDE DEF more
<1>5. \A i \in 1 .. Len(data) : data[i] \in Seq(Pieces)
  BY <1>3
<1>6. CASE IsOpenable(path)
  <2> DEFINE i == tree[path].inode
             old == data[i]
             content == old \o more
  <2>1. /\ path \in Paths /\ tree[path].kind = "file" /\ Inode(tree, path) = i
        /\ i \in 1 .. Len(data) /\ old \in Seq(Pieces) /\ ~ Files[path].sealed
    BY <1>2, <1>6, OpenableIs
  <2>2. Files[path].content = old /\ Files[path].sealed = FALSE
    <3>1. Files[path].sealed \in BOOLEAN
      BY <2>1 DEF Files
    <3>2. Files[path].content = old
      BY <1>2, <2>1 DEF Files
    <3> QED
      BY <2>1, <3>1, <3>2
  <2>3. data' = [data EXCEPT ![i] = content] /\ tree' = tree
    BY <1>1, <1>6, <2>1 DEF Appended, more
  <2> HIDE DEF old
  <2>4. content \in Seq(Pieces) /\ IsPrefix(old, content)
    <3>1. content \in Seq(Pieces) /\ Len(old) =< Len(content) /\ \A k \in 1 .. Len(old) : old[k] = content[k]
      BY <1>4, <2>1
    <3> HIDE DEF content
    <3> QED
      BY <2>1, <3>1, PrefixByElements
  <2> HIDE DEF content, i
  <2>5. /\ FilesOK' /\ Len(data') = Len(data)
        /\ \A k \in 1 .. Len(data) : data'[k] = IF k = i THEN content ELSE data[k]
        /\ Files' = [Files EXCEPT ![path] = Held("file", content, Files[path].sealed)]
    <3>1. data' = [data EXCEPT ![tree[path].inode] = content]
      BY <2>3 DEF i
    <3> QED
      BY <1>1, <1>2, <1>4, <2>1, <2>3, <2>4, <3>1, FileFilled DEF i
  <2>6. ASSUME NEW k \in 1 .. Len(data) PROVE IsPrefix(data[k], data'[k])
    <3>1. CASE k = i
      BY <2>4, <2>5, <3>1 DEF old
    <3>2. CASE k # i
      BY <1>5, <2>5, <3>2, PrefixReflexive
    <3> QED
      BY <3>1, <3>2
  <2>7. content = Files[path].content \o more
    BY <2>2 DEF content
  <2>8. Files' = [Files EXCEPT ![path] = Held("file", Files[path].content \o more, FALSE)]
    BY <2>2, <2>5, <2>7
  <2>9. FilesOK' /\ Len(data) =< Len(data')
    BY <1>3, <2>5
  <2> HIDE DEF more
  <2> QED
    BY <1>1, <2>1, <2>6, <2>8, <2>9 DEF more
<1>7. CASE ~ IsOpenable(path)
  <2>1. MayCreate(tree, path) /\ NewFile(more)
    BY <1>1, <1>7 DEF more
  <2>2. path \in Paths /\ tree[path].kind = "absent"
    BY <1>2, <2>1, MayCreateIs
  <2>3. tree' = [tree EXCEPT ![path] = File(Len(data) + 1)] /\ data' = Append(data, more)
    BY <2>1 DEF NewFile
  <2>4. /\ FilesOK' /\ Len(data') = Len(data) + 1
        /\ \A i \in 1 .. Len(data) : data'[i] = data[i]
        /\ Files' = [Files EXCEPT ![path] = Held("file", more, FALSE)]
    BY <1>1, <1>2, <1>4, <2>1, <2>2, <2>3, FileMade
  <2>5. Files[path].content = << >>
    BY <1>2, <2>2, FilesType DEF Held
  <2>6. << >> \o more = more
    BY <1>4
  <2>7. ASSUME NEW k \in 1 .. Len(data) PROVE IsPrefix(data[k], data'[k])
    BY <1>5, <2>4, PrefixReflexive
  <2>8. Files' = [Files EXCEPT ![path] = Held("file", Files[path].content \o more, FALSE)]
    BY <2>4, <2>5, <2>6
  <2>9. FilesOK' /\ Len(data) =< Len(data')
    BY <1>3, <2>4
  <2> QED
    BY <1>1, <2>2, <2>7, <2>8, <2>9 DEF more
<1> QED
  BY <1>6, <1>7

(* What can be removed is a file or an empty directory. *)
LEMMA RemovableIs ==
    ASSUME FilesOK, path \in Seq(STRING), path = WithoutSlash(path), IsRemovable(path)
    PROVE  path \in Paths /\ (tree[path].kind = "file" \/ Inside(tree, path) = {})
<1>1. tree \in [Paths -> Entries]
  BY DEF FilesOK
<1>2. IsThere(tree, path) /\ (IsDirectory(tree, path) => Inside(tree, path) = {})
  BY DEF IsRemovable
<1>3. Obstacles(tree, path) = {}
  BY <1>1, <1>2, StatCases DEF IsThere
<1>4. Stat(tree, path) = CASE Kind(tree, path) = "absent"                -> "ENOENT"
                           [] Kind(tree, path) = "file" /\ path # path   -> "ENOTDIR"
                           [] OTHER                                      -> Kind(tree, path)
  BY <1>1, <1>3, StatCases
<1>5. Kind(tree, path) \in { "absent", "file", "directory", "closed", "locked" }
  BY <1>1, KindType
<1>6. Kind(tree, path) # "absent" /\ Stat(tree, path) = Kind(tree, path)
  BY <1>2, <1>4, <1>5 DEF IsThere, Errors
<1>7. path \in Paths /\ tree[path].kind = Kind(tree, path)
  BY <1>1, <1>6 DEF Kind, Entry, Absent
<1> QED
  BY <1>2, <1>5, <1>6, <1>7 DEF IsDirectory, DirectoryKinds

LEMMA WriteToFileIInv ==
    ASSUME IInv, WriteToFile
    PROVE  IInv'
<1>1. at = "write" /\ UNCHANGED << scenario, outsiders >>
  BY DEF WriteToFile
<1>2. client \in Clients /\ TypeOK /\ RepliesOK /\ FilesOK
  BY <1>1, Current
<1>3. CASE ~ (IsOpenable(path) \/ MayCreate(tree, path))
  <2>1. Reply(500) /\ Quiet
    BY <1>1, <1>3 DEF WriteToFile, Quiet
  <2> QED
    BY <1>2, <2>1, Replied
<1>4. CASE IsOpenable(path) \/ MayCreate(tree, path)
  <2>1. /\ FilesOK' /\ Len(data) =< Len(data')
        /\ \A i \in 1 .. Len(data) : IsPrefix(data[i], data'[i])
    BY <1>4, Written
  <2>2. Len(data) \in Nat
    BY <1>2 DEF FilesOK
  <2>3. \A c \in Clients : replies[c].inode # 0 => replies[c].inode \in 1 .. Len(data)
    BY <1>2, <2>2 DEF RepliesOK, ReplyOK
  <2>4. \A c \in Clients : ReplyOK(replies[c], data')
    BY <1>2, <2>1, <2>3, RepliesKept
  <2>5. PICK status \in Nat : Reply(status)
    BY <1>4 DEF WriteToFile
  <2>6. 0 \in 0 .. Len(data') /\ << >> \in Seq(Pieces)
    BY <2>1 DEF FilesOK
  <2> QED
    BY <1>1, <1>2, <2>1, <2>4, <2>5, <2>6, Finished DEF Reply
<1> QED
  BY <1>3, <1>4

LEMMA RemoveFileIInv ==
    ASSUME IInv, RemoveFile
    PROVE  IInv'
<1>1. at = "remove" /\ UNCHANGED << scenario, data, space, outsiders >>
  BY DEF RemoveFile
<1>2. /\ client \in Clients /\ StepAt("remove") /\ FilesOK /\ TypeOK /\ RepliesOK
      /\ path \in Seq(STRING) /\ tree \in [Paths -> Entries]
  BY <1>1, Current
<1>3. CASE ~ IsRemovable(path)
  <2>1. Reply(500) /\ Quiet
    BY <1>1, <1>3 DEF RemoveFile, Quiet, fileSystem
  <2> QED
    BY <1>2, <2>1, Replied
<1>4. CASE IsRemovable(path)
  <2>1. path = WithoutSlash(path)
    BY <1>2 DEF StepAt
  <2>2. tree' = [tree EXCEPT ![path] = Absent] /\ Reply(200)
    BY <1>4, <2>1 DEF RemoveFile
  <2>3. path \in Paths /\ (tree[path].kind = "file" \/ Inside(tree, path) = {})
    BY <1>2, <1>4, <2>1, RemovableIs
  <2>4. FilesOK'
    BY <1>1, <1>2, <2>2, <2>3, PathRemoved DEF FilesOK
  <2>5. \A c \in Clients : ReplyOK(replies[c], data')
    BY <1>1, <1>2, RepliesQuiet
  <2>6. 0 \in 0 .. Len(data') /\ << >> \in Seq(Pieces)
    BY <2>4 DEF FilesOK
  <2> QED
    BY <1>1, <1>2, <2>2, <2>4, <2>5, <2>6, Finished, ZenonT(60) DEF Reply
<1> QED
  BY <1>3, <1>4

(* What is sent of a file begins with what was announced of it. *)
LEMMA SendIInv ==
    ASSUME IInv, NEW c \in Clients, Send(c)
    PROVE  IInv'
<1> DEFINE old  == replies[c]
           body == IF old.inode # 0 THEN data[old.inode] ELSE << >>
           new  == [ status |-> old.status, inode |-> old.inode, length |-> old.length,
                     shown |-> old.shown, sent |-> TRUE, body |-> body ]
<1>1. /\ at = "idle" /\ ~ old.sent
      /\ UNCHANGED << scenario, tree, data, space, outsiders, at, client, target, path, turn >>
      /\ UNCHANGED << generate, created, listed, before, disturbed >>
  BY DEF Send, fileSystem, request, history
<1>2. client = NoClient /\ NoRequest /\ TypeOK /\ RepliesOK /\ FilesOK
  BY <1>1 DEF IInv, IdleOK, TypeOK
<1>3. old \in ReplyType /\ ReplyOK(old, data) /\ data \in Seq(Seq(Pieces)) /\ Len(data) \in Nat
  BY <1>2 DEF TypeOK, RepliesOK, FilesOK
<1>4. old.body = << >>
  BY <1>1, <1>3 DEF ReplyOK
<1>5. replies' = [replies EXCEPT ![c] = [old EXCEPT !.sent = TRUE, !.body = body]]
  BY DEF Send
<1>6. body \in Seq(Pieces)
  BY <1>3 DEF ReplyOK
<1>7. new \in ReplyType
  BY <1>3, <1>6 DEF ReplyType
<1>8. ReplyOK(new, data)
  BY <1>3, <1>4 DEF ReplyOK
<1>9. replies' \in [Clients -> ReplyType] /\ replies'[c] = new /\ \A d \in Clients \ {c} : replies'[d] = replies[d]
  <2>1. replies'[c] = [old EXCEPT !.sent = TRUE, !.body = body]
    BY <1>2, <1>5 DEF TypeOK
  <2>2. \A d \in Clients \ {c} : replies'[d] = replies[d]
    BY <1>2, <1>5 DEF TypeOK
  <2> HIDE DEF body
  <2>3. replies'[c] = new
    BY <1>3, <2>1 DEF ReplyType
  <2> HIDE DEF new, old
  <2>4. DOMAIN replies' = Clients /\ replies' = [d \in Clients |-> replies'[d]]
    BY <1>2, <1>5 DEF TypeOK
  <2> QED
    BY <1>2, <1>7, <2>2, <2>3, <2>4 DEF TypeOK
<1> HIDE DEF new, old, body
<1>10. \A d \in Clients : ReplyOK(replies'[d], data')
  BY <1>1, <1>2, <1>8, <1>9 DEF RepliesOK
<1>11. FilesOK'
  BY <1>1, <1>2 DEF FilesOK
<1>12. TypeOK'
  BY <1>1, <1>2, <1>9, <1>11 DEF TypeOK
<1>13. NoRequest'
  BY <1>1, <1>2 DEF NoRequest
<1> QED
  BY <1>10, <1>12, <1>13 DEF IInv, IdleOK, RepliesOK, RequestOK, HiddenOK, NoRequest

(* What others may do to a path. *)
LEMMA OutsideIs ==
    ASSUME FilesOK, scenario' = scenario, space' = space, NEW p \in Shared, Outside(p)
    PROVE  /\ FilesOK' /\ Len(data) =< Len(data') /\ p \in Paths
           /\ \A i \in 1 .. Len(data) : IsPrefix(data[i], data'[i])
           /\ \A q \in Paths \ {p} : Files'[q] = Files[q]
           /\ \A q \in Paths : tree'[q].kind = "file" =>
                 \/ tree[q].kind = "file" /\ tree'[q].inode = tree[q].inode
                 \/ tree'[q].inode = Len(data) + 1
<1>1. p \in Paths /\ space' \in Nat
  BY ClientsAssumption DEF FilesOK
<1>2. /\ tree \in [Paths -> Entries] /\ data \in Seq(Seq(Pieces)) /\ Len(data) \in Nat
      /\ \A i \in 1 .. Len(data) : data[i] \in Seq(Pieces)
  BY DEF FilesOK
<1>3. DOMAIN Files = Paths
  BY DEF Files
<1>4. \A i \in 1 .. Len(data) : IsPrefix(data[i], data[i])
  BY <1>2, PrefixReflexive
<1>5. CASE (tree[p].kind = "file" \/ Inside(tree, p) = {}) /\ tree' = [tree EXCEPT ![p] = Absent] /\ data' = data
  <2>1. FilesOK' /\ Files' = [Files EXCEPT ![p] = Held("absent", << >>, FALSE)]
    BY <1>1, <1>5, PathRemoved
  <2>2. tree'[p].kind = "absent" /\ \A q \in Paths \ {p} : tree'[q] = tree[q]
    BY <1>1, <1>2, <1>5 DEF Absent
  <2>3. \A q \in Paths \ {p} : Files'[q] = Files[q]
    BY <1>1, <1>3, <2>1
  <2> QED
    BY <1>1, <1>2, <1>4, <1>5, <2>1, <2>2, <2>3
<1>6. CASE tree[p].kind = "file" /\ data' = [data EXCEPT ![tree[p].inode] = Append(@, Foreign)] /\ tree' = tree
  <2> DEFINE i == tree[p].inode
             old == data[i]
             content == Append(old, Foreign)
  <2>1. i \in 1 .. Len(data) /\ old \in Seq(Pieces)
    BY <1>1, <1>2, <1>6, FilesType
  <2>2. content \in Seq(Pieces) /\ Len(old) =< Len(content) /\ \A k \in 1 .. Len(old) : old[k] = content[k]
    BY <2>1, ClientsAssumption
  <2>3. data' = [data EXCEPT ![tree[p].inode] = content]
    BY <1>6
  <2> HIDE DEF content, old
  <2>4. IsPrefix(old, content)
    BY <2>1, <2>2, PrefixByElements
  <2>5. /\ FilesOK' /\ Len(data') = Len(data)
        /\ \A k \in 1 .. Len(data) : data'[k] = IF k = tree[p].inode THEN content ELSE data[k]
        /\ Files' = [Files EXCEPT ![p] = Held("file", content, Files[p].sealed)]
    BY <1>1, <1>6, <2>2, <2>3, FileFilled
  <2>6. \A q \in Paths \ {p} : Files'[q] = Files[q]
    BY <1>1, <1>3, <2>5
  <2>7. \A k \in 1 .. Len(data) : IsPrefix(data[k], data'[k])
    BY <1>4, <2>4, <2>5 DEF old
  <2> QED
    BY <1>1, <1>2, <1>6, <2>5, <2>6, <2>7
<1>7. CASE MayCreate(tree, p) /\ tree' = [tree EXCEPT ![p] = File(Len(data) + 1)] /\ data' = Append(data, << Foreign >>)
  <2>1. << Foreign >> \in Seq(Pieces)
    BY ClientsAssumption, Singleton
  <2>2. /\ FilesOK' /\ Len(data') = Len(data) + 1
        /\ \A i \in 1 .. Len(data) : data'[i] = data[i]
        /\ tree'[p].inode = Len(data) + 1
        /\ Files' = [Files EXCEPT ![p] = Held("file", << Foreign >>, FALSE)]
    BY <1>1, <1>7, <2>1, FileMade
  <2>3. \A q \in Paths \ {p} : Files'[q] = Files[q] /\ tree'[q] = tree[q]
    BY <1>1, <1>2, <1>3, <1>7, <2>2
  <2>4. \A i \in 1 .. Len(data) : IsPrefix(data[i], data'[i])
    BY <1>4, <2>2
  <2> QED
    BY <1>1, <1>2, <2>2, <2>3, <2>4
<1>8. CASE MayCreate(tree, p) /\ tree' = [tree EXCEPT ![p] = Directory] /\ data' = data
  <2>1. FilesOK' /\ \A q \in Paths \ {p} : Files'[q] = Files[q]
    BY <1>1, <1>8, DirectoryMade
  <2>2. tree'[p].kind = "directory" /\ \A q \in Paths \ {p} : tree'[q] = tree[q]
    BY <1>1, <1>2, <1>8 DEF Directory
  <2> QED
    BY <1>1, <1>2, <1>4, <1>8, <2>1, <2>2
<1> QED
  BY <1>5, <1>6, <1>7, <1>8 DEF Outside

LEMMA OutsideIInv ==
    ASSUME IInv, NEW p \in Shared, Outside(p)
    PROVE  IInv'
<1>1. /\ outsiders' \in Nat /\ disturbed' = (client # NoClient)
      /\ UNCHANGED << scenario, space, at, client, target, path, turn >>
      /\ UNCHANGED << generate, created, listed, replies, before >>
  BY DEF Outside, request, IInv, TypeOK
<1>2. TypeOK /\ IdleOK /\ RepliesOK /\ RequestOK /\ FilesOK
  BY DEF IInv, TypeOK
<1>3. /\ FilesOK' /\ Len(data) =< Len(data')
      /\ \A i \in 1 .. Len(data) : IsPrefix(data[i], data'[i])
      /\ \A q \in Paths : tree'[q].kind = "file" =>
            \/ tree[q].kind = "file" /\ tree'[q].inode = tree[q].inode
            \/ tree'[q].inode = Len(data) + 1
  BY <1>1, <1>2, OutsideIs
<1>4. Len(data) \in Nat /\ \A c \in Clients : replies[c].inode \in 0 .. Len(data)
  BY <1>2 DEF FilesOK, RepliesOK, ReplyOK
<1>5. \A c \in Clients : ReplyOK(replies[c], data')
  <2>1. \A c \in Clients : replies[c].inode # 0 => IsPrefix(data[replies[c].inode], data'[replies[c].inode])
    BY <1>3, <1>4
  <2> QED
    BY <1>2, <1>3, <2>1, RepliesKept
<1>6. RepliesOK'
  <2>1. ASSUME at = "create", path \in Paths, tree'[path].kind = "file", NEW c \in Clients
        PROVE  replies[c].inode # tree'[path].inode
    BY <1>2, <1>3, <1>4, <2>1 DEF RepliesOK
  <2> QED
    BY <1>1, <1>2, <1>5, <2>1 DEF RepliesOK
<1>7. TypeOK'
  BY <1>1, <1>2, <1>3 DEF TypeOK
<1>8. IdleOK'
  BY <1>1, <1>2 DEF IdleOK, NoRequest
<1>9. RequestOK'
  <2>1. /\ Method' = Method /\ AskedPath' = AskedPath /\ SelectedTarget' = SelectedTarget
    BY <1>1 DEF Method, AskedPath, SelectedTarget
  <2>2. IsForDirectory' = IsForDirectory
    BY <1>1, <2>1 DEF IsForDirectory
  <2>3. PathAt(at)' = PathAt(at) /\ StepAt(at)' = StepAt(at)
    BY <1>1, <2>1, <2>2 DEF PathAt, StepAt
  <2> QED
    BY <1>1, <1>2, <2>1, <2>3 DEF RequestOK
<1> QED
  BY <1>1, <1>6, <1>7, <1>8, <1>9 DEF IInv, HiddenOK

LEMMA StutterIInv ==
    ASSUME IInv, UNCHANGED vars
    PROVE  IInv'
<1>1. /\ UNCHANGED << scenario, tree, data, space, outsiders, at, client, target, path, turn >>
      /\ UNCHANGED << generate, created, listed, replies, before, disturbed >>
  BY DEF vars, fileSystem, request, history
<1>2. TypeOK' /\ IdleOK' /\ RepliesOK'
  BY <1>1 DEF IInv, TypeOK, FilesOK, IdleOK, NoRequest, RepliesOK
<1>3. /\ Method' = Method /\ AskedPath' = AskedPath /\ SelectedTarget' = SelectedTarget
      /\ Files' = Files /\ BeforeTree' = BeforeTree
  BY <1>1 DEF Method, AskedPath, SelectedTarget, Files, BeforeTree
<1>4. IsForDirectory' = IsForDirectory
  BY <1>1, <1>3 DEF IsForDirectory
<1>5. RequestOK'
  <2>1. PathAt(at)' = PathAt(at) /\ StepAt(at)' = StepAt(at)
    BY <1>1, <1>3, <1>4 DEF PathAt, StepAt
  <2> QED
    BY <1>1, <1>3, <2>1 DEF IInv, RequestOK
<1>6. HiddenOK'
  <2>1. HiddenFiles' = HiddenFiles /\ HiddenAt(at)' = HiddenAt(at)
    BY <1>1, <1>3 DEF HiddenFiles, HiddenAt
  <2> QED
    BY <1>1, <2>1 DEF IInv, HiddenOK
<1> QED
  BY <1>2, <1>5, <1>6 DEF IInv

LEMMA ServeIInv ==
    ASSUME IInv, Serve
    PROVE  IInv'
<1>1. CASE \E c \in Clients : Validate(c) \/ Send(c)
  BY <1>1, ValidateIInv, SendIInv
<1>2. CASE SearchIndexFiles \/ AssignResponseResolvedPath \/ HandleCGI
  BY <1>2, SearchIndexFilesIInv, AssignIInv, HandleCGIIInv
<1>3. CASE GetFile \/ NoDirectory \/ CreateStreamFromPath \/ OpenDirectory \/ FormatLines
  BY <1>3, LooksIInv, CreateStreamIInv, OpenDirectoryIInv, FormatLinesIInv
<1>4. CASE ValidSubDirectory \/ CreateFileIfNeeded \/ CreateFile \/ WriteToFile
  BY <1>4, LooksIInv, CreateFileIInv, WriteToFileIInv
<1>5. CASE FindFile \/ RegularOnly \/ RemoveFile
  BY <1>5, LooksIInv, RemoveFileIInv
<1> QED
  BY <1>1, <1>2, <1>3, <1>4, <1>5 DEF Serve

LEMMA StepIInv ==
    ASSUME IInv, [Next]_vars
    PROVE  IInv'
  BY ServeIInv, OutsideIInv, StutterIInv DEF Next

LEMMA Inductive == Spec => []IInv
<1>1. Init => IInv
  BY InitIInv
<1>2. IInv /\ [Next]_vars => IInv'
  BY StepIInv
<1> QED
  BY <1>1, <1>2, PTL DEF Spec

-----------------------------------------------------------------------------

(* The state keeps its type. *)
THEOREM TypeCorrect == Spec => []TypeOK
<1>1. IInv => TypeOK
  BY DEF IInv
<1> QED
  BY <1>1, Inductive, PTL

(***************************************************************************)
(* What is sent of a file begins with what was there when its length was   *)
(* announced: a file that was made for one request is emptied for it only  *)
(* if nobody was promised anything of it.                                  *)
(***************************************************************************)
THEOREM AnnouncedIsSent == Spec => []WhatWasAnnouncedIsSent
<1>1. IInv => WhatWasAnnouncedIsSent
  BY DEF IInv, RepliesOK, ReplyOK, WhatWasAnnouncedIsSent
<1> QED
  BY <1>1, Inductive, PTL

(***************************************************************************)
(* The target of a request is that of the longest location in the first    *)
(* server of its port and name, until it is answered.                      *)
(***************************************************************************)
THEOREM BestLocationServes == Spec => []TheBestLocationServes
<1>1. IInv => TheBestLocationServes
  <2> SUFFICES ASSUME IInv, client # NoClient PROVE TheBestLocationServes
    BY DEF TheBestLocationServes
  <2> DEFINE r      == scenario.requests[client]
             i      == FirstNamed(scenario.servers, Candidate(scenario.servers, r.port), r.host)
             server == ServerSelection(scenario.servers, r.host, r.port)
  <2>1. scenario \in Scenarios /\ client \in Clients /\ SelectedTarget
    BY DEF IInv, TypeOK, RequestOK
  <2>2. /\ i \in DOMAIN scenario.servers /\ server = scenario.servers[i]
        /\ \E l \in DOMAIN server.locations :
              /\ LocationSelection(server, r.path) = server.locations[l]
              /\ IsLocationFor(server.locations, l, r.path)
    BY <2>1, Selected
  <2>3. target = TargetConfig(server, LocationSelection(server, r.path))
    BY <2>1 DEF SelectedTarget
  <2>4. IsServerFor(scenario.servers, i, r)
    <3>1. Candidates(scenario.servers, r.port) = Candidate(scenario.servers, r.port)
      BY DEF Candidates, Candidate, OfPort
    <3> QED
      BY <3>1 DEF IsServerFor, FirstNamed
  <2> HIDE DEF i, server
  <2>5. \E l \in DOMAIN scenario.servers[i].locations :
           /\ IsLocationFor(scenario.servers[i].locations, l, r.path)
           /\ target = TargetConfig(scenario.servers[i], scenario.servers[i].locations[l])
    BY <2>2, <2>3
  <2> QED
    BY <2>2, <2>4, <2>5 DEF TheBestLocationServes
<1> QED
  BY <1>1, Inductive, PTL

-----------------------------------------------------------------------------
(***************************************************************************)
(* The implementation of FileStore: the calls of a request stutter, and    *)
(* the one that answers it is the step.  The operators of FileStore are    *)
(* those of FileSystem.                                                    *)
(***************************************************************************)

LEMMA SameKind == \A t, p : Store!Kind(t, p) = Kind(t, p)
  BY DEF Store!Kind, Kind, Store!Entry, Entry, Store!Absent, Absent

LEMMA SameWithoutSlash == \A p : Store!WithoutSlash(p) = WithoutSlash(p)
  BY DEF Store!WithoutSlash, WithoutSlash, Store!Last, Last, Store!Front, Front

LEMMA SameLastSlash == \A p : Store!LastSlash(p) = LastSlash(p)
  BY DEF Store!LastSlash, LastSlash, Store!SelectLastInSeq, SelectLastInSeq, Store!Max, Max

LEMMA SameParent == \A p : Store!Parent(p) = Parent(p)
  BY SameWithoutSlash, SameLastSlash DEF Store!Parent, Parent

LEMMA SameObstacles == \A t, p : Store!Obstacles(t, p) = Obstacles(t, p)
<1>1. \A p : Store!Ancestors(p) = Ancestors(p)
  BY DEF Store!Ancestors, Ancestors
<1> QED
  BY <1>1, SameKind DEF Store!Obstacles, Obstacles

LEMMA SameStat == \A t, p : Store!Stat(t, p) = Stat(t, p)
<1>1. \A t, p : Store!Obstacle(t, p) = Obstacle(t, p)
  BY SameObstacles DEF Store!Obstacle, Obstacle
<1>2. \A kind : Store!Errno(kind) = Errno(kind)
  BY DEF Store!Errno, Errno
<1> QED
  BY <1>1, <1>2, SameObstacles, SameKind, SameWithoutSlash DEF Store!Stat, Stat

LEMMA SameAnswers ==
    ASSUME NEW t, NEW p
    PROVE  /\ Store!IsThere(t, p) = IsThere(t, p)
           /\ Store!IsDirectory(t, p) = IsDirectory(t, p)
           /\ Store!MayCreate(t, p) = MayCreate(t, p)
<1>1. Store!IsThere(t, p) = IsThere(t, p)
  BY SameStat DEF Store!IsThere, IsThere, Store!Errors, Errors
<1>2. Store!IsDirectory(t, p) = IsDirectory(t, p)
  BY SameStat DEF Store!IsDirectory, IsDirectory, Store!DirectoryKinds, DirectoryKinds
<1>3. Store!MayCreate(t, p) = MayCreate(t, p)
  BY SameObstacles, SameKind, SameParent, SameWithoutSlash DEF Store!MayCreate, MayCreate
<1> QED
  BY <1>1, <1>2, <1>3

(* What the two specifications have in common. *)
ShownFiles == IF IsHidden THEN before.files ELSE Files
ShownSpace == IF IsHidden THEN before.space ELSE space
Answers    == [c \in Clients |-> [status |-> replies[c].status, shown |-> replies[c].shown]]

LEMMA AskedIs ==
    ASSUME IInv, client # NoClient
    PROVE  /\ Asked.path = AskedPath /\ Asked.body = Body
           /\ IsSet(target["cgi_pass"]) => Asked.method = "none"
           /\ ~ IsSet(target["cgi_pass"]) => Asked.method = Method
<1>1. IsAllowedMethod(target, Method) /\ ~ IsSet(target["return"])
  BY DEF IInv, RequestOK
<1> QED
  BY <1>1 DEF Asked, AskedPath, IsAllowedMethod, IsSet

LEMMA FileIsThere ==
    ASSUME FilesOK, NEW p \in Paths
    PROVE  (tree[p].kind = "file" /\ IsThere(tree, p)) <=> Stat(tree, p) = "file"
<1>1. tree \in [Paths -> Entries] /\ p \in Seq(STRING) /\ WithoutSlash(p) = p
  BY PathsLemma DEF FilesOK
<1>2. ASSUME tree[p].kind = "file", IsThere(tree, p) PROVE Stat(tree, p) = "file"
  <2>1. Obstacles(tree, p) = {}
    BY <1>1, <1>2, StatCases DEF IsThere
  <2> QED
    BY <1>1, <1>2, <2>1, StatIsFile
<1>3. ASSUME Stat(tree, p) = "file" PROVE tree[p].kind = "file" /\ IsThere(tree, p)
  BY <1>1, <1>3, StatIsFile DEF IsThere, Errors
<1> QED
  BY <1>2, <1>3

(* What FileStore sees of the files, as the calls see it. *)
LEMMA TreeIs ==
    ASSUME FilesOK, ShownFiles = Files, NEW p
    PROVE  /\ Store!IsThere(Store!Tree, p) = IsThere(tree, p)
           /\ Store!IsDirectory(Store!Tree, p) = IsDirectory(tree, p)
           /\ Store!MayCreate(Store!Tree, p) = MayCreate(tree, p)
           /\ Store!Kind(Store!Tree, Store!Parent(p)) = Kind(tree, Parent(p))
<1> DEFINE t == Store!Tree
<1>1. t = [q \in Paths |-> [kind |-> Files[q].kind, inode |-> 0]]
  BY DEF Store!Tree, ShownFiles
<1> HIDE DEF t
<1>2. DOMAIN t = Paths /\ DOMAIN tree = Paths /\ \A q \in Paths : t[q].kind = tree[q].kind
  BY <1>1, FilesType DEF FilesOK
<1>3. /\ Kind(t, Parent(p)) = Kind(tree, Parent(p)) /\ Stat(t, p) = Stat(tree, p)
      /\ MayCreate(t, p) = MayCreate(tree, p)
  BY <1>2, KindsDecide
<1>4. /\ IsThere(t, p) = IsThere(tree, p) /\ IsDirectory(t, p) = IsDirectory(tree, p)
  BY <1>3 DEF IsThere, IsDirectory
<1> QED
  BY <1>3, <1>4, SameAnswers, SameKind, SameParent DEF t

LEMMA PlainIs ==
    ASSUME FilesOK, ShownFiles = Files, NEW p \in Paths
    PROVE  (Store!IsPlain(p) /\ Store!IsThere(Store!Tree, p)) <=> IsOpenable(p)
<1>1. Store!IsPlain(p) <=> Files[p].kind = "file" /\ ~ Files[p].sealed
  BY DEF Store!IsPlain, ShownFiles
<1>2. Store!IsThere(Store!Tree, p) = IsThere(tree, p)
  BY TreeIs
<1>3. /\ Files[p].kind = tree[p].kind
      /\ tree[p].kind = "file" => (Files[p].sealed <=> tree[p].inode \in scenario.sealed)
  BY FilesType
<1>4. (tree[p].kind = "file" /\ IsThere(tree, p)) <=> Stat(tree, p) = "file"
  BY FileIsThere
<1> QED
  BY <1>1, <1>2, <1>3, <1>4 DEF IsOpenable, Inode

(* What can be done is what the calls can do. *)
LEMMA CanIs ==
    ASSUME FilesOK, ShownFiles = Files
    PROVE  /\ Asked.method = "GET" =>
                (Store!Can(Asked) <=> Asked.path \in Paths /\ IsOpenable(Asked.path))
           /\ Asked.method = "POST" =>
                (Store!Can(Asked) <=> /\ Asked.path \in Paths /\ LastSlash(Asked.path) # 0
                                      /\ IsOpenable(Asked.path) \/ MayCreate(tree, Asked.path))
           /\ Asked.method = "DELETE" =>
                (Store!Can(Asked) <=> /\ Asked.path \in Paths /\ Stat(tree, Asked.path) = "file"
                                      /\ Kind(tree, Parent(Asked.path)) = "directory")
           /\ Asked.method = "none" => ~ Store!Can(Asked)
<1> DEFINE wish == Asked
           p    == wish.path
<1> HIDE DEF wish
<1>1. p \in Paths => (Store!IsPlain(p) /\ Store!IsThere(Store!Tree, p) <=> IsOpenable(p))
  BY PlainIs
<1>2. /\ Store!IsThere(Store!Tree, p) = IsThere(tree, p)
      /\ Store!MayCreate(Store!Tree, p) = MayCreate(tree, p)
      /\ Store!Kind(Store!Tree, Store!Parent(p)) = Kind(tree, Parent(p))
      /\ Store!LastSlash(p) = LastSlash(p)
  BY TreeIs, SameLastSlash
<1>3. p \in Paths => (ShownFiles[p].kind = "file" /\ IsThere(tree, p) <=> Stat(tree, p) = "file")
  BY FileIsThere, FilesType
<1>4. ASSUME wish.method = "GET" PROVE Store!Can(wish) <=> p \in Paths /\ IsOpenable(p)
  <2>1. Store!Can(wish) <=> p \in Paths /\ Store!IsPlain(p) /\ Store!IsThere(Store!Tree, p)
    BY <1>4 DEF Store!Can
  <2> QED
    BY <1>1, <2>1
<1>5. ASSUME wish.method = "POST"
      PROVE  Store!Can(wish) <=> p \in Paths /\ LastSlash(p) # 0 /\ (IsOpenable(p) \/ MayCreate(tree, p))
  <2>1. Store!Can(wish) <=> /\ p \in Paths /\ Store!LastSlash(p) # 0
                            /\ \/ Store!IsPlain(p) /\ Store!IsThere(Store!Tree, p)
                               \/ Store!MayCreate(Store!Tree, p)
    BY <1>5 DEF Store!Can
  <2> QED
    BY <1>1, <1>2, <2>1
<1>6. ASSUME wish.method = "DELETE"
      PROVE  Store!Can(wish) <=> /\ p \in Paths /\ Stat(tree, p) = "file"
                                 /\ Kind(tree, Parent(p)) = "directory"
  <2>1. Store!Can(wish) <=> /\ p \in Paths /\ ShownFiles[p].kind = "file"
                            /\ Store!IsThere(Store!Tree, p)
                            /\ Store!Kind(Store!Tree, Store!Parent(p)) = "directory"
    BY <1>6 DEF Store!Can, ShownFiles
  <2> QED
    BY <1>2, <1>3, <2>1
<1>7. ASSUME wish.method = "none" PROVE ~ Store!Can(wish)
  BY <1>7 DEF Store!Can
<1> QED
  BY <1>4, <1>5, <1>6, <1>7 DEF wish

LEMMA Undisturbed ==
    ASSUME IInv, client # NoClient, ~ disturbed, ~ created
    PROVE  ShownFiles = Files /\ ShownSpace = space
  BY DEF IInv, HiddenOK, HiddenFiles, ShownFiles, ShownSpace, IsHidden

Stays == UNCHANGED << scenario, client, target, before, disturbed, replies >>

(* While a request is carried out and nobody interferes, nothing is seen of it. *)
LEMMA Stutters ==
    ASSUME Stays, IsHidden \/ (Files' = Files /\ space' = space)
    PROVE  UNCHANGED Store!vars
<1>1. UNCHANGED << client, disturbed, Answers, Asked >>
  BY DEF Stays, Asked, Answers, Method, Body, Located
<1>2. UNCHANGED << ShownFiles, ShownSpace >>
  BY DEF Stays, ShownFiles, ShownSpace, IsHidden
<1> QED
  BY <1>1, <1>2 DEF Store!vars, ShownFiles, ShownSpace, Answers

LEMMA QuietStays ==
    ASSUME UNCHANGED << scenario, tree, data, space, client, target, before, disturbed, replies >>
    PROVE  UNCHANGED Store!vars
  BY Stutters DEF Stays, Files

(* The call that answers a request shows what was done for it. *)
LEMMA Shows ==
    ASSUME IInv, client \in Clients, NEW status, NEW inode, NEW length, NEW shown,
           FormResponse(status, inode, length, shown)
    PROVE  /\ Store!Done(status, shown)
           /\ client' = NoClient /\ Asked' = Store!NoWish /\ disturbed' = FALSE
           /\ ShownFiles' = Files' /\ ShownSpace' = space'
           /\ Answers' = [Answers EXCEPT ![client] = [status |-> status, shown |-> shown]]
<1> DEFINE old == replies[client]
           new == [old EXCEPT !.status = status, !.inode = inode, !.length = length, !.shown = shown]
<1>1. /\ replies \in [Clients -> ReplyType]
      /\ replies' = [replies EXCEPT ![client] = new]
  BY DEF IInv, TypeOK, FormResponse
<1>2. old \in ReplyType
  BY <1>1
<1> HIDE DEF old
<1>3. new.status = status /\ new.shown = shown
  BY <1>2 DEF ReplyType
<1> HIDE DEF new
<1>4. Answers' = [Answers EXCEPT ![client] = [status |-> status, shown |-> shown]]
  <2>1. /\ DOMAIN Answers = Clients /\ DOMAIN Answers' = Clients
        /\ \A c \in Clients : Answers'[c] = [status |-> replies'[c].status, shown |-> replies'[c].shown]
        /\ \A c \in Clients : Answers[c] = [status |-> replies[c].status, shown |-> replies[c].shown]
    BY DEF Answers
  <2>2. /\ replies'[client] = new /\ \A c \in Clients \ {client} : replies'[c] = replies[c]
    BY <1>1
  <2>3. Answers'[client] = [status |-> status, shown |-> shown]
    BY <1>3, <2>1, <2>2
  <2>4. \A c \in Clients \ {client} : Answers'[c] = Answers[c]
    BY <2>1, <2>2
  <2>5. Answers = [c \in Clients |-> Answers[c]] /\ Answers' = [c \in Clients |-> Answers'[c]]
    BY DEF Answers
  <2> HIDE DEF Answers
  <2> QED
    BY <2>1, <2>3, <2>4, <2>5
<1>5. client' = NoClient /\ disturbed' = FALSE
  BY DEF FormResponse
<1>6. Asked' = Store!NoWish
  BY <1>5 DEF Asked, Store!NoWish
<1>7. ShownFiles' = Files' /\ ShownSpace' = space'
  BY <1>5 DEF ShownFiles, ShownSpace, IsHidden
<1>8. Store!Done(status, shown)
  BY <1>4, <1>5, <1>6 DEF Store!Done, Answers
<1> QED
  BY <1>4, <1>5, <1>6, <1>7, <1>8

(* An answer that refuses. *)
LEMMA Refuses ==
    ASSUME IInv, client \in Clients, client # NoClient, Quiet, ~ disturbed, ~ created, ~ Store!Can(Asked),
           NEW status \in Store!Statuses, Asked.method # "none" => status >= 400, Reply(status)
    PROVE  Store!Next
<1>1. ShownFiles = Files /\ ShownSpace = space
  BY Undisturbed
<1>2. Files' = Files /\ space' = space
  BY DEF Quiet, fileSystem, Files
<1>3. Store!Done(status, << >>) /\ ShownFiles' = Files' /\ ShownSpace' = space'
  BY Shows DEF Reply
<1>4. Store!Untouched
  BY <1>1, <1>2, <1>3 DEF Store!Untouched, ShownFiles, ShownSpace
<1>5. Store!Refuse
  BY <1>3, <1>4 DEF Store!Refuse
<1> QED
  BY <1>5 DEF Store!Next

(* Only the file a request may write is touched. *)
TouchesOne ==
    \A p \in Paths : Files'[p] # Files[p] => Asked.method \in { "POST", "DELETE" } /\ p = Asked.path

(* While others interfere. *)
LEMMA Continues ==
    ASSUME IInv, client \in Clients, client # NoClient, disturbed, TouchesOne,
           \/ Stays
           \/ \E status, inode, length, shown : FormResponse(status, inode, length, shown)
    PROVE  Store!Next
<1>1. ShownFiles = Files
  BY DEF ShownFiles, IsHidden
<1>2. CASE Stays
  <2>1. ShownFiles' = Files' /\ UNCHANGED << client, disturbed, Answers, Asked >>
    BY <1>2 DEF ShownFiles, IsHidden, Stays, Asked, Answers, Method, Body, Located
  <2>2. Store!OnlyItsFile({})
    BY <1>1, <2>1 DEF Store!OnlyItsFile, Store!Writes, TouchesOne, ShownFiles
  <2>3. Store!Continue
    BY <2>1, <2>2 DEF Store!Continue, Answers
  <2> QED
    BY <2>3 DEF Store!Next
<1>3. ASSUME NEW status, NEW inode, NEW length, NEW shown, FormResponse(status, inode, length, shown)
      PROVE  Store!Next
  <2>1. /\ client' = NoClient /\ Asked' = Store!NoWish /\ disturbed' = FALSE /\ ShownFiles' = Files'
        /\ Answers' = [Answers EXCEPT ![client] = [status |-> status, shown |-> shown]]
    BY <1>3, Shows
  <2>2. Store!OnlyItsFile({})
    BY <1>1, <2>1 DEF Store!OnlyItsFile, Store!Writes, TouchesOne, ShownFiles
  <2>3. \A c \in Clients \ {client} : Answers'[c] = Answers[c]
    BY <2>1 DEF Answers
  <2>4. Store!Continue
    BY <2>1, <2>2, <2>3 DEF Store!Continue, Answers
  <2> QED
    BY <2>4 DEF Store!Next
<1> QED
  BY <1>2, <1>3

LEMMA Ends ==
    ASSUME IInv, client \in Clients, client # NoClient, Quiet, NEW status \in Store!Statuses, Reply(status),
           ~ disturbed => ~ created /\ ~ Store!Can(Asked) /\ (Asked.method # "none" => status >= 400)
    PROVE  Store!Next
<1>1. CASE ~ disturbed
  BY <1>1, Refuses
<1>2. CASE disturbed
  <2>1. TouchesOne
    BY DEF Quiet, fileSystem, Files, TouchesOne
  <2>2. \E s, inode, length, shown : FormResponse(s, inode, length, shown)
    BY DEF Reply
  <2> QED
    BY <1>2, <2>1, <2>2, Continues
<1> QED
  BY <1>1, <1>2

(* A path with a slash at its end is that of no file. *)
LEMMA CannotDirectory ==
    ASSUME IInv, client # NoClient, ~ disturbed, ~ created, EndsInSlash(AskedPath)
    PROVE  ~ Store!Can(Asked)
<1>1. FilesOK /\ ShownFiles = Files /\ Asked.path = AskedPath
  BY Undisturbed, AskedIs DEF IInv, TypeOK
<1>2. Asked.path \notin Paths
  BY <1>1, PathsAssumption
<1>3. Asked.method \in { "GET", "POST", "DELETE", "none" }
  <2>1. client \in Clients
    BY DEF IInv, TypeOK
  <2> QED
    BY <2>1, AskedIs, ScenarioType DEF IInv, TypeOK, Method
<1> QED
  BY <1>1, <1>2, <1>3, CanIs

LEMMA AskedType == IInv /\ client # NoClient => Asked \in Store!Wishes
<1> SUFFICES ASSUME IInv, client # NoClient PROVE Asked \in Store!Wishes
  OBVIOUS
<1>1. at # "idle"
  BY DEF IInv, IdleOK
<1>2. Method \in { "GET", "POST", "DELETE" } /\ Body \in Seq(Pieces) /\ AskedPath \in Seq(STRING)
  BY <1>1, Current
<1>3. Asked = [method |-> Asked.method, path |-> AskedPath, body |-> Body]
  BY DEF Asked, AskedPath
<1>4. Asked.method \in { "GET", "POST", "DELETE", "none" }
  BY <1>2, AskedIs
<1> QED
  BY <1>2, <1>3, <1>4 DEF Store!Wishes

LEMMA InitMaps ==
    ASSUME Init, IInv
    PROVE  Store!Init
<1>1. FilesOK /\ client = NoClient /\ disturbed = FALSE
  BY DEF Init, NoRequest, IInv, TypeOK
<1>2. ShownFiles = Files /\ ShownSpace = space
  BY <1>1 DEF ShownFiles, ShownSpace, IsHidden
<1>3. Asked = Store!NoWish
  BY <1>1 DEF Asked, Store!NoWish
<1>4. Answers = [c \in Clients |-> Store!NoAnswer]
  BY DEF Init, NoReply, Answers, Store!NoAnswer
<1>5. Files \in [Paths -> [kind : Store!DirectoryKinds \cup { "absent", "file" }, content : Seq(Pieces), sealed : BOOLEAN]]
  BY <1>1, FilesType DEF Store!DirectoryKinds, DirectoryKinds
<1>6. space \in Nat
  BY <1>1 DEF FilesOK
<1> QED
  BY <1>1, <1>2, <1>3, <1>4, <1>5, <1>6 DEF Store!Init, ShownFiles, ShownSpace, Answers

(* A request comes, or is answered at once. *)
LEMMA ValidateMaps ==
    ASSUME IInv, IInv', NEW c \in Clients, Validate(c)
    PROVE  Store!Next
<1> DEFINE r == scenario.requests[c]
           server == ServerSelection(scenario.servers, r.host, r.port)
           config == TargetConfig(server, LocationSelection(server, r.path))
<1>1. /\ at = "idle" /\ replies[c] = NoReply /\ Quiet
      /\ Answered(c, config) \/ Resolve(c, r, config)
  BY DEF Validate, Quiet
<1>2. client = NoClient /\ ~ disturbed /\ TypeOK
  BY <1>1 DEF IInv, IdleOK, NoRequest
<1>3. IsTarget(config)
  BY <1>2, Selected DEF TypeOK
<1>4. ShownFiles = Files /\ ShownSpace = space /\ Files' = Files /\ space' = space
  BY <1>1, <1>2 DEF ShownFiles, ShownSpace, IsHidden, Quiet, fileSystem, Files
<1>5. Answers[c] = Store!NoAnswer
  BY <1>1 DEF Answers, NoReply, Store!NoAnswer
<1> HIDE DEF config
<1>6. CASE Answered(c, config)
  <2>1. PICK status \in Store!Statuses : ReplyTo(c, status)
    <3>1. 405 \in Store!Statuses /\ (IsSet(config["return"]) => config["return"][1] \in Store!Statuses)
      BY <1>3 DEF IsTarget, Store!Statuses
    <3> QED
      BY <1>6, <3>1 DEF Answered
  <2>2. UNCHANGED << client, disturbed >> /\ scenario' = scenario
    BY <1>1, <1>6 DEF Answered, request, history, Quiet
  <2>3. /\ ShownFiles' = ShownFiles /\ ShownSpace' = ShownSpace /\ Asked' = Asked
    BY <1>2, <1>4, <2>2 DEF ShownFiles, ShownSpace, IsHidden, Asked
  <2>4. Answers' = [Answers EXCEPT ![c] = [Store!NoAnswer EXCEPT !.status = status]]
    <3> DEFINE old == replies[c]
               new == [old EXCEPT !.status = status]
    <3>1. replies \in [Clients -> ReplyType] /\ replies' = [replies EXCEPT ![c] = new]
      BY <1>2, <2>1 DEF TypeOK, ReplyTo
    <3>2. old \in ReplyType /\ old.shown = << >>
      <4>1. old \in ReplyType
        BY <3>1
      <4>2. old.shown = << >>
        BY <1>1 DEF NoReply
      <4> QED
        BY <4>1, <4>2
    <3> HIDE DEF old
    <3>3. new.status = status /\ new.shown = << >>
      BY <3>2 DEF ReplyType
    <3> HIDE DEF new
    <3>4. replies'[c] = new /\ \A d \in Clients \ {c} : replies'[d] = replies[d]
      BY <3>1
    <3> DEFINE answer == [status |-> status, shown |-> << >>]
    <3>5. Answers'[c] = answer /\ \A d \in Clients \ {c} : Answers'[d] = Answers[d]
      BY <3>3, <3>4 DEF Answers
    <3>6. Answers = [d \in Clients |-> Answers[d]] /\ Answers' = [d \in Clients |-> Answers'[d]]
      BY DEF Answers
    <3>7. [Store!NoAnswer EXCEPT !.status = status] = answer
      BY DEF Store!NoAnswer
    <3> HIDE DEF answer, Answers
    <3>8. Answers' = [Answers EXCEPT ![c] = answer]
      BY <3>5, <3>6
    <3> QED
      BY <3>7, <3>8
  <2>5. Store!Reject(c)
    BY <1>2, <1>5, <2>2, <2>3, <2>4 DEF Store!Reject, ShownFiles, ShownSpace, Answers
  <2> QED
    BY <2>5 DEF Store!Next
<1>7. CASE Resolve(c, r, config)
  <2>1. /\ client' = c /\ before' = [files |-> Files, space |-> space] /\ disturbed' = disturbed /\ replies' = replies
    BY <1>7 DEF Resolve
  <2>2. c # NoClient
    BY ClientsAssumption
  <2>3. ShownFiles' = ShownFiles /\ ShownSpace' = ShownSpace
    BY <1>2, <1>4, <2>1, <2>2 DEF ShownFiles, ShownSpace, IsHidden
  <2>4. Answers' = Answers
    BY <2>1 DEF Answers
  <2>5. Asked' \in Store!Wishes
    <3>1. (IInv /\ client # NoClient => Asked \in Store!Wishes)'
      BY AskedType, PTL
    <3> QED
      BY <2>1, <2>2, <3>1
  <2>6. Store!Begin(c)
    BY <1>2, <1>5, <2>1, <2>3, <2>4, <2>5 DEF Store!Begin, ShownFiles, ShownSpace, Answers
  <2> QED
    BY <2>6 DEF Store!Next
<1> QED
  BY <1>1, <1>6, <1>7

(* What is known when a call of a request is made. *)
LEMMA Due ==
    ASSUME IInv, at # "idle"
    PROVE  /\ client \in Clients /\ client # NoClient /\ FilesOK /\ path \in Seq(STRING)
           /\ tree \in [Paths -> Entries]
           /\ PathAt(at) /\ StepAt(at)
           /\ ~ disturbed => HiddenFiles /\ HiddenAt(at)
           /\ ~ disturbed /\ ~ created => ShownFiles = Files /\ ShownSpace = space
           /\ Asked.path = AskedPath /\ Asked.body = Body
           /\ Method \in { "GET", "POST", "DELETE" } /\ Body \in Seq(Pieces)
           /\ IsSet(target["cgi_pass"]) => Asked.method = "none"
           /\ ~ IsSet(target["cgi_pass"]) => Asked.method = Method
           /\ IsForDirectory /\ ~ disturbed /\ ~ created => ~ Store!Can(Asked)
<1>1. client # NoClient
  BY Current
<1>2. IsForDirectory /\ ~ disturbed /\ ~ created => ~ Store!Can(Asked)
  BY <1>1, CannotDirectory DEF IsForDirectory
<1> QED
  BY <1>1, <1>2, Current, Undisturbed, AskedIs

LEMMA GoesOn ==
    ASSUME NEW step, Goto(step), Quiet
    PROVE  UNCHANGED Store!vars
  BY QuietStays DEF Goto, Quiet, fileSystem, request, history

LEMMA StatusesAre ==
    /\ { 200, 301, 400, 403, 404, 405, 431, 500, 502 } \subseteq Store!Statuses
    /\ \A errno : FileHandlingError(errno) \in Store!Statuses /\ FileHandlingError(errno) >= 400
<1>1. \A errno : FileHandlingError(errno) \in { 403, 404, 500 }
  BY DEF FileHandlingError
<1> QED
  BY <1>1 DEF Store!Statuses

LEMMA AssignMaps ==
    ASSUME IInv, AssignResponseResolvedPath
    PROVE  Store!Next \/ UNCHANGED Store!vars
<1>1. at = "assign" /\ Quiet
  BY DEF AssignResponseResolvedPath, Quiet
<1>2. /\ client \in Clients /\ client # NoClient /\ PathAt("assign") /\ StepAt("assign")
      /\ IsForDirectory /\ ~ disturbed /\ ~ created => ~ Store!Can(Asked)
  BY <1>1, Due
<1>3. ~ created
  BY <1>2 DEF StepAt
<1>4. CASE (path = << >> /\ Reply(404)) \/ (EndsInSlash(path) /\ Reply(403))
  <2>1. ~ disturbed => ~ Store!Can(Asked)
    <3>1. CASE IsForDirectory
      BY <1>2, <1>3, <3>1
    <3>2. CASE ~ IsForDirectory
      <4>1. path = AskedPath /\ path # << >>
        BY <1>1, <1>2, <3>2, Current DEF PathAt
      <4> QED
        BY <1>2, <1>3, <1>4, <4>1, CannotDirectory
    <3> QED
      BY <3>1, <3>2
  <2>2. 404 \in Store!Statuses /\ 403 \in Store!Statuses
    BY StatusesAre
  <2> QED
    BY <1>1, <1>2, <1>3, <1>4, <2>1, <2>2, Ends
<1>5. CASE Goto(Handler)
  BY <1>1, <1>5, GoesOn
<1>6. \/ path = << >> /\ Reply(404)
      \/ EndsInSlash(path) /\ Reply(403)
      \/ Goto(Handler)
  BY DEF AssignResponseResolvedPath
<1> QED
  BY <1>4, <1>5, <1>6

LEMMA HandleCGIMaps ==
    ASSUME IInv, HandleCGI
    PROVE  Store!Next
<1>1. at = "cgi" /\ Quiet
  BY DEF HandleCGI, Quiet
<1>2. client \in Clients /\ client # NoClient /\ FilesOK /\ StepAt("cgi")
      /\ (~ disturbed /\ ~ created => ShownFiles = Files)
      /\ (IsSet(target["cgi_pass"]) => Asked.method = "none")
  BY <1>1, Due
<1>3. Asked.method = "none" /\ ~ created
  BY <1>2 DEF StepAt
<1>4. ~ disturbed => ~ Store!Can(Asked)
  BY <1>2, <1>3, CanIs
<1>5. PICK status \in Store!Statuses : Reply(status)
  BY StatusesAre DEF HandleCGI
<1> QED
  BY <1>1, <1>2, <1>3, <1>4, <1>5, Ends

(* A look goes on, or refuses what cannot be done. *)
LEMMA LooksMaps ==
    ASSUME IInv, GetFile \/ NoDirectory \/ CreateFileIfNeeded \/ FindFile \/ RegularOnly
    PROVE  Store!Next \/ UNCHANGED Store!vars
<1>1. at \in { "get", "kind", "look", "find", "regular" } /\ Quiet
  BY DEF GetFile, NoDirectory, CreateFileIfNeeded, FindFile, RegularOnly, Quiet
<1>2. /\ client \in Clients /\ client # NoClient /\ FilesOK /\ PathAt(at) /\ StepAt(at)
      /\ path \in Seq(STRING) /\ tree \in [Paths -> Entries]
      /\ ~ disturbed /\ ~ created => ShownFiles = Files
      /\ Asked.path = AskedPath
      /\ ~ IsSet(target["cgi_pass"]) => Asked.method = Method
      /\ IsForDirectory /\ ~ disturbed /\ ~ created => ~ Store!Can(Asked)
  BY <1>1, Due
<1>3. ~ created /\ ~ IsSet(target["cgi_pass"]) /\ Asked.method = Method
  BY <1>1, <1>2 DEF StepAt
<1>4. IsForDirectory \/ path = AskedPath
  BY <1>1, <1>2 DEF PathAt
<1>5. ASSUME Stat(tree, path) # "file", ~ disturbed, Method \in { "GET", "DELETE" } PROVE ~ Store!Can(Asked)
  <2>1. CASE path = AskedPath
    BY <1>2, <1>3, <1>5, <2>1, CanIs DEF IsOpenable
  <2> QED
    BY <1>2, <1>3, <1>4, <1>5, <2>1
<1>6. ASSUME NEW status \in Store!Statuses, status >= 400, Reply(status), Stat(tree, path) # "file",
             Method \in { "GET", "DELETE" }
      PROVE  Store!Next
  BY <1>1, <1>2, <1>3, <1>5, <1>6, Ends
<1>7. ASSUME NEW step, Goto(step) PROVE UNCHANGED Store!vars
  BY <1>1, <1>7, GoesOn
<1>8. ~ IsThere(tree, path) \/ IsDirectory(tree, path) => Stat(tree, path) # "file"
  BY DEF IsThere, Errors, IsDirectory, DirectoryKinds
<1>9. CASE GetFile
  <2>1. Method \in { "GET", "DELETE" }
    BY <1>2, <1>9 DEF GetFile, StepAt
  <2>2. CASE Goto("kind")
    BY <1>7, <2>2
  <2>3. CASE ~ IsThere(tree, path) /\ Reply(FileHandlingError(Stat(tree, path)))
    BY <1>6, <1>8, <2>1, <2>3, StatusesAre
  <2> QED
    BY <1>9, <2>2, <2>3 DEF GetFile
<1>10. CASE NoDirectory
  <2>1. Method \in { "GET", "DELETE" }
    BY <1>2, <1>10 DEF NoDirectory, StepAt
  <2>2. CASE Goto("open")
    BY <1>7, <2>2
  <2>3. CASE IsDirectory(tree, path) /\ Reply(404)
    BY <1>6, <1>8, <2>1, <2>3, StatusesAre
  <2> QED
    BY <1>10, <2>2, <2>3 DEF NoDirectory
<1>11. CASE CreateFileIfNeeded
  BY <1>7, <1>11 DEF CreateFileIfNeeded
<1>12. CASE FindFile
  <2>1. Method \in { "GET", "DELETE" }
    BY <1>2, <1>12 DEF FindFile, StepAt
  <2>2. CASE Goto("regular")
    BY <1>7, <2>2
  <2>3. CASE ~ IsThere(tree, path) /\ Reply(FileHandlingError(Stat(tree, path)))
    BY <1>6, <1>8, <2>1, <2>3, StatusesAre
  <2> QED
    BY <1>12, <2>2, <2>3 DEF FindFile
<1>13. CASE RegularOnly
  <2>1. Method \in { "GET", "DELETE" }
    BY <1>2, <1>13 DEF RegularOnly, StepAt
  <2>2. CASE Goto("remove")
    BY <1>7, <2>2
  <2>3. CASE Stat(tree, path) # "file" /\ Reply(403)
    BY <1>6, <2>1, <2>3, StatusesAre
  <2> QED
    BY <1>13, <2>2, <2>3 DEF RegularOnly, IsRegularFile
<1> QED
  BY <1>9, <1>10, <1>11, <1>12, <1>13

(* A file is fetched, or one of the files of a directory. *)
LEMMA FetchMaps ==
    ASSUME IInv, CreateStreamFromPath
    PROVE  Store!Next
<1>1. at = "open" /\ Quiet
  BY DEF CreateStreamFromPath, Quiet
<1>2. /\ client \in Clients /\ client # NoClient /\ FilesOK /\ PathAt("open") /\ StepAt("open")
      /\ path \in Seq(STRING) /\ tree \in [Paths -> Entries]
      /\ ~ disturbed /\ ~ created => ShownFiles = Files /\ ShownSpace = space
      /\ Asked.path = AskedPath
      /\ ~ IsSet(target["cgi_pass"]) => Asked.method = Method
      /\ IsForDirectory /\ ~ disturbed /\ ~ created => ~ Store!Can(Asked)
      /\ AskedPath # << >>
  BY <1>1, Due, Current
<1>3. ~ created /\ Asked.method = "GET"
  BY <1>2 DEF StepAt
<1>4. (IsForDirectory /\ IsPrefix(AskedPath, path)) \/ path = AskedPath
  BY <1>2 DEF PathAt, StepAt
<1>5. CASE ~ IsOpenable(path) /\ Reply(500)
  <2>1. ASSUME ~ disturbed PROVE ~ Store!Can(Asked)
    <3>1. CASE path = AskedPath
      BY <1>2, <1>3, <1>5, <2>1, <3>1, CanIs
    <3>2. CASE IsForDirectory
      BY <1>2, <1>3, <2>1, <3>2
    <3> QED
      BY <1>4, <3>1, <3>2
  <2>2. 500 \in Store!Statuses
    BY StatusesAre
  <2> QED
    BY <1>1, <1>2, <1>3, <1>5, <2>1, <2>2, Ends
<1>6. CASE IsOpenable(path)
  <2> DEFINE i == Inode(tree, path)
  <2>1. /\ path \in Paths /\ tree[path].kind = "file" /\ i = tree[path].inode
    BY <1>2, <1>6, OpenableIs
  <2>2. data[i] = Files[path].content
    BY <1>2, <2>1, FilesType
  <2>3. FormResponse(200, i, Len(data[i]), data[i])
    BY <1>6 DEF CreateStreamFromPath, StreamSize
  <2> PICK inode, length, shown : inode = i /\ length = Len(data[i]) /\ shown = data[i]
    OBVIOUS
  <2>4. FormResponse(200, inode, length, shown)
    BY <2>3 DEF FormResponse
  <2>5. Store!Done(200, shown) /\ ShownFiles' = Files' /\ ShownSpace' = space'
    BY <1>2, <2>4, Shows, ZenonT(60)
  <2>6. Files' = Files /\ space' = space
    BY <1>1 DEF Quiet, fileSystem, Files
  <2>7. CASE disturbed
    <3>1. TouchesOne
      BY <2>6 DEF TouchesOne
    <3>2. \E s, n, l, content : FormResponse(s, n, l, content)
      BY <2>4
    <3> QED
      BY <1>2, <2>7, <3>1, <3>2, Continues
  <2>8. CASE ~ disturbed
    <3>1. ShownFiles = Files /\ ShownSpace = space
      BY <1>2, <1>3, <2>8
    <3>2. Store!Untouched
      BY <2>5, <2>6, <3>1 DEF Store!Untouched, ShownFiles, ShownSpace
    <3>3. shown = ShownFiles[path].content
      BY <2>2, <3>1
    <3>4. CASE path = AskedPath
      <4>1. Store!Can(Asked)
        BY <1>2, <1>3, <1>6, <2>1, <3>1, <3>4, CanIs
      <4>2. Store!Done(200, ShownFiles[Asked.path].content)
        BY <1>2, <2>5, <3>3, <3>4 DEF Store!Done
      <4>3. Store!Fetch
        BY <1>3, <2>8, <3>2, <4>1, <4>2 DEF Store!Fetch, ShownFiles
      <4> QED
        BY <1>2, <4>3 DEF Store!Next
    <3>5. CASE IsForDirectory /\ IsPrefix(AskedPath, path)
      <4>1. AskedPath # << >> /\ Store!Last(AskedPath) = "/"
        BY <1>2, <3>5 DEF IsForDirectory, EndsInSlash, Last, Store!Last
      <4>2. Store!IsPlain(path) /\ Store!IsThere(Store!Tree, path)
        BY <1>2, <1>6, <2>1, <3>1, PlainIs
      <4>3. Store!IsPrefix(AskedPath, path)
        BY <3>5 DEF IsPrefix, Store!IsPrefix
      <4>4. Store!Done(200, ShownFiles[path].content)
        BY <2>5, <3>3 DEF Store!Done
      <4>5. Store!Index
        <5>1. \E q \in Paths : /\ Store!IsPrefix(Asked.path, q) /\ Store!IsPlain(q) /\ Store!IsThere(Store!Tree, q)
                              /\ Store!Done(200, ShownFiles[q].content)
          BY <1>2, <2>1, <4>2, <4>3, <4>4 DEF Store!Done
        <5> QED
          BY <1>2, <1>3, <2>8, <3>2, <4>1, <5>1 DEF Store!Index, ShownFiles
      <4> QED
        BY <1>2, <4>5 DEF Store!Next
    <3> QED
      BY <1>4, <3>4, <3>5
  <2> QED
    BY <2>7, <2>8
<1> QED
  BY <1>5, <1>6 DEF CreateStreamFromPath

(* A list of a directory. *)
LEMMA ListMaps ==
    ASSUME IInv, OpenDirectory \/ FormatLines
    PROVE  Store!Next \/ UNCHANGED Store!vars
<1>1. at \in { "list", "entries" } /\ Quiet
  BY DEF OpenDirectory, FormatLines, Quiet
<1>2. /\ client \in Clients /\ client # NoClient /\ FilesOK /\ PathAt(at) /\ StepAt(at)
      /\ ~ disturbed => HiddenAt(at)
      /\ ~ disturbed /\ ~ created => ShownFiles = Files /\ ShownSpace = space
      /\ Asked.path = AskedPath
      /\ ~ IsSet(target["cgi_pass"]) => Asked.method = Method
      /\ IsForDirectory /\ ~ disturbed /\ ~ created => ~ Store!Can(Asked)
      /\ AskedPath # << >>
  BY <1>1, Due, Current
<1>3. ~ created /\ generate /\ path = AskedPath /\ IsForDirectory
  BY <1>1, <1>2 DEF StepAt, PathAt
<1>4. CASE Reply(500)
  <2>1. 500 \in Store!Statuses
    BY StatusesAre
  <2> QED
    BY <1>1, <1>2, <1>3, <1>4, <2>1, Ends
<1>5. CASE UNCHANGED << client, target, path, turn, generate, created, before, disturbed, replies >>
  BY <1>1, <1>5, QuietStays DEF Quiet, fileSystem
<1>6. CASE FormatLines /\ Reply(200)
  <2>1. CASE disturbed
    <3>1. 200 \in Store!Statuses
      BY StatusesAre
    <3> QED
      BY <1>1, <1>2, <1>6, <2>1, <3>1, Ends
  <2>2. CASE ~ disturbed
    <3>1. IsDirectory(tree, path)
      BY <1>2, <1>6, <2>2 DEF HiddenAt, FormatLines
    <3>2. ShownFiles = Files /\ ShownSpace = space
      BY <1>2, <1>3, <2>2
    <3>3. Store!IsDirectory(Store!Tree, AskedPath)
      BY <1>2, <1>3, <3>1, <3>2, TreeIs
    <3>4. Store!Done(200, << >>) /\ ShownFiles' = Files' /\ ShownSpace' = space'
      BY <1>2, <1>6, Shows, ZenonT(60) DEF Reply
    <3>5. Store!Untouched
      BY <1>1, <3>2, <3>4 DEF Store!Untouched, ShownFiles, ShownSpace, Quiet, fileSystem, Files
    <3>6. AskedPath # << >> /\ Store!Last(AskedPath) = "/" /\ Asked.method = "GET"
      BY <1>2, <1>3 DEF IsForDirectory, EndsInSlash, Last, Store!Last
    <3>7. Store!Index
      BY <1>2, <2>2, <3>3, <3>4, <3>5, <3>6 DEF Store!Index
    <3> QED
      BY <1>2, <3>7 DEF Store!Next
  <2> QED
    BY <2>1, <2>2
<1>7. \/ Reply(500)
      \/ FormatLines /\ Reply(200)
      \/ UNCHANGED << client, target, path, turn, generate, created, before, disturbed, replies >>
  BY DEF OpenDirectory, FormatLines, history
<1> QED
  BY <1>4, <1>5, <1>6, <1>7

(* A path that may be read or made lies in a directory. *)
LEMMA InDirectory ==
    ASSUME NEW P, NEW t \in [P -> Entries], NEW p \in Seq(STRING), p # << >>, LastSlash(p) # 0, Obstacles(t, p) = {}
    PROVE  DirectoryPath(p) = << "/" >> \/ IsDirectory(t, DirectoryPath(p))
<1> DEFINE l == LastSlash(p)
           d == SubSeq(p, 1, l)
           a == SubSeq(p, 1, l - 1)
<1>1. l \in 1 .. Len(p) /\ p[l] = "/" /\ Len(p) \in Nat
  BY LastSlashIs
<1>2. DirectoryPath(p) = d
  BY DEF DirectoryPath
<1> HIDE DEF l
<1>3. d \in Seq(STRING) /\ Len(d) = l /\ (\A i \in 1 .. l : d[i] = p[i]) /\ a \in Seq(STRING)
  BY <1>1
<1>4. CASE l = 1
  <2>1. "/" \in STRING
    BY <1>1
  <2>2. Len(d) = 1 /\ d[1] = "/" /\ d \in Seq(STRING)
    BY <1>1, <1>3, <1>4
  <2> HIDE DEF d
  <2>3. d = << "/" >>
    BY <2>1, <2>2
  <2> QED
    BY <1>2, <2>3
<1>5. CASE l # 1
  <2>1. l \in 2 .. Len(p)
    BY <1>1, <1>5
  <2>2. a \in Ancestors(p)
    BY <1>1, <2>1, AncestorOf
  <2>3. Kind(t, a) \in { "directory", "closed" }
    BY <2>2 DEF Obstacles
  <2>4. WithoutSlash(d) = a
    <3>1. Last(d) = "/" /\ Len(d) > 1
      BY <1>1, <1>3, <2>1 DEF Last
    <3>2. SubSeq(d, 1, Len(d) - 1) = a
      <4>1. d \in Seq(STRING) /\ Len(d) - 1 \in 1 .. Len(d)
        BY <1>3, <2>1
      <4> DEFINE e == SubSeq(d, 1, Len(d) - 1)
      <4>2. e \in Seq(STRING) /\ Len(e) = l - 1 /\ \A i \in 1 .. l - 1 : e[i] = p[i]
        BY <1>1, <1>3, <2>1, <4>1
      <4>3. a \in Seq(STRING) /\ Len(a) = l - 1 /\ \A i \in 1 .. l - 1 : a[i] = p[i]
        BY <1>1, <2>1
      <4> HIDE DEF e, a
      <4>4. e = a
        BY <4>2, <4>3
      <4> QED
        BY <4>4 DEF e
    <3> QED
      BY <3>1, <3>2 DEF WithoutSlash, Front
  <2>5. Obstacles(t, a) = {}
    <3> SUFFICES ASSUME NEW b \in Ancestors(a) PROVE b \in Ancestors(p)
      BY DEF Obstacles
    <3>1. PICK i \in 2 .. Len(a) : a[i] = "/" /\ b = SubSeq(a, 1, i - 1)
      BY <1>3, AncestorsType
    <3>2. Len(a) = l - 1 /\ (\A j \in 1 .. l - 1 : a[j] = p[j])
      BY <1>1, <2>1
    <3>3. i \in 2 .. Len(p) /\ p[i] = "/"
      BY <1>1, <2>1, <3>1, <3>2
    <3>4. SubSeq(a, 1, i - 1) = SubSeq(p, 1, i - 1)
      <4> DEFINE e == SubSeq(a, 1, i - 1)
                 f == SubSeq(p, 1, i - 1)
      <4>1. e \in Seq(STRING) /\ Len(e) = i - 1 /\ \A j \in 1 .. i - 1 : e[j] = p[j]
        BY <1>1, <1>3, <2>1, <3>1, <3>2
      <4>2. f \in Seq(STRING) /\ Len(f) = i - 1 /\ \A j \in 1 .. i - 1 : f[j] = p[j]
        BY <3>3
      <4> HIDE DEF e, f
      <4>3. e = f
        BY <4>1, <4>2, <3>3
      <4> QED
        BY <4>3 DEF e, f
    <3> QED
      BY <3>1, <3>3, <3>4, AncestorOf
  <2> HIDE DEF a, d
  <2>6. /\ a = WithoutSlash(d) /\ d \in Seq(STRING) /\ Kind(t, WithoutSlash(d)) \in { "directory", "closed" }
        /\ Obstacles(t, WithoutSlash(d)) = {}
    BY <1>3, <2>3, <2>4, <2>5
  <2>7. Stat(t, d) \in { "directory", "closed" }
    BY <2>6, StatCases
  <2> QED
    BY <1>2, <2>7 DEF IsDirectory, DirectoryKinds
<1> QED
  BY <1>4, <1>5

(* A body is refused where there is no directory for it. *)
LEMMA SubDirectoryMaps ==
    ASSUME IInv, ValidSubDirectory
    PROVE  Store!Next \/ UNCHANGED Store!vars
<1>1. at = "subdir" /\ Quiet
  BY DEF ValidSubDirectory, Quiet
<1>2. /\ client \in Clients /\ client # NoClient /\ FilesOK /\ PathAt("subdir") /\ StepAt("subdir")
      /\ path \in Seq(STRING) /\ tree \in [Paths -> Entries]
      /\ ~ disturbed /\ ~ created => ShownFiles = Files
      /\ Asked.path = AskedPath
      /\ ~ IsSet(target["cgi_pass"]) => Asked.method = Method
  BY <1>1, Due
<1>3. ~ created /\ Asked.method = "POST" /\ path = AskedPath /\ path # << >>
  BY <1>2 DEF StepAt, PathAt, IsForDirectory
<1>4. CASE Goto("look")
  BY <1>1, <1>4, GoesOn
<1>5. CASE Reply(403) /\ ~ (DirectoryPath(path) = << "/" >> \/ IsDirectory(tree, DirectoryPath(path)))
  <2>1. ASSUME ~ disturbed, Store!Can(Asked) PROVE FALSE
    <3>1. LastSlash(path) # 0 /\ (IsOpenable(path) \/ MayCreate(tree, path))
      BY <1>2, <1>3, <2>1, CanIs
    <3>2. Obstacles(tree, path) = {}
      BY <1>2, <3>1, StatIsFile DEF IsOpenable, MayCreate
    <3> QED
      BY <1>2, <1>3, <1>5, <3>1, <3>2, InDirectory
  <2>2. 403 \in Store!Statuses
    BY StatusesAre
  <2> QED
    BY <1>1, <1>2, <1>3, <1>5, <2>1, <2>2, Ends
<1> QED
  BY <1>4, <1>5 DEF ValidSubDirectory

LEMMA SearchMaps ==
    ASSUME IInv, SearchIndexFiles
    PROVE  UNCHANGED Store!vars
  BY QuietStays DEF SearchIndexFiles, fileSystem, history

LEMMA SendMaps ==
    ASSUME IInv, NEW c \in Clients, Send(c)
    PROVE  UNCHANGED Store!vars
<1>1. UNCHANGED << scenario, tree, data, space, client, target, before, disturbed >>
  BY DEF Send, fileSystem, request, history
<1> DEFINE old  == replies[c]
           body == IF old.inode # 0 THEN data[old.inode] ELSE << >>
           new  == [old EXCEPT !.sent = TRUE, !.body = body]
<1>2. replies \in [Clients -> ReplyType] /\ replies' = [replies EXCEPT ![c] = new]
  BY DEF IInv, TypeOK, Send
<1>3. old \in ReplyType
  BY <1>2
<1> HIDE DEF old, body
<1>4. new.status = old.status /\ new.shown = old.shown
  BY <1>3 DEF ReplyType
<1> HIDE DEF new
<1>5. replies'[c] = new /\ \A d \in Clients \ {c} : replies'[d] = replies[d]
  BY <1>2
<1>6. Answers' = Answers
  BY <1>4, <1>5 DEF Answers, old
<1>7. UNCHANGED << ShownFiles, ShownSpace, Asked >>
  BY <1>1 DEF ShownFiles, ShownSpace, IsHidden, Files, Asked, Method, Body, Located
<1> QED
  BY <1>1, <1>6, <1>7 DEF Store!vars, ShownFiles, ShownSpace, Answers

(* A file that is made for a request is not yet seen. *)
LEMMA CreateFileMaps ==
    ASSUME IInv, IInv', CreateFile
    PROVE  Store!Next \/ UNCHANGED Store!vars
<1>1. at = "create" /\ UNCHANGED << scenario, space, outsiders >>
  BY DEF CreateFile
<1>2. /\ client \in Clients /\ client # NoClient /\ FilesOK /\ PathAt("create") /\ StepAt("create")
      /\ path \in Seq(STRING) /\ tree \in [Paths -> Entries]
      /\ ~ disturbed => HiddenAt("create")
      /\ ~ disturbed /\ ~ created => ShownFiles = Files
      /\ Asked.path = AskedPath
      /\ ~ IsSet(target["cgi_pass"]) => Asked.method = Method
  BY <1>1, Due
<1>3. ~ created /\ Asked.method = "POST" /\ path = AskedPath
  BY <1>2 DEF StepAt, PathAt, IsForDirectory
<1>4. CASE ~ (IsOpenable(path) \/ MayCreate(tree, path))
  <2>1. Reply(FileHandlingError(CreateErrno)) /\ Quiet
    BY <1>1, <1>4 DEF CreateFile, Quiet, fileSystem
  <2>2. ~ disturbed => ~ Store!Can(Asked)
    BY <1>2, <1>3, <1>4, CanIs
  <2> QED
    BY <1>2, <1>3, <2>1, <2>2, StatusesAre, Ends
<1>5. CASE IsOpenable(path) \/ MayCreate(tree, path)
  <2>1. Stays
    BY <1>1, <1>5 DEF CreateFile, history, Stays
  <2>2. CASE ~ disturbed
    BY <1>2, <2>1, <2>2, Stutters DEF IsHidden
  <2>3. CASE disturbed
    <3>1. \A q \in Paths \ {path} : Files'[q] = Files[q]
      <4>1. space' \in Nat /\ << >> \in Seq(Pieces) /\ DOMAIN Files = Paths
        BY <1>1, <1>2 DEF FilesOK, Files
      <4>2. CASE IsOpenable(path)
        <5>1. /\ path \in Paths /\ tree[path].kind = "file" /\ Inode(tree, path) = tree[path].inode
          BY <1>2, <4>2, OpenableIs
        <5>2. data' = [data EXCEPT ![tree[path].inode] = << >>] /\ tree' = tree
          BY <1>5, <4>2, <5>1 DEF CreateFile
        <5>3. Files' = [Files EXCEPT ![path] = Held("file", << >>, Files[path].sealed)]
          BY <1>1, <1>2, <4>1, <5>1, <5>2, FileFilled
        <5> QED
          BY <4>1, <5>1, <5>3
      <4>3. CASE ~ IsOpenable(path)
        <5>1. MayCreate(tree, path) /\ NewFile(<< >>)
          BY <1>5, <4>3 DEF CreateFile
        <5>2. path \in Paths
          BY <1>2, <5>1, MayCreateIs
        <5>3. tree' = [tree EXCEPT ![path] = File(Len(data) + 1)] /\ data' = Append(data, << >>)
          BY <5>1 DEF NewFile
        <5>4. Files' = [Files EXCEPT ![path] = Held("file", << >>, FALSE)]
          BY <1>1, <1>2, <4>1, <5>1, <5>2, <5>3, FileMade
        <5> QED
          BY <4>1, <5>2, <5>4
      <4> QED
        BY <4>2, <4>3
    <3>2. TouchesOne
      BY <1>2, <1>3, <3>1 DEF TouchesOne
    <3> QED
      BY <1>2, <2>1, <2>3, <3>2, Continues
  <2> QED
    BY <2>2, <2>3
<1> QED
  BY <1>4, <1>5

(* A file or an empty directory goes. *)
LEMMA RemoveFileMaps ==
    ASSUME IInv, RemoveFile
    PROVE  Store!Next
<1>1. at = "remove" /\ UNCHANGED << scenario, data, space, outsiders >>
  BY DEF RemoveFile
<1>2. /\ client \in Clients /\ client # NoClient /\ FilesOK /\ PathAt("remove") /\ StepAt("remove")
      /\ path \in Seq(STRING) /\ tree \in [Paths -> Entries]
      /\ ~ disturbed => HiddenAt("remove")
      /\ ~ disturbed /\ ~ created => ShownFiles = Files /\ ShownSpace = space
      /\ Asked.path = AskedPath
      /\ ~ IsSet(target["cgi_pass"]) => Asked.method = Method
  BY <1>1, Due
<1>3. ~ created /\ Asked.method = "DELETE" /\ path = AskedPath /\ path = WithoutSlash(path)
  BY <1>2 DEF StepAt, PathAt, IsForDirectory
<1>4. ~ disturbed => Stat(tree, path) = "file" /\ path \in Paths
  BY <1>2, StatIsFile DEF HiddenAt
<1>5. CASE ~ IsRemovable(path)
  <2>1. Reply(500) /\ Quiet
    BY <1>1, <1>5 DEF RemoveFile, Quiet, fileSystem
  <2>2. ASSUME ~ disturbed PROVE ~ Store!Can(Asked)
    <3>1. IsThere(tree, path) /\ ~ IsDirectory(tree, path)
      BY <1>4, <2>2 DEF IsThere, Errors, IsDirectory, DirectoryKinds
    <3>2. Kind(tree, Parent(path)) # "directory"
      BY <1>5, <3>1 DEF IsRemovable
    <3> QED
      BY <1>2, <1>3, <2>2, <3>2, CanIs
  <2>3. 500 \in Store!Statuses
    BY StatusesAre
  <2> QED
    BY <1>2, <1>3, <2>1, <2>2, <2>3, Ends
<1>6. CASE IsRemovable(path)
  <2>1. tree' = [tree EXCEPT ![path] = Absent] /\ Reply(200)
    BY <1>3, <1>6 DEF RemoveFile
  <2>2. path \in Paths /\ (tree[path].kind = "file" \/ Inside(tree, path) = {})
    BY <1>2, <1>3, <1>6, RemovableIs
  <2>3. Files' = [Files EXCEPT ![path] = Held("absent", << >>, FALSE)]
    BY <1>1, <1>2, <2>1, <2>2, PathRemoved DEF FilesOK
  <2>4. DOMAIN Files = Paths
    BY DEF Files
  <2>5. CASE disturbed
    <3>1. TouchesOne
      BY <1>2, <1>3, <2>2, <2>3, <2>4 DEF TouchesOne
    <3>2. \E s, inode, l, content : FormResponse(s, inode, l, content)
      BY <2>1 DEF Reply
    <3> QED
      BY <1>2, <2>5, <3>1, <3>2, Continues
  <2>6. CASE ~ disturbed
    <3>1. ShownFiles = Files /\ ShownSpace = space
      BY <1>2, <1>3, <2>6
    <3>2. Store!Done(200, << >>) /\ ShownFiles' = Files' /\ ShownSpace' = space'
      BY <1>2, <2>1, Shows, ZenonT(60) DEF Reply
    <3>3. Store!Can(Asked)
      BY <1>2, <1>3, <1>4, <1>6, <2>6, <3>1, CanIs DEF IsRemovable
    <3>4. ShownFiles' = [ShownFiles EXCEPT ![Asked.path] = [kind |-> "absent", content |-> << >>, sealed |-> FALSE]]
      BY <1>2, <1>3, <2>3, <3>1, <3>2 DEF Held
    <3>5. ShownSpace' = ShownSpace
      BY <1>1, <3>1, <3>2
    <3>6. Store!RemoveFile
      BY <1>3, <2>6, <3>2, <3>3, <3>4, <3>5 DEF Store!RemoveFile, ShownFiles, ShownSpace
    <3> QED
      BY <1>2, <3>6 DEF Store!Next
  <2> QED
    BY <2>5, <2>6
<1> QED
  BY <1>5, <1>6

(* Others change a file: the one they change, and the one that was made meanwhile. *)
LEMMA OutsideMaps ==
    ASSUME IInv, NEW p \in Shared, Outside(p)
    PROVE  Store!Next
<1>1. /\ disturbed' = (client # NoClient)
      /\ UNCHANGED << scenario, space, client, target, path, created, replies, before >>
  BY DEF Outside, request
<1>2. p \in Paths /\ \A q \in Paths \ {p} : Files'[q] = Files[q]
  BY <1>1, OutsideIs DEF IInv, TypeOK
<1>3. UNCHANGED << client, Answers, Asked >>
  BY <1>1 DEF Answers, Asked, Method, Body, Located
<1>4. ShownFiles' = Files'
  BY <1>1 DEF ShownFiles, IsHidden
<1>5. ASSUME NEW q \in Paths \ {p}, Files'[q] # ShownFiles[q]
      PROVE  Asked.method \in { "POST", "DELETE" } /\ q = Asked.path
  <2>1. IsHidden /\ created /\ before.files # Files
    BY <1>2, <1>5 DEF ShownFiles, IInv, HiddenOK, HiddenFiles, IsHidden
  <2>2. at # "idle"
    BY <2>1 DEF IInv, IdleOK, IsHidden
  <2>3. /\ PathAt(at) /\ StepAt(at) /\ HiddenFiles /\ Asked.path = AskedPath
        /\ ~ IsSet(target["cgi_pass"]) => Asked.method = Method
    BY <2>1, <2>2, Due DEF IsHidden
  <2>4. at = "write" /\ Asked.method = "POST" /\ path = AskedPath
    BY <2>1, <2>3 DEF StepAt, PathAt, IsForDirectory
  <2>5. before.files = [Files EXCEPT ![path] = Held("absent", << >>, FALSE)] /\ DOMAIN Files = Paths
    BY <2>1, <2>3 DEF HiddenFiles, Files
  <2>6. q = path
    BY <1>2, <1>5, <2>1, <2>5 DEF ShownFiles
  <2> QED
    BY <2>3, <2>4, <2>6
<1>6. Store!OnlyItsFile({p})
  BY <1>4, <1>5 DEF Store!OnlyItsFile, Store!Writes, ShownFiles
<1>7. Store!Others
  BY <1>1, <1>2, <1>3, <1>6 DEF Store!Others, Answers
<1> QED
  BY <1>7 DEF Store!Next

(* A file that was made for a request is still there, but not yet seen. *)
LEMMA CreatedIs ==
    ASSUME IInv, at # "idle", created, ~ disturbed
    PROVE  /\ path \in Paths /\ IsOpenable(path) /\ Files[path] = Held("file", << >>, FALSE)
           /\ ShownFiles = [Files EXCEPT ![path] = Held("absent", << >>, FALSE)] /\ ShownSpace = space
           /\ path = AskedPath => Store!MayCreate(Store!Tree, Asked.path)
<1>1. /\ client # NoClient /\ FilesOK /\ path \in Seq(STRING) /\ tree \in [Paths -> Entries]
      /\ Asked.path = AskedPath /\ HiddenFiles
  BY Due
<1>2. /\ path \in Paths /\ MayCreate(BeforeTree, path) /\ before.space = space
      /\ before.files = [Files EXCEPT ![path] = Held("absent", << >>, FALSE)]
      /\ Files[path] = Held("file", << >>, FALSE)
  BY <1>1 DEF HiddenFiles
<1>3. ShownFiles = before.files /\ ShownSpace = space
  BY <1>1, <1>2 DEF ShownFiles, ShownSpace, IsHidden
<1>4. Store!Tree = BeforeTree
  BY <1>3 DEF Store!Tree, BeforeTree, ShownFiles
<1>5. path = AskedPath => Store!MayCreate(Store!Tree, Asked.path)
  BY <1>1, <1>2, <1>4, SameAnswers
<1>6. tree[path].kind = "file" /\ tree[path].inode \notin scenario.sealed
  BY <1>1, <1>2, FilesType DEF Held
<1>7. Obstacles(tree, path) = {}
  <2> SUFFICES ASSUME NEW a \in Ancestors(path) PROVE Kind(tree, a) = Kind(BeforeTree, a)
    BY <1>2 DEF Obstacles, MayCreate
  <2>1. a # path
    BY <1>1, AncestorsType
  <2>2. DOMAIN BeforeTree = Paths /\ \A q \in Paths : BeforeTree[q].kind = before.files[q].kind
    BY DEF BeforeTree
  <2>3. DOMAIN Files = Paths /\ \A q \in Paths : Files[q].kind = tree[q].kind
    BY <1>1, FilesType DEF Files
  <2>4. \A q \in Paths \ {path} : BeforeTree[q].kind = tree[q].kind
    BY <1>2, <2>2, <2>3
  <2> QED
    BY <1>1, <2>1, <2>2, <2>4 DEF Kind, Entry
<1>8. Stat(tree, path) = "file"
  BY <1>1, <1>2, <1>6, <1>7, StatIsFile, PathsLemma
<1>9. IsOpenable(path)
  BY <1>6, <1>8 DEF IsOpenable, Inode
<1> QED
  BY <1>2, <1>3, <1>5, <1>9

(* The body of a request goes into its file. *)
LEMMA WriteToFileMaps ==
    ASSUME IInv, WriteToFile
    PROVE  Store!Next
<1>1. at = "write" /\ UNCHANGED << scenario, outsiders >>
  BY DEF WriteToFile
<1>2. /\ client \in Clients /\ client # NoClient /\ FilesOK /\ PathAt("write") /\ StepAt("write")
      /\ path \in Seq(STRING) /\ tree \in [Paths -> Entries]
      /\ ~ disturbed => HiddenAt("write")
      /\ ~ disturbed /\ ~ created => ShownFiles = Files /\ ShownSpace = space
      /\ Asked.path = AskedPath /\ Asked.body = Body
      /\ ~ IsSet(target["cgi_pass"]) => Asked.method = Method
  BY <1>1, Due
<1>3. Asked.method = "POST" /\ path = AskedPath /\ LastSlash(path) # 0
  BY <1>2 DEF StepAt, PathAt, IsForDirectory
<1>4. ~ disturbed /\ created => IsOpenable(path)
  BY <1>1, CreatedIs
<1>5. CASE ~ (IsOpenable(path) \/ MayCreate(tree, path))
  <2>1. Reply(500) /\ Quiet
    BY <1>1, <1>5 DEF WriteToFile, Quiet
  <2>2. ~ disturbed => ~ created /\ ~ Store!Can(Asked)
    BY <1>2, <1>3, <1>4, <1>5, CanIs
  <2>3. 500 \in Store!Statuses
    BY StatusesAre
  <2> QED
    BY <1>2, <2>1, <2>2, <2>3, Ends
<1>6. CASE IsOpenable(path) \/ MayCreate(tree, path)
  <2> DEFINE more == SubSeq(Body, 1, Stored)
             result == IF IsNoticed THEN 500 ELSE IF created THEN 201 ELSE 200
  <2>1. /\ path \in Paths /\ space' = space - Stored
        /\ Files' = [Files EXCEPT ![path] = Held("file", Files[path].content \o more, FALSE)]
    BY <1>6, Written
  <2>2. Reply(result)
    BY <1>6 DEF WriteToFile
  <2> HIDE DEF result
  <2>3. DOMAIN Files = Paths
    BY DEF Files
  <2>4. CASE disturbed
    <3>1. TouchesOne
      BY <1>2, <1>3, <2>1, <2>3 DEF TouchesOne
    <3>2. \E s, inode, l, content : FormResponse(s, inode, l, content)
      BY <2>2 DEF Reply
    <3> QED
      BY <1>2, <2>4, <3>1, <3>2, Continues
  <2>5. CASE ~ disturbed
    <3> PICK status : status = result
      OBVIOUS
    <3>1. Reply(status)
      BY <2>2 DEF Reply, FormResponse
    <3>2. Store!Done(status, << >>) /\ ShownFiles' = Files' /\ ShownSpace' = space'
      BY <1>2, <3>1, Shows DEF Reply
    <3>3. /\ ShownSpace = space /\ DOMAIN ShownFiles = Paths
          /\ \A q \in Paths \ {path} : ShownFiles[q] = Files[q]
          /\ ShownFiles[path].content = Files[path].content /\ ShownFiles[path].sealed = FALSE
          /\ ShownFiles[path].kind = "absent" <=> created
          /\ Store!Can(Asked)
      <4>1. CASE created
        <5>1. /\ ShownFiles = [Files EXCEPT ![path] = Held("absent", << >>, FALSE)] /\ ShownSpace = space
              /\ Files[path] = Held("file", << >>, FALSE)
              /\ Store!MayCreate(Store!Tree, Asked.path)
          BY <1>1, <1>3, <2>5, <4>1, CreatedIs
        <5>2. Store!Can(Asked)
          BY <1>2, <1>3, <2>1, <5>1, SameLastSlash DEF Store!Can
        <5>3. ShownFiles[path] = Held("absent", << >>, FALSE)
          BY <2>1, <2>3, <5>1
        <5> QED
          BY <2>1, <2>3, <4>1, <5>1, <5>2, <5>3 DEF Held
      <4>2. CASE ~ created
        <5>1. ShownFiles = Files /\ ShownSpace = space
          BY <1>2, <2>5, <4>2
        <5>2. IsOpenable(path)
          <6>1. Stat(tree, path) # "ENOENT"
            BY <1>2, <2>5, <4>2 DEF HiddenAt
          <6> QED
            BY <1>2, <1>6, <6>1, MayCreateIs
        <5>3. Store!Can(Asked)
          BY <1>2, <1>3, <2>1, <5>1, <5>2, CanIs
        <5>4. tree[path].kind = "file" /\ ~ Files[path].sealed /\ Files[path].kind = tree[path].kind
          BY <1>2, <2>1, <5>2, OpenableIs, FilesType
        <5>5. Files[path].sealed \in BOOLEAN
          BY <2>1 DEF Files
        <5> QED
          BY <2>3, <4>2, <5>1, <5>3, <5>4, <5>5
      <4> QED
        BY <4>1, <4>2
    <3>4. ShownFiles' = [ShownFiles EXCEPT ![Asked.path] =
                            [ kind |-> "file", content |-> ShownFiles[path].content \o more,
                              sealed |-> ShownFiles[path].sealed ]]
      <4> DEFINE new == [kind |-> "file", content |-> Files[path].content \o more, sealed |-> FALSE]
      <4>1. Files' = [Files EXCEPT ![path] = new]
        BY <2>1 DEF Held
      <4>2. new = [ kind |-> "file", content |-> ShownFiles[path].content \o more,
                    sealed |-> ShownFiles[path].sealed ]
        BY <3>3
      <4> HIDE DEF new
      <4>3. Files' = [ShownFiles EXCEPT ![path] = new]
        <5>1. Files = [q \in Paths |-> Files[q]] /\ ShownFiles = [q \in Paths |-> ShownFiles[q]]
          <6>1. Files = [q \in Paths |-> Files[q]]
            BY DEF Files
          <6>2. ShownFiles = [q \in Paths |-> ShownFiles[q]]
            <7>1. CASE created
              BY <1>1, <2>3, <2>5, <6>1, <7>1, CreatedIs
            <7>2. CASE ~ created
              BY <1>2, <2>5, <6>1, <7>2
            <7> QED
              BY <7>1, <7>2
          <6> QED
            BY <6>1, <6>2
        <5> QED
          BY <2>1, <2>3, <3>3, <4>1, <5>1
      <4> QED
        BY <1>2, <1>3, <3>2, <4>2, <4>3
    <3>5. Store!Min({ ShownSpace, Len(Asked.body) }) = Stored
      BY <1>2, <3>3 DEF Stored, Store!Min, Min
    <3>6. ShownSpace' = ShownSpace - Stored
      BY <2>1, <3>2, <3>3
    <3>7. status = CASE Stored < Len(Asked.body) /\ Len(Asked.body) > 1 -> 500
                     [] OTHER -> IF ShownFiles[Asked.path].kind = "absent" THEN 201 ELSE 200
      BY <1>2, <1>3, <3>3 DEF result, IsNoticed
    <3>8. Store!Store
      BY <1>2, <1>3, <2>5, <3>2, <3>3, <3>4, <3>5, <3>6, <3>7, ZenonT(60) DEF Store!Store, Store!Done, ShownFiles, ShownSpace
    <3> QED
      BY <1>2, <3>8 DEF Store!Next
  <2> QED
    BY <2>4, <2>5
<1> QED
  BY <1>5, <1>6

LEMMA StepMaps ==
    ASSUME IInv, IInv', [Next]_vars
    PROVE  [Store!Next]_Store!vars
<1>1. CASE \E c \in Clients : Validate(c) \/ Send(c)
  BY <1>1, ValidateMaps, SendMaps
<1>2. CASE SearchIndexFiles \/ AssignResponseResolvedPath \/ HandleCGI
  BY <1>2, SearchMaps, AssignMaps, HandleCGIMaps
<1>3. CASE GetFile \/ NoDirectory \/ CreateStreamFromPath \/ OpenDirectory \/ FormatLines
  BY <1>3, LooksMaps, FetchMaps, ListMaps
<1>4. CASE ValidSubDirectory \/ CreateFileIfNeeded \/ CreateFile \/ WriteToFile
  BY <1>4, SubDirectoryMaps, LooksMaps, CreateFileMaps, WriteToFileMaps
<1>5. CASE FindFile \/ RegularOnly \/ RemoveFile
  BY <1>5, LooksMaps, RemoveFileMaps
<1>6. CASE \E p \in Shared : Outside(p)
  BY <1>6, OutsideMaps
<1>7. CASE UNCHANGED vars
  BY <1>7, QuietStays DEF vars, fileSystem, request, history
<1> QED
  BY <1>1, <1>2, <1>3, <1>4, <1>5, <1>6, <1>7 DEF Next, Serve

(***************************************************************************)
(* The calls made for a request do together what FileStore promises of it: *)
(* the files are changed, and the answer given, as in one step.            *)
(***************************************************************************)
THEOREM FileStoreIsImplemented == Spec => ImplementsFileStore
<1>1. Init => Store!Init
  BY InitIInv, InitMaps
<1>2. IInv /\ IInv' /\ [Next]_vars => [Store!Next]_Store!vars
  BY StepMaps
<1> QED
  BY <1>1, <1>2, Inductive, PTL DEF Spec, Store!Spec, ImplementsFileStore
=============================================================================
