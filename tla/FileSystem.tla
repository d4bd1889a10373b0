------------------------------ MODULE FileSystem ------------------------------
(***************************************************************************)
(* The file system as the server's calls see it.  A tree gives each path   *)
(* an entry: nothing, a file, a directory, a "closed" directory, in which  *)
(* nothing may be created or removed, or a "locked" one, below which       *)
(* nothing may even be looked at.  A file is an inode; data holds what is  *)
(* in each, and those of sealed may be neither read nor written.           *)
(***************************************************************************)
EXTENDS Naturals, SequencesExt

Absent    == [kind |-> "absent", inode |-> 0]
Directory == [kind |-> "directory", inode |-> 0]
File(i)   == [kind |-> "file", inode |-> i]

(* The entries of a tree. *)
Entries == [kind : { "absent", "file", "directory", "closed", "locked" }, inode : Nat]

DirectoryKinds == { "directory", "closed", "locked" }

(* A path with a slash at its end names a directory. *)
WithoutSlash(path) ==
    IF Len(path) > 1 /\ Last(path) = "/" THEN Front(path) ELSE path

LastSlash(path) == SelectLastInSeq(path, LAMBDA c : c = "/")

(* The directory a path is in. *)
Parent(path) == SubSeq(path, 1, LastSlash(WithoutSlash(path)) - 1)

Ancestors(path) == { SubSeq(path, 1, i - 1) : i \in { j \in 2 .. Len(path) : path[j] = "/" } }

Entry(tree, path) == IF path \in DOMAIN tree THEN tree[path] ELSE Absent

Kind(tree, path) == Entry(tree, path).kind

(* The directories on the way to a path that cannot be passed. *)
Obstacles(tree, path) ==
    { a \in Ancestors(path) : Kind(tree, a) \notin { "directory", "closed" } }

(* What stops a walk is the first of them. *)
Obstacle(tree, path) ==
    CHOOSE a \in Obstacles(tree, path) : \A b \in Obstacles(tree, path) : Len(a) <= Len(b)

Errno(kind) == CASE kind = "absent" -> "ENOENT" [] kind = "file" -> "ENOTDIR" [] kind = "locked" -> "EACCES"

(* stat(): the kind of what is there, or the error. *)
Stat(tree, path) ==
    LET node == WithoutSlash(path)
        kind == Kind(tree, node)
    IN  CASE Obstacles(tree, node) # {}            -> Errno(Kind(tree, Obstacle(tree, node)))
          [] Obstacles(tree, node) = {} /\ kind = "absent" -> "ENOENT"
          [] Obstacles(tree, node) = {} /\ kind = "file" /\ node # path -> "ENOTDIR"
          [] OTHER                                 -> kind

Errors == { "ENOENT", "ENOTDIR", "EACCES" }

IsThere(tree, path)     == Stat(tree, path) \notin Errors
IsDirectory(tree, path) == Stat(tree, path) \in DirectoryKinds

Inode(tree, path) == tree[path].inode

(* Nothing is there yet, and something may be made. *)
MayCreate(tree, path) ==
    /\ path \in DOMAIN tree /\ path = WithoutSlash(path)
    /\ Obstacles(tree, path) = {} /\ Kind(tree, path) = "absent"
    /\ Kind(tree, Parent(path)) = "directory"

(***************************************************************************)
(* What there is lies in directories; a file has a name, and none has two. *)
(* There are inodes up to size.                                            *)
(***************************************************************************)
WellFormed(tree, size) ==
    \A p \in DOMAIN tree :
       /\ tree[p].kind # "absent" => \A a \in Ancestors(p) : Kind(tree, a) \in DirectoryKinds
       /\ tree[p].kind = "file" =>
             /\ p # << >> /\ tree[p].inode \in 1 .. size
             /\ \A q \in DOMAIN tree \ {p} : tree[q].kind = "file" => tree[q].inode # tree[p].inode

Inside(tree, path) == { q \in DOMAIN tree : Parent(q) = path /\ tree[q].kind # "absent" }
=============================================================================
