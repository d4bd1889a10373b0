------------------------------ MODULE ErrorPages ------------------------------
(***************************************************************************)
(* The error replies of ResponseHandler: HandleError looks for a custom    *)
(* page of the configuration, HandleCustomError serves it, and when that   *)
(* fails, with an error of its own, calls HandleError again.  The calls    *)
(* are nested: each of them takes some of the stack of the server's only   *)
(* thread, and a thread that has no stack left is killed.                  *)
(***************************************************************************)
EXTENDS Naturals

CONSTANTS
    Codes,      \* the error codes requests are answered with
    MaxDepth    \* how many nested calls the stack has room for

ASSUME CodesAssumption == {403, 404, 500} \subseteq Codes /\ Codes \subseteq Nat
ASSUME DepthAssumption == MaxDepth \in Nat \ {0}

(***************************************************************************)
(* What the configuration's error_page for a code leads to: no page is     *)
(* given, or the path is that of a file that can be read, of nothing, of a *)
(* directory, of a file stat() may not look at, of one that cannot be      *)
(* opened, or ends in a slash and is no directory.                         *)
(***************************************************************************)
Pages == {"none", "readable", "missing", "directory", "denied", "unopenable", "slash"}

VARIABLES
    pages,      \* the error_page directives: what each code leads to
    first,      \* the status the request came with
    code,       \* the status of the request now
    at,         \* the call that is being made
    depth,      \* how many calls are nested
    status,     \* the status of the response
    body        \* the code whose page is the body: a custom or default one

vars == << pages, first, code, at, depth, status, body >>

NoBody == [of |-> 0, custom |-> FALSE]

Init ==
    /\ pages  \in [Codes -> Pages]
    /\ first  \in Codes
    /\ code   = first
    /\ at     = "HandleError"
    /\ depth  = 1
    /\ status = 0
    /\ body   = NoBody

-----------------------------------------------------------------------------

(* AssignResponseResolvedPath and ExecuteGet: the exception they throw. *)
Failure(page) ==
    CASE page \in {"missing", "directory"} -> 404
      [] page \in {"denied", "slash"}      -> 403
      [] page = "unopenable"               -> 500

(* Another call is nested, or the stack is exhausted. *)
Call(handler) ==
    IF depth < MaxDepth
       THEN at' = handler /\ depth' = depth + 1
       ELSE at' = "overflow" /\ UNCHANGED depth

(* FormResponse: the response takes the request's status if it has none. *)
FormReply(b) ==
    /\ body'   = b
    /\ status' = IF status = 0 THEN code ELSE status
    /\ at'     = "formed"
    /\ UNCHANGED << code, depth >>

(* FindCustomErrorPage *)
HasCustomPage(c) == pages[c] # "none"

HandleError ==
    /\ at = "HandleError"
    /\ IF HasCustomPage(code)
          THEN Call("HandleCustomError")
          ELSE Call("HandleDefaultError")
    /\ UNCHANGED << pages, first, code, status, body >>

(* Mutant: a page that fails with the error it is for is tried again. *)
GivesUpNever(failure) == FALSE

(* The check that is meant to prevent an infinite loop. *)
GivesUp(failure) == failure = code

(* Mutant: the default page of the old error is served instead. *)
FailWithOldError(failure) == Call("HandleDefaultError") /\ UNCHANGED code

FailWith(failure) ==
    /\ code' = failure
    /\ Call(IF GivesUp(failure) THEN "HandleDefaultError" ELSE "HandleError")

HandleCustomError ==
    /\ at = "HandleCustomError"
    /\ \/ /\ pages[code] = "readable"
          /\ FormReply([of |-> code, custom |-> TRUE])
       \/ /\ pages[code] # "readable"
          /\ FailWith(Failure(pages[code]))
          /\ UNCHANGED << status, body >>
    /\ UNCHANGED << pages, first >>

HandleDefaultError ==
    /\ at = "HandleDefaultError"
    /\ FormReply([of |-> code, custom |-> FALSE])
    /\ UNCHANGED << pages, first >>

(* The reply is formed, or the process was killed. *)
Returned == at \in {"formed", "overflow"} /\ UNCHANGED vars

Next == HandleError \/ HandleCustomError \/ HandleDefaultError \/ Returned

Spec == Init /\ [][Next]_vars

-----------------------------------------------------------------------------
(* What the configuration asks for, without the handlers. *)

Fails(c) == pages[c] \notin {"none", "readable"}

(* The error that takes the place of c, itself if c has a reply. *)
Successor(c) == IF Fails(c) THEN Failure(pages[c]) ELSE c

(* Every set that has c, and the successors of what it has, has d. *)
LeadsTo(c, d) ==
    \A S \in SUBSET Codes :
       c \in S /\ (\A x \in S : Successor(x) \in S) => d \in S

IsOutcome(c, d) == LeadsTo(c, d) /\ Successor(d) = d

(* Where the failures lead, if they come to an end. *)
Outcome(c) == CHOOSE d \in Codes : IsOutcome(c, d)

Settles == \E d \in Codes : IsOutcome(first, d)

(* Configurations whose error pages do not fail in a circle. *)
SettlingInit == Init /\ Settles

SettlingSpec == SettlingInit /\ [][Next]_vars

-----------------------------------------------------------------------------

(* Every variable has its type. *)
TypeOK ==
    /\ pages \in [Codes -> Pages]
    /\ first \in Codes
    /\ code  \in Codes
    /\ at \in {"HandleError", "HandleCustomError", "HandleDefaultError",
               "formed", "overflow"}
    /\ depth \in 1 .. MaxDepth
    /\ status \in Codes \cup {0}
    /\ body \in [of : Codes, custom : BOOLEAN] \cup {NoBody}

(***************************************************************************)
(* The handlers come to a reply before the stack is exhausted, whatever    *)
(* the pages of the configuration are.                                     *)
(***************************************************************************)
NoEndlessErrors == at # "overflow"

(***************************************************************************)
(* The reply is the one the configuration leads to: its status is that of  *)
(* the last error, its body the custom page of that error, or the default  *)
(* page if there is none or it fails with the very error it is for.        *)
(***************************************************************************)
ReplyIsTheOutcome ==
    at = "formed" =>
       /\ status = Outcome(first)
       /\ body = [of |-> Outcome(first), custom |-> pages[Outcome(first)] = "readable"]
=============================================================================
