--------------------------- MODULE ErrorPages_proofs ---------------------------
(***************************************************************************)
(* What ErrorPages replies, and how deep its handlers are nested, for any  *)
(* set of error codes and any pages.                                       *)
(***************************************************************************)
EXTENDS ErrorPages, FiniteSetTheorems, TLAPS

-----------------------------------------------------------------------------
(* Where failures lead. *)

(* The codes whose pages fail are replaced by one of three. *)
LEMMA SuccessorType ==
    ASSUME NEW c \in Codes, pages \in [Codes -> Pages]
    PROVE  /\ Successor(c) \in Codes
           /\ Successor(c) # c => Successor(c) \in {403, 404, 500}
<1>1. CASE Fails(c)
  BY <1>1, CodesAssumption DEF Successor, Fails, Failure, Pages
<1>2. CASE ~ Fails(c)
  BY <1>2 DEF Successor
<1> QED
  BY <1>1, <1>2

LEMMA LeadsToItself ==
    ASSUME NEW c \in Codes
    PROVE  LeadsTo(c, c)
BY DEF LeadsTo

LEMMA LeadsOn ==
    ASSUME NEW c \in Codes, NEW d \in Codes, LeadsTo(c, d)
    PROVE  LeadsTo(c, Successor(d))
BY DEF LeadsTo

LEMMA LeadsToTransitive ==
    ASSUME NEW c \in Codes, NEW d \in Codes, NEW e \in Codes, LeadsTo(c, d), LeadsTo(d, e)
    PROVE  LeadsTo(c, e)
BY DEF LeadsTo

(* What leads to another code does so by its successor. *)
LEMMA LeadsBySuccessor ==
    ASSUME NEW c \in Codes, NEW d \in Codes, LeadsTo(c, d), c # d
    PROVE  LeadsTo(Successor(c), d)
<1> SUFFICES ASSUME NEW S \in SUBSET Codes, Successor(c) \in S, \A x \in S : Successor(x) \in S
             PROVE  d \in S
  BY DEF LeadsTo
<1>1. d \in S \cup {c}
  BY DEF LeadsTo
<1> QED
  BY <1>1

(* Of two codes that one leads to, one leads to the other. *)
LEMMA LeadsToIsTotal ==
    ASSUME NEW f \in Codes, NEW c \in Codes, NEW d \in Codes,
           pages \in [Codes -> Pages], LeadsTo(f, c), LeadsTo(f, d)
    PROVE  LeadsTo(c, d) \/ LeadsTo(d, c)
<1> DEFINE S == { z \in Codes : LeadsTo(c, z) \/ LeadsTo(z, c) }
<1>1. f \in S
  OBVIOUS
<1>2. ASSUME NEW z \in S PROVE Successor(z) \in S
  <2>1. Successor(z) \in Codes
    BY SuccessorType
  <2>2. CASE LeadsTo(c, z)
    BY <2>1, <2>2, LeadsOn
  <2>3. CASE LeadsTo(z, c) /\ z # c
    BY <2>1, <2>3, LeadsBySuccessor
  <2>4. CASE z = c
    BY <2>1, <2>4, LeadsToItself, LeadsOn
  <2> QED
    BY <2>2, <2>3, <2>4
<1> HIDE DEF S
<1>3. d \in S
  BY <1>1, <1>2 DEF LeadsTo, S
<1> QED
  BY <1>3 DEF S

(* A code that has a reply leads to no other. *)
LEMMA EndLeadsNowhere ==
    ASSUME NEW c \in Codes, NEW d \in Codes, Successor(c) = c, LeadsTo(c, d)
    PROVE  d = c
<1>1. {c} \in SUBSET Codes /\ c \in {c} /\ \A x \in {c} : Successor(x) \in {c}
  OBVIOUS
<1>2. d \in {c}
  BY <1>1 DEF LeadsTo
<1> QED
  BY <1>2

(* Codes that lead to each other lead to no reply. *)
LEMMA NoCircle ==
    ASSUME NEW c \in Codes, NEW d \in Codes, NEW r \in Codes, pages \in [Codes -> Pages],
           LeadsTo(c, d), LeadsTo(d, c), IsOutcome(c, r)
    PROVE  c = d
<1> SUFFICES ASSUME c # d PROVE FALSE
  OBVIOUS
<1> DEFINE S == { z \in Codes : LeadsTo(c, z) /\ LeadsTo(z, c) }
<1>1. c \in S
  BY LeadsToItself
<1>2. ASSUME NEW z \in S PROVE Successor(z) \in S
  <2>1. Successor(z) \in Codes /\ LeadsTo(c, Successor(z))
    BY SuccessorType, LeadsOn
  <2>2. CASE z # c
    BY <2>1, <2>2, LeadsBySuccessor
  <2>3. CASE z = c
    <3>1. LeadsTo(Successor(c), d)
      BY LeadsBySuccessor
    <3> QED
      BY <2>1, <2>3, <3>1, LeadsToTransitive
  <2> QED
    BY <2>2, <2>3
<1>3. LeadsTo(r, c)
  <2> HIDE DEF S
  <2>1. r \in S
    BY <1>1, <1>2 DEF IsOutcome, LeadsTo, S
  <2> QED
    BY <2>1 DEF S
<1>4. c = r
  BY <1>3, EndLeadsNowhere DEF IsOutcome
<1> QED
  BY <1>4, EndLeadsNowhere DEF IsOutcome

(* Outcomes are what Outcome chooses. *)
LEMMA OutcomeIsUnique ==
    ASSUME NEW f \in Codes, NEW c \in Codes, pages \in [Codes -> Pages], IsOutcome(f, c)
    PROVE  Outcome(f) = c
<1> DEFINE d == Outcome(f)
<1>1. d \in Codes /\ IsOutcome(f, d)
  BY DEF Outcome
<1>2. LeadsTo(c, d) \/ LeadsTo(d, c)
  BY <1>1, LeadsToIsTotal DEF IsOutcome
<1> QED
  BY <1>1, <1>2, EndLeadsNowhere DEF IsOutcome

(* Nothing changes the configuration. *)
LEMMA SameSuccessors ==
    ASSUME UNCHANGED pages, NEW c, NEW d
    PROVE  /\ Successor(c)' = Successor(c)
           /\ LeadsTo(c, d)' <=> LeadsTo(c, d)
BY DEF Successor, Fails, LeadsTo

-----------------------------------------------------------------------------
(* What a handler is called with, and what is replied. *)

(* A code that has a custom page that can be read, or has none. *)
HasReply == Successor(code) = code

IInv ==
    /\ TypeOK
    /\ LeadsTo(first, code)
    /\ at # "formed" => status = 0
    /\ at = "HandleCustomError" => HasCustomPage(code)
    /\ at \in {"HandleDefaultError", "formed"} => HasReply
    /\ at = "HandleDefaultError" => pages[code] # "readable"
    /\ at = "formed" => /\ status = code
                        /\ body = [of |-> code, custom |-> pages[code] = "readable"]

LEMMA InitIInv == Init => IInv
BY LeadsToItself, CodesAssumption, DepthAssumption DEF Init, IInv, TypeOK, NoBody

LEMMA CallType ==
    ASSUME depth \in 1 .. MaxDepth, NEW handler \in {"HandleError", "HandleCustomError", "HandleDefaultError"},
           Call(handler)
    PROVE  /\ at' \in {handler, "overflow"}
           /\ depth' \in 1 .. MaxDepth
           /\ depth' =< depth + 1
           /\ depth < MaxDepth => at' = handler
BY DepthAssumption DEF Call

LEMMA NextIInv == IInv /\ [Next]_vars => IInv'
<1> SUFFICES ASSUME IInv, [Next]_vars PROVE IInv'
  OBVIOUS
<1> USE DEF IInv, TypeOK
<1>0. 0 \notin {403, 404, 500}
  OBVIOUS
<1>1. CASE HandleError
  <2>1. PICK handler \in {"HandleCustomError", "HandleDefaultError"} :
           /\ Call(handler)
           /\ handler = "HandleCustomError" <=> HasCustomPage(code)
    BY <1>1 DEF HandleError
  <2>2. /\ at' \in {handler, "overflow"}
        /\ depth' \in 1 .. MaxDepth
    BY <2>1, CallType
  <2>3. UNCHANGED << pages, first, code, status, body >> /\ at # "formed"
    BY <1>1 DEF HandleError
  <2>4. LeadsTo(first, code)' /\ (HasReply' <=> HasReply)
    BY <2>3, SameSuccessors DEF HasReply
  <2>5. handler = "HandleDefaultError" => HasReply /\ pages[code] # "readable"
    BY <2>1 DEF HasReply, Successor, Fails, HasCustomPage
  <2> QED
    BY <2>1, <2>2, <2>3, <2>4, <2>5 DEF HasCustomPage
<1>2. CASE HandleCustomError
  <2>1. UNCHANGED << pages, first >> /\ at = "HandleCustomError"
    BY <1>2 DEF HandleCustomError
  <2>2. CASE pages[code] = "readable" /\ FormReply([of |-> code, custom |-> TRUE])
    <3>1. UNCHANGED << code, depth >> /\ at' = "formed" /\ status' = code
          /\ body' = [of |-> code, custom |-> TRUE]
      BY <2>1, <2>2 DEF FormReply
    <3>2. HasReply
      BY <2>2 DEF HasReply, Successor, Fails
    <3>3. LeadsTo(first, code)' /\ HasReply'
      BY <2>1, <3>1, <3>2, SameSuccessors DEF HasReply
    <3> QED
      BY <2>1, <2>2, <3>1, <3>3
  <2>3. CASE pages[code] # "readable" /\ FailWith(Failure(pages[code])) /\ UNCHANGED << status, body >>
    <3>1. code' = Successor(code)
      BY <2>1, <2>3 DEF FailWith, Successor, Fails, HasCustomPage
    <3>2. PICK handler \in {"HandleError", "HandleDefaultError"} :
             /\ Call(handler)
             /\ handler = "HandleDefaultError" <=> code' = code
      BY <2>3 DEF FailWith, GivesUp
    <3>3. /\ at' \in {handler, "overflow"}
          /\ depth' \in 1 .. MaxDepth
      BY <3>2, CallType
    <3>4. code' \in Codes
      BY <3>1, SuccessorType
    <3>5. LeadsTo(first, Successor(code))
      BY LeadsOn
    <3>6. LeadsTo(first, code)'
      BY <2>1, <3>1, <3>5 DEF LeadsTo, Successor, Fails
    <3>7. code' = code => HasReply'
      BY <2>1, <3>1, SameSuccessors DEF HasReply
    <3> QED
      BY <2>1, <2>3, <3>2, <3>3, <3>4, <3>6, <3>7
  <2> QED
    BY <1>2, <2>2, <2>3 DEF HandleCustomError
<1>3. CASE HandleDefaultError
  <2>1. /\ UNCHANGED << pages, first, code, depth >> /\ at = "HandleDefaultError"
        /\ at' = "formed" /\ status' = code /\ body' = [of |-> code, custom |-> FALSE]
    BY <1>3 DEF HandleDefaultError, FormReply
  <2>2. LeadsTo(first, code)' /\ HasReply'
    BY <2>1, SameSuccessors DEF HasReply
  <2> QED
    BY <2>1, <2>2
<1>4. CASE UNCHANGED vars
  <2>1. LeadsTo(first, code)' /\ (HasReply' <=> HasReply)
    BY <1>4, SameSuccessors DEF vars, HasReply
  <2> QED
    BY <1>4, <2>1 DEF vars, HasCustomPage
<1> QED
  BY <1>1, <1>2, <1>3, <1>4 DEF Next, Returned
-----------------------------------------------------------------------------
(* How deep the calls are nested. *)

(* The codes that failed before this one, if none fails twice. *)
Passed == { c \in Codes : LeadsTo(first, c) /\ LeadsTo(c, code) /\ c # code }

(* Each took two calls. *)
DepthInv ==
    /\ at = "HandleError"        => depth =< 2 * Cardinality(Passed) + 1
    /\ at = "HandleCustomError"  => depth =< 2 * Cardinality(Passed) + 2
    /\ at # "overflow"

(* Only the first code and those that failures end in can fail. *)
LEMMA FewCodesPass ==
    ASSUME IInv, Settles
    PROVE  /\ IsFiniteSet(Passed)
           /\ Cardinality(Passed) \in 0 .. 3
<1> USE DEF IInv, TypeOK
<1> DEFINE Ends == {403, 404, 500} \cup {first}
<1>1. ASSUME NEW c \in Codes, LeadsTo(first, c)
      PROVE  c \in Ends
  <2>1. \A x \in Ends : Successor(x) \in Ends
    BY CodesAssumption, SuccessorType
  <2>2. Ends \in SUBSET Codes /\ first \in Ends
    BY CodesAssumption
  <2> HIDE DEF Ends
  <2> QED
    BY <1>1, <2>1, <2>2 DEF LeadsTo
<1>2. Passed \cup {code} \subseteq Ends /\ code \notin Passed
  BY <1>1 DEF Passed
<1>3. IsFiniteSet({403, 404, 500}) /\ Cardinality({403, 404, 500}) =< 3
  <2> DEFINE one == {403}
             two == one \cup {404}
             three == two \cup {500}
  <2>1. IsFiniteSet(one) /\ Cardinality(one) = 1
    BY FS_Singleton, ZenonT(60)
  <2> HIDE DEF one
  <2>2. IsFiniteSet(two) /\ Cardinality(two) \in {1, 2}
    BY <2>1, FS_AddElement
  <2> HIDE DEF two
  <2>3. IsFiniteSet(three) /\ Cardinality(three) \in {1, 2, 3}
    BY <2>2, FS_AddElement
  <2>4. three = {403, 404, 500}
    BY DEF one, two
  <2> HIDE DEF three
  <2> QED
    BY <2>3, <2>4
<1>4. IsFiniteSet(Ends) /\ Cardinality(Ends) =< 4
  <2> DEFINE three == {403, 404, 500}
  <2>1. IsFiniteSet(three) /\ Cardinality(three) =< 3 /\ Cardinality(three) \in Nat
    BY <1>3, FS_CardinalityType
  <2> HIDE DEF three
  <2>2. IsFiniteSet(three \cup {first}) /\ Cardinality(three \cup {first}) =< 4
    BY <2>1, FS_AddElement
  <2> QED
    BY <2>2 DEF three
<1>5. /\ IsFiniteSet(Passed \cup {code})
      /\ Cardinality(Passed \cup {code}) =< Cardinality(Ends)
  BY <1>2, <1>4, FS_Subset
<1>6. IsFiniteSet(Passed)
  BY <1>5, FS_Subset
<1>7. Cardinality(Passed \cup {code}) = Cardinality(Passed) + 1
  BY <1>2, <1>6, FS_AddElement
<1> QED
  BY <1>4, <1>5, <1>6, <1>7, FS_CardinalityType

(* A failure adds the code that failed to those that did. *)
LEMMA FailurePasses ==
    ASSUME IInv, Settles, UNCHANGED << pages, first >>, code' = Successor(code), code' # code
    PROVE  Passed' = Passed \cup {code}
<1> USE DEF IInv, TypeOK
<1> DEFINE next == Successor(code)
<1>1. PICK r \in Codes : IsOutcome(first, r)
  BY DEF Settles
<1>2. next \in Codes /\ next # code /\ LeadsTo(first, next) /\ LeadsTo(code, next)
  BY SuccessorType, LeadsToItself, LeadsOn
<1>3. Passed' = { c \in Codes : LeadsTo(first, c) /\ LeadsTo(c, next) /\ c # next }
  BY DEF Passed, LeadsTo, Successor, Fails
<1> HIDE DEF next
<1>4. ASSUME NEW c \in Codes, LeadsTo(first, c), LeadsTo(c, next), c # next, c # code
      PROVE  LeadsTo(c, code)
  <2>1. CASE LeadsTo(code, c)
    <3>1. LeadsTo(next, c)
      BY <1>4, <2>1, LeadsBySuccessor DEF next
    <3>2. LeadsTo(c, r) \/ LeadsTo(r, c)
      BY <1>1, <1>4, LeadsToIsTotal DEF IsOutcome
    <3>3. LeadsTo(c, r)
      BY <1>1, <3>2, EndLeadsNowhere, LeadsToItself DEF IsOutcome
    <3>4. IsOutcome(c, r)
      BY <1>1, <3>3 DEF IsOutcome
    <3> QED
      BY <1>2, <1>4, <3>1, <3>4, NoCircle
  <2> QED
    BY <1>4, <2>1, LeadsToIsTotal
<1>5. ASSUME NEW c \in Passed PROVE LeadsTo(c, next) /\ c # next
  <2>1. LeadsTo(c, next)
    BY <1>2, <1>5, LeadsToTransitive DEF Passed
  <2>2. CASE c = next
    <3>1. LeadsTo(code, r) \/ LeadsTo(r, code)
      BY <1>1, <1>5, <2>2, LeadsToIsTotal DEF Passed, IsOutcome
    <3>2. LeadsTo(next, code)
      BY <1>5, <2>2 DEF Passed
    <3>3. LeadsTo(code, r)
      BY <1>1, <3>1, EndLeadsNowhere, LeadsToItself DEF IsOutcome
    <3>4. IsOutcome(code, r)
      BY <1>1, <3>3 DEF IsOutcome
    <3> QED
      BY <1>2, <3>2, <3>4, NoCircle
  <2> QED
    BY <2>1, <2>2
<1> QED
  BY <1>2, <1>3, <1>4, <1>5 DEF Passed

(* The configuration settles as long as nothing changes it. *)
LEMMA StaysSettled == Settles /\ [Next]_vars => Settles'
<1> SUFFICES ASSUME Settles, [Next]_vars PROVE Settles'
  OBVIOUS
<1>1. UNCHANGED << pages, first >>
  BY DEF Next, HandleError, HandleCustomError, HandleDefaultError, Returned, vars
<1> QED
  BY <1>1, SameSuccessors DEF Settles, IsOutcome

LEMMA InitDepth == IInv /\ Settles /\ Init => DepthInv
BY FewCodesPass DEF Init, DepthInv

LEMMA NextDepth ==
    ASSUME MaxDepth >= 9
    PROVE  IInv /\ IInv' /\ Settles /\ DepthInv /\ [Next]_vars => DepthInv'
<1> SUFFICES ASSUME IInv, IInv', Settles, DepthInv, [Next]_vars PROVE DepthInv'
  OBVIOUS
<1> USE DepthAssumption
<1>0. /\ IsFiniteSet(Passed) /\ Cardinality(Passed) \in 0 .. 3
      /\ depth \in 1 .. MaxDepth /\ pages \in [Codes -> Pages] /\ code \in Codes
  BY FewCodesPass DEF IInv, TypeOK
<1>1. CASE HandleError
  <2>1. PICK handler \in {"HandleCustomError", "HandleDefaultError"} : Call(handler)
    BY <1>1 DEF HandleError
  <2>2. at = "HandleError" /\ UNCHANGED << pages, first, code >>
    BY <1>1 DEF HandleError
  <2>3. Passed' = Passed
    BY <2>2, SameSuccessors DEF Passed
  <2>4. at' = handler /\ depth' =< depth + 1 /\ depth' \in 1 .. MaxDepth
    BY <1>0, <2>1, <2>2, CallType DEF DepthInv
  <2> QED
    BY <1>0, <2>2, <2>3, <2>4 DEF DepthInv
<1>2. CASE HandleCustomError
  <2>1. UNCHANGED << pages, first >> /\ at = "HandleCustomError"
    BY <1>2 DEF HandleCustomError
  <2>2. CASE pages[code] = "readable" /\ FormReply([of |-> code, custom |-> TRUE])
    BY <2>2 DEF FormReply, DepthInv
  <2>3. CASE pages[code] # "readable" /\ FailWith(Failure(pages[code]))
    <3>1. code' = Successor(code)
      BY <1>0, <2>1, <2>3 DEF IInv, FailWith, Successor, Fails, HasCustomPage
    <3>2. PICK handler \in {"HandleError", "HandleDefaultError"} :
             /\ Call(handler)
             /\ handler = "HandleDefaultError" <=> code' = code
      BY <2>3 DEF FailWith, GivesUp
    <3>3. at' = handler /\ depth' =< depth + 1 /\ depth' \in 1 .. MaxDepth
      BY <1>0, <2>1, <3>2, CallType DEF DepthInv
    <3>4. code' # code => Cardinality(Passed') = Cardinality(Passed) + 1
      <4> SUFFICES ASSUME code' # code PROVE Cardinality(Passed') = Cardinality(Passed) + 1
        OBVIOUS
      <4>1. Passed' = Passed \cup {code}
        BY <2>1, <3>1, FailurePasses
      <4>2. code \notin Passed
        BY DEF Passed
      <4> QED
        BY <1>0, <4>1, <4>2, FS_AddElement
    <3> QED
      BY <1>0, <2>1, <3>2, <3>3, <3>4 DEF DepthInv
  <2> QED
    BY <1>2, <2>2, <2>3 DEF HandleCustomError
<1>3. CASE HandleDefaultError
  BY <1>3 DEF HandleDefaultError, FormReply, DepthInv
<1>4. CASE UNCHANGED vars
  <2>1. Passed' = Passed
    BY <1>4, SameSuccessors DEF vars, Passed
  <2> QED
    BY <1>4, <2>1 DEF vars, DepthInv
<1> QED
  BY <1>1, <1>2, <1>3, <1>4 DEF Next, Returned

-----------------------------------------------------------------------------

(***************************************************************************)
(* Whatever the error pages are, the handlers call each other with codes   *)
(* and at depths they can be called with.                                  *)
(***************************************************************************)
THEOREM TypeCorrect == Spec => []TypeOK
<1>1. IInv => TypeOK
  BY DEF IInv
<1> QED
  BY <1>1, InitIInv, NextIInv, PTL DEF Spec

(***************************************************************************)
(* A reply that is formed is the one the configuration leads to, for any   *)
(* codes and any pages, those that fail in a circle included               *)
(* (HandleCustomError, HandleDefaultError).                                *)
(***************************************************************************)
THEOREM RepliesTheOutcome == Spec => []ReplyIsTheOutcome
<1>1. IInv => ReplyIsTheOutcome
  <2> SUFFICES ASSUME IInv, at = "formed" PROVE status = Outcome(first) /\ body = [of |-> Outcome(first), custom |-> pages[Outcome(first)] = "readable"]
    BY DEF ReplyIsTheOutcome
  <2>1. Outcome(first) = code
    BY OutcomeIsUnique DEF IInv, TypeOK, HasReply, IsOutcome
  <2> QED
    BY <2>1 DEF IInv
<1> QED
  BY <1>1, InitIInv, NextIInv, PTL DEF Spec

(***************************************************************************)
(* Nine nested calls are enough for any set of codes, where the pages do   *)
(* not fail in a circle: but for the first, a code that failed is 403, 404 *)
(* or 500, and takes two calls.                                            *)
(***************************************************************************)
THEOREM NineCallsAreEnough ==
    ASSUME MaxDepth >= 9
    PROVE  SettlingSpec => []NoEndlessErrors
<1>1. SettlingInit => IInv /\ Settles /\ DepthInv
  BY InitIInv, InitDepth DEF SettlingInit
<1>2. IInv /\ Settles /\ DepthInv /\ [Next]_vars => (IInv /\ Settles /\ DepthInv)'
  BY NextIInv, NextDepth, StaysSettled
<1>3. DepthInv => NoEndlessErrors
  BY DEF DepthInv, NoEndlessErrors
<1> QED
  BY <1>1, <1>2, <1>3, PTL DEF SettlingSpec

(***************************************************************************)
(* Pages that fail in a circle never come to a reply: the check of         *)
(* HandleCustomError sees a circle of one code only.                       *)
(***************************************************************************)
THEOREM CirclesAreEndless ==
    Init /\ ~ Settles /\ [][Next]_vars => [](at # "formed")
<1>1. ~ Settles /\ [Next]_vars => ~ Settles'
  <2> SUFFICES ASSUME ~ Settles, [Next]_vars PROVE ~ Settles'
    OBVIOUS
  <2>1. UNCHANGED << pages, first >>
    BY DEF Next, HandleError, HandleCustomError, HandleDefaultError, Returned, vars
  <2> QED
    BY <2>1, SameSuccessors DEF Settles, IsOutcome
<1>2. IInv /\ ~ Settles => at # "formed"
  BY DEF IInv, TypeOK, Settles, IsOutcome, HasReply
<1> QED
  BY <1>1, <1>2, InitIInv, NextIInv, PTL
=============================================================================
