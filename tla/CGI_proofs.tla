------------------------------ MODULE CGI_proofs ------------------------------
(***************************************************************************)
(* For pipes, programs and bodies of any size: the output of a program is  *)
(* complete, a 502 is deserved, the server is only killed by a body that   *)
(* was not read, and what is left open is counted.  For names and files of *)
(* any kind: the program that is run is the one that was asked for.        *)
(***************************************************************************)
EXTENDS CGI, Target_proofs, FiniteSetTheorems, TLAPS

(* The ends that were made for the request. *)
EndsMade == IF Post THEN Ends ELSE {"out_read", "out_write"}

(* Which process has which ends, and that all of them can be left open. *)
EndsInv ==
    /\ parent = "ends" => parent_ends = EndsMade
    /\ parent \in {"write", "wait", "read", "killed"} => parent_ends = EndsMade \ EndsOfChild
    /\ parent \in {"write", "killed"} => Post
    /\ parent # "returned" => child # "none" /\ left + 4 <= MaxFds
    /\ child = "setup" => child_ends = EndsMade
    /\ child = "running" => child_ends = EndsMade \cap EndsOfProgram
    /\ child \in {"none", "exited"} => child_ends = {}

(* What the program has done so far. *)
ProgramInv ==
    /\ child \in {"none", "setup"} => put = 0
    /\ child = "running" => program.executes
    /\ put = 0 \/ program.executes
    /\ put <= program.output
    /\ child = "exited" /\ program.executes => put = program.output
    /\ program.reads = "length" => took <= announced

(* Every byte is written, on its way or read. *)
BytesInv ==
    /\ parent # "returned" => content + out_pipe = put /\ result = NoResult
    /\ parent = "ends" => took = 0 /\ body_pipe = 0
    /\ parent \in {"write", "killed"} => took + body_pipe + to_write = count
    /\ result \in {200, 502} => child = "exited" /\ content = put

(* What the server knows of the exit of the program. *)
ExitInv ==
    /\ exit_seen = 1 => child = "exited" /\ (program.status # 0 \/ ~ program.executes)
    /\ FailureIsReal
    /\ KilledByUnreadBody

IInv == TypeOK /\ EndsInv /\ ProgramInv /\ BytesInv /\ ExitInv

-----------------------------------------------------------------------------

(* There are no more than four ends, and two of them are not of the pipe   *)
(* to the program.                                                         *)
LEMMA CountingEnds ==
    /\ \A S \in SUBSET Ends : Cardinality(S) \in 0 .. 4
    /\ Cardinality({}) = 0
    /\ Cardinality({"body_write"}) = 1
    /\ Cardinality({"out_read", "out_write"}) = 2
<1>1. IsFiniteSet({}) /\ Cardinality({}) = 0
  BY FS_EmptySet
<1>2. IsFiniteSet({"body_write"}) /\ Cardinality({"body_write"}) = 1
  BY FS_Singleton
<1>3. IsFiniteSet({"out_read"}) /\ Cardinality({"out_read"}) = 1
  BY FS_Singleton
<1>4. /\ IsFiniteSet({"out_read"} \cup {"out_write"})
      /\ Cardinality({"out_read"} \cup {"out_write"}) = 2
  BY <1>3, FS_AddElement
<1>5. /\ IsFiniteSet({"out_read"} \cup {"out_write"} \cup {"body_write"})
      /\ Cardinality({"out_read"} \cup {"out_write"} \cup {"body_write"}) = 3
  BY <1>4, FS_AddElement
<1>6. /\ IsFiniteSet({"out_read"} \cup {"out_write"} \cup {"body_write"} \cup {"body_read"})
      /\ Cardinality({"out_read"} \cup {"out_write"} \cup {"body_write"} \cup {"body_read"}) = 4
  BY <1>5, FS_AddElement
<1>7. Ends = {"out_read"} \cup {"out_write"} \cup {"body_write"} \cup {"body_read"}
  BY DEF Ends
<1>8. \A S \in SUBSET Ends : Cardinality(S) \in 0 .. 4
  <2> TAKE S \in SUBSET Ends
  <2>1. IsFiniteSet(S) /\ Cardinality(S) <= 4
    BY <1>6, <1>7, FS_Subset
  <2>2. Cardinality(S) \in Nat
    BY <2>1, FS_CardinalityType
  <2> QED
    BY <2>1, <2>2
<1> QED
  BY <1>1, <1>2, <1>4, <1>8

(* What a call is made of. *)
LEMMA CallType ==
    ASSUME NEW e \in Errands, NEW c \in Calls(e)
    PROVE  /\ c.errand = e
           /\ c.request.octets \in Nat /\ c.request.layers \in Nat
           /\ c.program.output \in Nat /\ c.program.status \in {0, 1}
           /\ c.program.executes \in BOOLEAN
BY CallsAssumption DEF IsCall, Request, Program

(* The size of a body is a number, however often it was decoded. *)
LEMMA SizeType ==
    ASSUME NEW e \in Errands, NEW c \in Calls(e), NEW n \in Nat
    PROVE  QuerySize(c.request, n) \in Nat
BY CallType DEF QuerySize

(* Setup finds a program or fails as forbidden or not found. *)
LEMMA Outcomes ==
    ASSUME NEW l, NEW outcome \in Setup(l)
    PROVE  outcome.status \in {200, 403, 404}
<1> DEFINE IsStatus(o) == o.status \in {200, 403, 404}
<1>1. \A v : IsStatus(Found(v)) /\ IsStatus(Exception(403)) /\ IsStatus(Exception(404))
  BY DEF Found, Exception
<1>2. \A o, p : IsStatus(o) /\ IsStatus(p) => IsStatus(AndThen(o, p))
  BY DEF AndThen
<1> HIDE DEF IsStatus
<1>3. \A path : IsStatus(ValidPath(l, path))
  BY <1>1 DEF ValidPath
<1>4. IsStatus(SetExecutablePath(l))
  BY <1>1, <1>3 DEF SetExecutablePath
<1>5. \A o \in SetCGIOneArgument(l) : IsStatus(o)
  BY <1>1, <1>2, <1>4 DEF SetCGIOneArgument
<1>6. \A o \in SetCGITwoArguments(l) : IsStatus(o)
  BY <1>1, <1>2, <1>4, ZenonT(60) DEF SetCGITwoArguments
<1>7. IsStatus(outcome)
  BY <1>1, <1>5, <1>6 DEF Setup, SetArgv
<1> QED
  BY <1>7 DEF IsStatus

(* Whoever returns leaves some of the ends open, as far as there are any. *)
LEMMA Leaving ==
    ASSUME NEW S \in SUBSET Ends, left \in 0 .. MaxFds, left + 4 <= MaxFds
    PROVE  left + Cardinality(S) \in 0 .. MaxFds
BY CountingEnds, FdsAssumption

LEMMA Initial == Init => IInv
<1> SUFFICES ASSUME Init PROVE IInv
  OBVIOUS
<1>0. 0 \in 0 .. MaxFds /\ 0 \in 0 .. PipeSize /\ 0 \in 0 .. 0
  BY PipeAssumption, FdsAssumption
<1>c. /\ call.errand \in Errands /\ call \in Calls(call.errand)
      /\ program.output \in Nat /\ program.executes \in BOOLEAN
  <2>1. PICK e \in Errands : call \in Calls(e)
    BY DEF Init
  <2> QED
    BY <2>1, CallType DEF program
<1>1. TypeOK
  BY <1>0, <1>c DEF Init, TypeOK, Ends, NoResult
<1>2. program.output \in Nat /\ program.executes \in BOOLEAN
  BY <1>c
<1>3. EndsInv /\ ProgramInv
  BY <1>2 DEF Init, EndsInv, ProgramInv
<1>4. BytesInv /\ ExitInv
  BY DEF Init, BytesInv, ExitInv, FailureIsReal, KilledByUnreadBody, NoResult
<1> QED
  BY <1>1, <1>3, <1>4 DEF IInv

-----------------------------------------------------------------------------

(* The server: what it makes, gives to the program, and closes. *)

LEMMA Starting == IInv /\ Start => IInv'
<1> USE DEF IInv, NoResult
<1>1. ASSUME IInv, Execute PROVE IInv'
  <2>0. call'.errand = call.errand /\ call' \in Calls(call.errand) /\ call.errand \in Errands
    BY <1>1, CallType DEF Execute, Begin, TypeOK
  <2>1. /\ request' = call'.request /\ Post' = (call'.request.method = "POST")
        /\ announced' \in Nat
    BY <1>1, <2>0, SizeType DEF Execute, ContentLength, request, Post
  <2>2. TypeOK'
    <3>1. parent_ends' \in SUBSET Ends
      BY <1>1 DEF Execute, Ends
    <3>2. UNCHANGED left /\ left \in 0 .. MaxFds
      BY <1>1 DEF Execute, TypeOK
    <3>3. 0 \in 0 .. PipeSize /\ 0 \in 0 .. 0
      BY PipeAssumption
    <3>4. /\ parent' = "ends" /\ result' = 0 /\ child' = "setup" /\ child_ends' = parent_ends'
          /\ count' = 0 /\ to_write' = 0 /\ exit_seen' = 0 /\ content' = 0 /\ took' = 0
          /\ at_end' = FALSE /\ put' = 0 /\ body_pipe' = 0 /\ out_pipe' = 0
      BY <1>1 DEF Execute, Begin
    <3> QED
      BY <2>0, <2>1, <3>1, <3>2, <3>3, <3>4 DEF TypeOK
  <2>3. EndsInv'
    BY <1>1, <2>1 DEF Execute, EndsInv, EndsMade, Ends
  <2>4. ProgramInv' /\ BytesInv' /\ ExitInv'
    BY <1>1, <2>0, <2>1, CallType
       DEF Execute, Begin, ProgramInv, BytesInv, ExitInv, FailureIsReal, KilledByUnreadBody, program
  <2> QED
    BY <2>2, <2>3, <2>4
<1>2. ASSUME IInv, ExecuteWithoutPipes PROVE IInv'
  <2> DEFINE ends == IF left + 2 <= MaxFds THEN {"out_read", "out_write"} ELSE {}
  <2>1. /\ parent' = "returned" /\ result' = 500 /\ parent_ends' = ends
        /\ left' = left + Cardinality(ends)
        /\ UNCHANGED << call, announced, count, to_write, exit_seen, content, childVars, pipeVars >>
    BY <1>2 DEF ExecuteWithoutPipes, Return
  <2>2. left' \in 0 .. MaxFds
    BY <1>2, <2>1, CountingEnds, FdsAssumption DEF TypeOK
  <2>3. TypeOK'
    BY <1>2, <2>1, <2>2 DEF TypeOK, Ends, childVars, pipeVars
  <2>4. EndsInv' /\ ProgramInv' /\ BytesInv' /\ ExitInv'
    BY <1>2, <2>1
       DEF EndsInv, EndsMade, ProgramInv, BytesInv, ExitInv, FailureIsReal,
           KilledByUnreadBody, request, program, Post, childVars, pipeVars
  <2> QED
    BY <2>3, <2>4
<1>3. ASSUME IInv, SetupFails PROVE IInv'
  <2>0. call'.errand = call.errand /\ call' \in Calls(call.errand) /\ call.errand \in Errands
    BY <1>3, CallType DEF SetupFails, Begin, TypeOK
  <2>1. /\ parent' = "returned" /\ parent_ends' = {} /\ left' = left + Cardinality({})
        /\ result' \in {403, 404}
    BY <1>3, Outcomes DEF SetupFails, Return
  <2>2. /\ child' = "none" /\ child_ends' = {} /\ announced' = 0
        /\ count' = 0 /\ to_write' = 0 /\ exit_seen' = 0 /\ content' = 0 /\ took' = 0
        /\ at_end' = FALSE /\ put' = 0 /\ body_pipe' = 0 /\ out_pipe' = 0
    BY <1>3 DEF SetupFails, Begin
  <2>3. left' \in 0 .. MaxFds /\ 0 \in 0 .. PipeSize /\ 0 \in 0 .. 0
    BY <1>3, <2>1, CountingEnds, PipeAssumption DEF TypeOK
  <2>4. TypeOK'
    BY <2>0, <2>1, <2>2, <2>3, ZenonT(60) DEF TypeOK
  <2>5. program'.output \in Nat /\ program'.executes \in BOOLEAN
    BY <2>0, CallType DEF program
  <2> QED
    BY <2>1, <2>2, <2>4, <2>5
       DEF EndsInv, ProgramInv, BytesInv, ExitInv, FailureIsReal, KilledByUnreadBody
<1> QED
  BY <1>1, <1>2, <1>3 DEF Start

LEMMA ClosingEnds == IInv /\ CloseEnds => IInv'
<1> SUFFICES ASSUME IInv, CloseEnds PROVE IInv'
  OBVIOUS
<1> USE DEF IInv
<1>1. count' \in Nat /\ to_write' \in 0 .. count' /\ (Post => to_write' = count')
  BY SizeType DEF CloseEnds, BytesToWrite, request, TypeOK
<1>2. TypeOK'
  BY <1>1 DEF CloseEnds, TypeOK, childVars, pipeVars
<1>3. EndsInv' /\ ProgramInv'
  BY DEF CloseEnds, EndsInv, EndsMade, ProgramInv, request, program, Post, childVars, pipeVars
<1>4. BytesInv' /\ ExitInv'
  <2>1. /\ took = 0 /\ body_pipe = 0 /\ parent = "ends" /\ parent' \in {"write", "wait"}
        /\ parent' = "write" => to_write' = count'
        /\ UNCHANGED << call, exit_seen, content, result, child, took, put, body_pipe, out_pipe >>
    BY DEF CloseEnds, BytesInv, childVars, pipeVars
  <2>2. BytesInv'
    <3>1. parent' \in {"write", "killed"} => took' + body_pipe' + to_write' = count'
      <4>1. took' = 0 /\ body_pipe' = 0 /\ count' \in Nat /\ (parent' = "write" => to_write' = count')
        BY <1>1, <2>1
      <4>2. parent' \in {"write", "killed"} => to_write' = count'
        BY <2>1
      <4> QED
        BY <4>1, <4>2
    <3>2. content' + out_pipe' = put' /\ result' = NoResult
      BY <2>1 DEF BytesInv
    <3>3. result' \in {200, 502} => child' = "exited" /\ content' = put'
      BY <2>1 DEF BytesInv
    <3>4. parent' # "ends"
      BY <2>1
    <3> QED
      BY <3>1, <3>2, <3>3, <3>4 DEF BytesInv
  <2>3. ExitInv'
    BY <2>1 DEF ExitInv, FailureIsReal, KilledByUnreadBody, program
  <2> QED
    BY <2>2, <2>3
<1> QED
  BY <1>2, <1>3, <1>4

(* A server that writes is killed if nobody has the other end: a program   *)
(* that has not ended would.                                               *)
LEMMA Writing == IInv /\ WriteToPipe => IInv'
<1> SUFFICES ASSUME IInv, WriteToPipe PROVE IInv'
  OBVIOUS
<1> USE DEF IInv
<1>1. UNCHANGED << call, left, parent_ends, announced, count, exit_seen, content, result,
                   child, child_ends, took, at_end, put, out_pipe >>
  BY DEF WriteToPipe, childVars
<1>2. CASE IsOpen("body_read") /\ ~ (parent' = "killed")
  <2> DEFINE n == Least(Room(body_pipe), to_write)
  <2>1. to_write' = to_write - n /\ body_pipe' = body_pipe + n /\ parent' = "write"
    BY <1>2 DEF WriteToPipe
  <2>2. n \in 0 .. to_write /\ body_pipe + n <= PipeSize
    BY PipeAssumption DEF TypeOK, Least, Room
  <2> QED
    BY <1>1, <2>1, <2>2, PipeAssumption
       DEF WriteToPipe, TypeOK, EndsInv, EndsMade, ProgramInv, BytesInv, ExitInv, FailureIsReal,
           KilledByUnreadBody, request, program, Post
<1>3. CASE ~ IsOpen("body_read")
  <2>1. parent' = "killed" /\ UNCHANGED << to_write, body_pipe >> /\ parent = "write" /\ to_write > 0
    BY <1>3 DEF WriteToPipe
  <2>2. child = "exited"
    BY <1>3, <2>1 DEF IsOpen, EndsInv, EndsMade, EndsOfProgram, TypeOK, Ends
  <2>3. took < count
    BY <2>1 DEF BytesInv, TypeOK
  <2> QED
    BY <1>1, <2>1, <2>2, <2>3
       DEF TypeOK, EndsInv, EndsMade, ProgramInv, BytesInv, ExitInv, FailureIsReal,
           KilledByUnreadBody, request, program, Post
<1> QED
  BY <1>2, <1>3 DEF WriteToPipe

LEMMA EndOfBody == IInv /\ BodyWritten => IInv'
<1> SUFFICES ASSUME IInv, BodyWritten PROVE IInv'
  OBVIOUS
<1> USE DEF IInv, NoResult
<1>1. CASE parent' = "wait" /\ UNCHANGED << parent_ends, left, result >>
  BY <1>1 DEF BodyWritten, TypeOK, EndsInv, EndsMade, ProgramInv, BytesInv, ExitInv, FailureIsReal,
              KilledByUnreadBody, request, program, Post, childVars, pipeVars
<1>2. CASE Return(500, parent_ends)
  <2>1. left' \in 0 .. MaxFds
    BY <1>2, Leaving DEF BodyWritten, Return, TypeOK, EndsInv
  <2> QED
    BY <1>2, <2>1
       DEF BodyWritten, Return, TypeOK, EndsInv, EndsMade, ProgramInv, BytesInv, ExitInv,
           FailureIsReal, KilledByUnreadBody, request, program, Post, childVars, pipeVars
<1> QED
  BY <1>1, <1>2 DEF BodyWritten

LEMMA Waiting == IInv /\ WaitForChild => IInv'
<1> SUFFICES ASSUME IInv, WaitForChild PROVE IInv'
  OBVIOUS
<1> USE DEF IInv
<1>1. /\ exit_seen' \in {0, 1}
      /\ exit_seen' = 1 => child = "exited" /\ (program.status # 0 \/ ~ program.executes)
  BY CallType DEF WaitForChild, ExitStatus, TypeOK, program
<1> QED
  BY <1>1 DEF WaitForChild, TypeOK, EndsInv, EndsMade, ProgramInv, BytesInv, ExitInv, FailureIsReal,
              KilledByUnreadBody, request, program, Post, childVars, pipeVars

LEMMA Retrieving == IInv /\ RetrieveContent => IInv'
<1> SUFFICES ASSUME IInv, RetrieveContent PROVE IInv'
  OBVIOUS
<1> USE DEF IInv
<1> DEFINE n == Least(out_pipe, ReadSize)
<1>1. n \in 0 .. out_pipe
  BY PipeAssumption DEF TypeOK, Least
<1>2. content' = content + n /\ out_pipe' = out_pipe - n
  BY DEF RetrieveContent
<1> QED
  BY <1>1, <1>2, PipeAssumption
     DEF RetrieveContent, TypeOK, EndsInv, EndsMade, ProgramInv, BytesInv, ExitInv, FailureIsReal,
         KilledByUnreadBody, request, program, Post, childVars, NoResult

(* Nobody has the end that the program writes to: it has ended, and all it *)
(* has written was read.                                                   *)
LEMMA EndOfOutput ==
    ASSUME IInv, ContentRetrieved
    PROVE  /\ child = "exited" /\ content = put
           /\ EndsLeftOpen = IF Post THEN {"body_write"} ELSE {}
<1>1. parent = "read" /\ out_pipe = 0 /\ "out_write" \notin child_ends
  BY DEF ContentRetrieved, OutputEnded, IsOpen
<1>2. child = "exited"
  BY <1>1 DEF IInv, EndsInv, EndsMade, EndsOfProgram, TypeOK, Ends
<1>3. content = put
  BY <1>1 DEF IInv, BytesInv, TypeOK
<1>4. EndsLeftOpen = IF Post THEN {"body_write"} ELSE {}
  BY <1>1 DEF IInv, EndsInv, EndsMade, EndsOfChild, EndsLeftOpen, Ends
<1> QED
  BY <1>2, <1>3, <1>4

LEMMA Replying == IInv /\ ContentRetrieved => IInv'
<1> SUFFICES ASSUME IInv, ContentRetrieved PROVE IInv'
  OBVIOUS
<1> USE DEF IInv
<1>1. child = "exited" /\ content = put /\ EndsLeftOpen \in SUBSET Ends
  BY EndOfOutput DEF Ends
<1>2. /\ parent' = "returned" /\ result' = IF exit_seen = 0 THEN 200 ELSE 502
      /\ parent_ends' = EndsLeftOpen /\ left' = left + Cardinality(EndsLeftOpen)
      /\ parent = "read"
      /\ UNCHANGED << call, announced, count, to_write, exit_seen, content, child, child_ends,
                      took, at_end, put, body_pipe, out_pipe >>
  BY DEF ContentRetrieved, Return, childVars, pipeVars
<1>3. left' \in 0 .. MaxFds
  BY <1>1, <1>2, Leaving DEF TypeOK, EndsInv
<1>4. TypeOK'
  BY <1>1, <1>2, <1>3 DEF TypeOK
<1> QED
  BY <1>1, <1>2, <1>4
     DEF TypeOK, EndsInv, EndsMade, ProgramInv, BytesInv, ExitInv, FailureIsReal,
         KilledByUnreadBody, request, program, Post

-----------------------------------------------------------------------------

(* The child, whatever the server does meanwhile. *)

LEMMA ChildSteps == IInv /\ Child => IInv'
<1> SUFFICES ASSUME IInv, Child PROVE IInv'
  OBVIOUS
<1> USE DEF IInv
<1>0. program.output \in Nat /\ program.executes \in BOOLEAN
  BY CallType DEF TypeOK, program
<1>1. CASE ChildProcess
  BY <1>0, <1>1
     DEF ChildProcess, Exit, TypeOK, EndsInv, EndsMade, EndsOfProgram, ProgramInv, BytesInv,
         ExitInv, FailureIsReal, KilledByUnreadBody, request, program, Post, parentVars, pipeVars
<1>2. CASE ProgramReads
  <2> DEFINE n == IF program.reads = "length" THEN Least(body_pipe, announced - took) ELSE body_pipe
  <2>1. took' = took + n /\ body_pipe' = body_pipe - n /\ at_end' \in BOOLEAN
        /\ child = "running"
        /\ UNCHANGED << call, parentVars, child, child_ends, put, out_pipe >>
    BY <1>2 DEF ProgramReads, MayRead
  <2>2. n \in 0 .. body_pipe /\ (program.reads = "length" => took + n <= announced)
    BY DEF TypeOK, ProgramInv, Least
  <2>3. TypeOK'
    BY <2>1, <2>2, PipeAssumption DEF TypeOK, parentVars
  <2>4. parent # "killed"
    BY <2>1 DEF ExitInv, KilledByUnreadBody
  <2> QED
    BY <2>1, <2>2, <2>3, <2>4
       DEF TypeOK, EndsInv, EndsMade, ProgramInv, BytesInv, ExitInv, FailureIsReal,
           KilledByUnreadBody, request, program, Post, parentVars
<1>3. CASE ProgramWrites
  <2> DEFINE n == Least(Room(out_pipe), program.output - put)
  <2>1. put' = put + n /\ out_pipe' = out_pipe + n /\ child = "running"
        /\ UNCHANGED << call, parentVars, child, child_ends, took, at_end, body_pipe >>
    BY <1>3 DEF ProgramWrites, MayWrite
  <2>2. n \in Nat /\ out_pipe + n <= PipeSize /\ put + n <= program.output
    BY <1>0, PipeAssumption DEF TypeOK, ProgramInv, Least, Room
  <2>3. TypeOK'
    BY <2>1, <2>2, PipeAssumption DEF TypeOK, parentVars
  <2> QED
    BY <1>0, <2>1, <2>2, <2>3
       DEF TypeOK, EndsInv, EndsMade, ProgramInv, BytesInv, ExitInv, FailureIsReal,
           KilledByUnreadBody, request, program, Post, parentVars
<1>4. CASE ProgramExits
  BY <1>4
     DEF ProgramExits, OutputPut, Exit, TypeOK, EndsInv, EndsMade, ProgramInv, BytesInv,
         ExitInv, FailureIsReal, KilledByUnreadBody, request, program, Post, parentVars, pipeVars
<1> QED
  BY <1>1, <1>2, <1>3, <1>4 DEF Child

(* When nothing changes, nothing is disturbed. *)
LEMMA Stuttering == IInv /\ UNCHANGED vars => IInv'
BY DEF vars, parentVars, childVars, pipeVars, IInv, TypeOK, EndsInv, EndsMade, ProgramInv,
       BytesInv, ExitInv, FailureIsReal, KilledByUnreadBody, request, program, Post

LEMMA Inductive == IInv /\ [Next]_vars => IInv'
BY Starting, ClosingEnds, Writing, EndOfBody, Waiting, Retrieving, Replying, ChildSteps,
   Stuttering
   DEF Next, ParentProcess, Killed

LEMMA Invariance == Spec => []IInv
BY Initial, Inductive, PTL DEF Spec

-----------------------------------------------------------------------------

(***************************************************************************)
(* TypeOK is an invariant: in particular the descriptors that executions   *)
(* leave open are never more than the process has.                         *)
(***************************************************************************)
THEOREM TypeCorrect == Spec => []TypeOK
<1>1. IInv => TypeOK
  BY DEF IInv
<1> QED
  BY <1>1, Invariance, PTL

(***************************************************************************)
(* A reply of a program has the whole of its output, for any sizes of      *)
(* pipes, reads and output (RetrieveContent).                              *)
(***************************************************************************)
THEOREM OutputIsComplete == Spec => []ContentIsOutput
<1>1. IInv => ContentIsOutput
  BY DEF IInv, TypeOK, ProgramInv, BytesInv, ContentIsOutput
<1> QED
  BY <1>1, Invariance, PTL

(***************************************************************************)
(* 502 is only replied for a program that failed, and SIGPIPE only met by  *)
(* one that has ended before it read its body (SetExecStatusCode,          *)
(* WriteToPipe).                                                           *)
(***************************************************************************)
THEOREM FailuresAreReal == Spec => [](FailureIsReal /\ KilledByUnreadBody)
<1>1. IInv => FailureIsReal /\ KilledByUnreadBody
  BY DEF IInv, ExitInv
<1> QED
  BY <1>1, Invariance, PTL

(***************************************************************************)
(* An execution that replies leaves one descriptor open if its program was *)
(* given a body, and none otherwise (ParentProcess).                       *)
(***************************************************************************)
THEOREM DescriptorsAreGivenBack == Spec => LeavesOneEnd
<1> DEFINE Step == parent # "returned" /\ result' \in {200, 502}
                      => left' <= left + (IF Post THEN 1 ELSE 0)
<1>1. IInv /\ [Next]_vars => Step
  <2> SUFFICES ASSUME IInv, [Next]_vars, parent # "returned", result' \in {200, 502}
               PROVE  left' <= left + (IF Post THEN 1 ELSE 0)
    OBVIOUS
  <2>1. result = NoResult
    BY DEF IInv, BytesInv
  <2>2. ContentRetrieved
    BY <2>1
       DEF Next, Start, ParentProcess, Child, Killed, SetupFails, Execute, ExecuteWithoutPipes,
           CloseEnds, WriteToPipe, BodyWritten, WaitForChild, RetrieveContent, Return, ChildProcess, ProgramReads,
           ProgramWrites, ProgramExits, parentVars, vars, NoResult
  <2>3. left' = left + Cardinality(IF Post THEN {"body_write"} ELSE {})
    BY <2>2, EndOfOutput DEF ContentRetrieved, Return
  <2> QED
    BY <2>3, CountingEnds DEF IInv, TypeOK
<1> QED
  BY <1>1, Invariance, PTL DEF Spec, LeavesOneEnd

-----------------------------------------------------------------------------
(* Names, and how they are compared. *)

LEMMA LastSlashIs ==
    ASSUME NEW p \in Seq(STRING)
    PROVE  /\ LastSlash(p) \in 0 .. Len(p)
           /\ LastSlash(p) # 0 => p[LastSlash(p)] = "/"
           /\ \A i \in 1 .. Len(p) : p[i] = "/" => LastSlash(p) # 0 /\ i =< LastSlash(p)
<1> DEFINE Slashes == { i \in 1 .. Len(p) : p[i] = "/" }
<1>1. LastSlash(p) = IF Slashes # {} THEN Max(Slashes) ELSE 0
  BY DEF LastSlash, SelectLastInSeq
<1>2. CASE Slashes = {}
  BY <1>1, <1>2
<1>3. CASE Slashes # {}
  <2>1. Len(p) \in Nat /\ Slashes \in SUBSET (1 .. Len(p))
    OBVIOUS
  <2> HIDE DEF Slashes
  <2>2. Max(Slashes) \in Slashes /\ \A y \in Slashes : y =< Max(Slashes)
    BY <1>3, <2>1, MaxExists
  <2> QED
    BY <1>1, <1>3, <2>1, <2>2 DEF Slashes
<1> QED
  BY <1>2, <1>3

(* n is the number of characters of the name of a path with a slash. *)
IsNameSize(path, n) ==
    /\ n \in 0 .. Len(path) - 1
    /\ FromBehind(path, n) = "/"
    /\ \A k \in 0 .. n - 1 : FromBehind(path, k) # "/"

LEMMA NameSizeExists ==
    ASSUME NEW p \in Seq(STRING), NEW i \in 1 .. Len(p), p[i] = "/"
    PROVE  \E n \in 0 .. Len(p) - i : IsNameSize(p, n)
<1> DEFINE n == Len(p) - LastSlash(p)
<1>1. /\ LastSlash(p) \in i .. Len(p) /\ p[LastSlash(p)] = "/"
      /\ \A k \in 1 .. Len(p) : p[k] = "/" => k =< LastSlash(p)
  BY LastSlashIs
<1>2. n \in 0 .. Len(p) - i /\ Len(p) - n = LastSlash(p)
  BY <1>1
<1> HIDE DEF n
<1>3. \A k \in 0 .. n - 1 : Len(p) - k \in 1 .. Len(p) /\ Len(p) - k > LastSlash(p)
  BY <1>1, <1>2
<1> QED
  BY <1>1, <1>2, <1>3, SMTT(60) DEF IsNameSize, FromBehind

LEMMA NameBySize ==
    ASSUME NEW p \in Seq(STRING), NEW n, IsNameSize(p, n)
    PROVE  /\ Name(p) = SubSeq(p, Len(p) - n + 1, Len(p))
           /\ Name(p) \in Seq(STRING) /\ Len(Name(p)) = n
           /\ \A j \in 1 .. n : Name(p)[j] = FromBehind(p, n - j)
<1>1. n \in 0 .. Len(p) - 1 /\ p[Len(p) - n] = "/" /\ \A k \in 0 .. n - 1 : p[Len(p) - k] # "/"
  BY DEF IsNameSize, FromBehind
<1>2. LastSlash(p) = Len(p) - n
  <2>1. LastSlash(p) \in 1 .. Len(p) /\ p[LastSlash(p)] = "/" /\ Len(p) - n =< LastSlash(p)
    BY <1>1, LastSlashIs
  <2>2. ASSUME Len(p) - n < LastSlash(p) PROVE FALSE
    <3>1. Len(p) - LastSlash(p) \in 0 .. n - 1 /\ Len(p) - (Len(p) - LastSlash(p)) = LastSlash(p)
      BY <1>1, <2>1, <2>2
    <3> QED
      BY <1>1, <2>1, <3>1
  <2> QED
    BY <1>1, <2>1, <2>2
<1>3. Name(p) = SubSeq(p, Len(p) - n + 1, Len(p))
  BY <1>2 DEF Name
<1>4. /\ SubSeq(p, Len(p) - n + 1, Len(p)) \in Seq(STRING)
      /\ Len(SubSeq(p, Len(p) - n + 1, Len(p))) = n
      /\ \A j \in 1 .. n : SubSeq(p, Len(p) - n + 1, Len(p))[j] = p[Len(p) - n + j]
  BY <1>1
<1>5. \A j \in 1 .. n : Len(p) - n + j = Len(p) - (n - j)
  BY <1>1
<1> QED
  BY <1>3, <1>4, <1>5 DEF FromBehind

(* A path without a slash is a name. *)
LEMMA NameOfName ==
    ASSUME NEW p \in Seq(STRING), \A i \in 1 .. Len(p) : p[i] # "/"
    PROVE  Name(p) = p
<1>1. LastSlash(p) = 0
  BY LastSlashIs
<1>2. SubSeq(p, 1, Len(p)) = p
  OBVIOUS
<1> QED
  BY <1>1, <1>2 DEF Name

(* Paths whose names are of one size and have the same characters. *)
LEMMA SameNames ==
    ASSUME NEW p \in Seq(STRING), NEW q \in Seq(STRING), NEW n, IsNameSize(p, n), IsNameSize(q, n),
           \A k \in 0 .. n - 1 : FromBehind(p, k) = FromBehind(q, k)
    PROVE  Name(p) = Name(q)
<1>1. /\ Name(p) \in Seq(STRING) /\ Name(q) \in Seq(STRING)
      /\ Len(Name(p)) = n /\ Len(Name(q)) = n /\ n \in Nat
      /\ \A j \in 1 .. n : Name(p)[j] = FromBehind(p, n - j) /\ Name(q)[j] = FromBehind(q, n - j)
  <2>1. Name(p) \in Seq(STRING) /\ Len(Name(p)) = n /\ \A j \in 1 .. n : Name(p)[j] = FromBehind(p, n - j)
    BY NameBySize
  <2>2. Name(q) \in Seq(STRING) /\ Len(Name(q)) = n /\ \A j \in 1 .. n : Name(q)[j] = FromBehind(q, n - j)
    BY NameBySize
  <2> QED
    BY <2>1, <2>2 DEF IsNameSize
<1>2. \A j \in 1 .. n : n - j \in 0 .. n - 1
  BY <1>1
<1>3. \A j \in 1 .. n : Name(p)[j] = Name(q)[j]
  BY <1>1, <1>2
<1> QED
  BY <1>1, <1>3

(* What is put before a name and its slash does not change it. *)
LEMMA NameBehind ==
    ASSUME NEW p \in Seq(STRING), NEW q \in Seq(STRING),
           EndsInSlash(p) \/ \E i \in 1 .. Len(q) : q[i] = "/"
    PROVE  Name(p \o q) = Name(q)
<1> DEFINE r == p \o q
<1>1. /\ r \in Seq(STRING) /\ Len(r) = Len(p) + Len(q)
      /\ \A k \in 1 .. Len(q) : r[Len(p) + k] = q[k]
      /\ \A k \in 1 .. Len(p) : r[k] = p[k]
  OBVIOUS
<1> HIDE DEF r
<1>2. \A k \in 0 .. Len(q) - 1 : FromBehind(r, k) = FromBehind(q, k)
  <2> TAKE k \in 0 .. Len(q) - 1
  <2>1. Len(q) - k \in 1 .. Len(q) /\ Len(r) - k = Len(p) + (Len(q) - k)
    BY <1>1
  <2> QED
    BY <1>1, <2>1 DEF FromBehind
<1>3. CASE \E i \in 1 .. Len(q) : q[i] = "/"
  <2>1. PICK n : IsNameSize(q, n)
    BY <1>3, NameSizeExists
  <2>2. n \in 0 .. Len(q) - 1
    BY <2>1 DEF IsNameSize
  <2>3. \A k \in 0 .. n : k \in 0 .. Len(q) - 1
    BY <2>2
  <2>4. IsNameSize(r, n)
    BY <1>1, <1>2, <2>1, <2>2, <2>3 DEF IsNameSize
  <2>5. \A k \in 0 .. n - 1 : FromBehind(r, k) = FromBehind(q, k)
    BY <1>2, <2>2
  <2> QED
    BY <1>1, <2>1, <2>4, <2>5, SameNames DEF r
<1>4. CASE \A i \in 1 .. Len(q) : q[i] # "/"
  <2>1. EndsInSlash(p) /\ Name(q) = q
    BY <1>4, NameOfName
  <2>2. Len(p) \in Nat \ {0} /\ p[Len(p)] = "/"
    BY <2>1 DEF EndsInSlash, Last
  <2>3. IsNameSize(r, Len(q))
    <3>1. FromBehind(r, Len(q)) = "/"
      BY <1>1, <2>2 DEF FromBehind
    <3>2. \A k \in 0 .. Len(q) - 1 : Len(q) - k \in 1 .. Len(q)
      OBVIOUS
    <3>3. \A k \in 0 .. Len(q) - 1 : FromBehind(r, k) # "/"
      BY <1>2, <1>4, <3>2 DEF FromBehind
    <3> QED
      BY <1>1, <2>2, <3>1, <3>3 DEF IsNameSize
  <2>4. /\ Name(r) \in Seq(STRING) /\ Len(Name(r)) = Len(q)
        /\ \A j \in 1 .. Len(q) : Name(r)[j] = FromBehind(r, Len(q) - j)
    BY <1>1, <2>3, NameBySize
  <2>5. \A j \in 1 .. Len(q) : Len(q) - j \in 0 .. Len(q) - 1 /\ Len(q) - (Len(q) - j) = j
    OBVIOUS
  <2>6. \A j \in 1 .. Len(q) : Name(r)[j] = q[j]
    BY <1>2, <2>4, <2>5 DEF FromBehind
  <2>7. Name(r) = q
    BY <2>4, <2>6
  <2> QED
    BY <2>1, <2>7 DEF r
<1> QED
  BY <1>3, <1>4

(* A slash that the comparison may come to: not the first character. *)
HasInnerSlash(path) == \E i \in 2 .. Len(path) : path[i] = "/"

(* The comparison as EndAlike has it. *)
ComparedOf(one, two) == 0 .. Min({ Len(one), Len(two) }) - 2
StopsOf(one, two) ==
    { n \in ComparedOf(one, two) : FromBehind(one, n) # FromBehind(two, n) \/ FromBehind(one, n) = "/" }

LEMMA Comparing ==
    ASSUME NEW one \in Seq(STRING), NEW two \in Seq(STRING)
    PROVE  /\ \A n : n \in ComparedOf(one, two)
                        <=> n \in 0 .. Len(one) - 2 /\ n \in 0 .. Len(two) - 2
           /\ EndAlike(one, two) <=>
                 IF StopsOf(one, two) = {}
                    THEN Len(one) = Len(two)
                    ELSE FromBehind(one, Min(StopsOf(one, two))) = FromBehind(two, Min(StopsOf(one, two)))
           /\ StopsOf(one, two) \in SUBSET Nat
<1>1. EndAlike(one, two) <=>
         IF StopsOf(one, two) = {}
            THEN Len(one) = Len(two)
            ELSE FromBehind(one, Min(StopsOf(one, two))) = FromBehind(two, Min(StopsOf(one, two)))
  BY DEF EndAlike, StopsOf, ComparedOf
<1> DEFINE m == Min({ Len(one), Len(two) })
<1>2. m \in { Len(one), Len(two) } /\ m =< Len(one) /\ m =< Len(two)
  <2>1. { Len(one), Len(two) } \in SUBSET Nat /\ { Len(one), Len(two) } # {}
    OBVIOUS
  <2>2. Min({ Len(one), Len(two) }) \in { Len(one), Len(two) }
        /\ \A y \in { Len(one), Len(two) } : Min({ Len(one), Len(two) }) =< y
    BY <2>1, MinExists
  <2> QED
    BY <2>2
<1> HIDE DEF m
<1>3. \A n : n \in 0 .. m - 2 <=> n \in 0 .. Len(one) - 2 /\ n \in 0 .. Len(two) - 2
  BY <1>2
<1>4. ComparedOf(one, two) = 0 .. m - 2
  BY DEF m, ComparedOf
<1> QED
  BY <1>1, <1>3, <1>4 DEF StopsOf

(* Paths that compare alike have one name, if one has a slash to stop at. *)
LEMMA EndAlikeNames ==
    ASSUME NEW one \in Seq(STRING), NEW two \in Seq(STRING), EndAlike(one, two),
           HasInnerSlash(one) \/ HasInnerSlash(two)
    PROVE  Name(one) = Name(two)
<1> DEFINE S == StopsOf(one, two)
<1>1. S # {}
  <2> SUFFICES ASSUME S = {} PROVE FALSE
    OBVIOUS
  <2>1. Len(one) = Len(two)
    BY Comparing
  <2>2. \A n \in 0 .. Len(one) - 2 : FromBehind(one, n) = FromBehind(two, n) /\ FromBehind(one, n) # "/"
    BY <2>1, Comparing DEF StopsOf
  <2>3. PICK i \in 2 .. Len(one) : one[i] = "/" \/ two[i] = "/"
    BY <2>1 DEF HasInnerSlash
  <2>4. Len(one) - i \in 0 .. Len(one) - 2 /\ Len(one) - (Len(one) - i) = i
    OBVIOUS
  <2> QED
    BY <2>1, <2>2, <2>3, <2>4 DEF FromBehind
<1>2. PICK n : n = Min(S)
  OBVIOUS
<1>3. n \in S /\ \A k \in S : n =< k
  BY <1>1, <1>2, Comparing, MinExists
<1>4. FromBehind(one, n) = FromBehind(two, n)
  BY <1>1, <1>2, Comparing
<1>5. /\ n \in 0 .. Len(one) - 2 /\ n \in 0 .. Len(two) - 2
      /\ FromBehind(one, n) = "/"
  BY <1>3, <1>4, Comparing DEF StopsOf
<1>6. ASSUME NEW k \in 0 .. n - 1
      PROVE  FromBehind(one, k) = FromBehind(two, k) /\ FromBehind(one, k) # "/"
  <2>1. k \in 0 .. Len(one) - 2 /\ k \in 0 .. Len(two) - 2 /\ ~ n =< k
    BY <1>5
  <2>2. k \in ComparedOf(one, two) /\ k \notin S
    BY <1>3, <2>1, Comparing
  <2> QED
    BY <2>2 DEF StopsOf
<1>7. n \in 0 .. Len(one) - 1 /\ n \in 0 .. Len(two) - 1
  BY <1>5
<1>8. IsNameSize(one, n)
  BY <1>5, <1>6, <1>7 DEF IsNameSize
<1>9. IsNameSize(two, n)
  <2>1. \A k \in 0 .. n - 1 : FromBehind(two, k) # "/"
    BY <1>6
  <2> QED
    BY <1>4, <1>5, <1>7, <2>1 DEF IsNameSize
<1>10. \A k \in 0 .. n - 1 : FromBehind(one, k) = FromBehind(two, k)
  BY <1>6
<1> QED
  BY <1>8, <1>9, <1>10, SameNames

(* And those of one name compare alike, if both have such a slash. *)
LEMMA NamesEndAlike ==
    ASSUME NEW one \in Seq(STRING), NEW two \in Seq(STRING), Name(one) = Name(two),
           HasInnerSlash(one), HasInnerSlash(two)
    PROVE  EndAlike(one, two)
<1>1. ASSUME NEW p \in Seq(STRING), HasInnerSlash(p)
      PROVE  \E n \in 0 .. Len(p) - 2 : IsNameSize(p, n)
  <2>1. PICK i \in 2 .. Len(p) : p[i] = "/"
    BY <1>1 DEF HasInnerSlash
  <2>2. i \in 1 .. Len(p)
    OBVIOUS
  <2>3. PICK n \in 0 .. Len(p) - i : IsNameSize(p, n)
    BY <2>1, <2>2, NameSizeExists
  <2>4. n \in 0 .. Len(p) - 2
    OBVIOUS
  <2> QED
    BY <2>3, <2>4
<1>2. PICK n \in 0 .. Len(one) - 2 : IsNameSize(one, n)
  BY <1>1
<1>3. PICK m \in 0 .. Len(two) - 2 : IsNameSize(two, m)
  BY <1>1
<1>4. /\ Len(Name(one)) = n /\ \A j \in 1 .. n : Name(one)[j] = FromBehind(one, n - j)
      /\ Len(Name(two)) = m /\ \A j \in 1 .. m : Name(two)[j] = FromBehind(two, m - j)
  BY <1>2, <1>3, NameBySize
<1>5. m = n
  BY <1>4
<1>6. ASSUME NEW k \in 0 .. n - 1
      PROVE  FromBehind(one, k) = FromBehind(two, k) /\ FromBehind(one, k) # "/"
  <2>1. n - k \in 1 .. n /\ n - (n - k) = k
    BY <1>2
  <2>2. FromBehind(one, k) = Name(one)[n - k] /\ FromBehind(two, k) = Name(two)[n - k]
    BY <1>4, <1>5, <2>1
  <2> QED
    BY <1>2, <2>2 DEF IsNameSize
<1> DEFINE S == StopsOf(one, two)
<1>7. FromBehind(one, n) = "/" /\ FromBehind(two, n) = "/"
  BY <1>2, <1>3, <1>5 DEF IsNameSize
<1>8. n \in S /\ S \in SUBSET Nat
  BY <1>2, <1>3, <1>5, <1>7, Comparing DEF StopsOf
<1>9. ASSUME NEW k \in S PROVE n =< k
  <2>1. k \in Nat /\ k \notin 0 .. n - 1
    BY <1>6, <1>8 DEF StopsOf
  <2> QED
    BY <1>2, <2>1
<1>10. Min(S) = n
  BY <1>8, <1>9, MinIs
<1> QED
  BY <1>7, <1>8, <1>10, Comparing

(* The characters of two texts behind each other. *)
LEMMA Joined ==
    ASSUME NEW S, NEW p \in Seq(S), NEW q \in Seq(S)
    PROVE  /\ p \o q \in Seq(S) /\ Len(p \o q) = Len(p) + Len(q)
           /\ \A i \in 1 .. Len(p) : (p \o q)[i] = p[i]
           /\ \A i \in 1 .. Len(q) : (p \o q)[Len(p) + i] = q[i]
  OBVIOUS

(* A text over some characters is one over more characters. *)
LEMMA Wider ==
    ASSUME NEW S, NEW T, S \subseteq T, NEW p \in Seq(S)
    PROVE  p \in Seq(T)
<1>1. p \in [1 .. Len(p) -> T] /\ Len(p) \in Nat
  OBVIOUS
<1> QED
  BY <1>1

(* A text of two characters. *)
LEMMA Pair ==
    ASSUME NEW S, NEW a \in S, NEW b \in S
    PROVE  /\ << a, b >> \in Seq(S) /\ Len(<< a, b >>) = 2
           /\ << a, b >>[1] = a /\ << a, b >>[2] = b
  OBVIOUS

(* A query goes, and a path without question mark stays. *)
LEMMA QueryRemoved ==
    ASSUME NEW p \in Seq(STRING), NEW q \in Seq(STRING), "?" \notin ToSet(p)
    PROVE  /\ RemoveQuery(p) = p
           /\ RemoveQuery(p \o (<< "?" >> \o q)) = p
<1> DEFINE S    == STRING \cup { "?" }
           mark == << "?" >>
<1>0. p \in Seq(S) /\ q \in Seq(S)
  BY Wider
<1>1. mark \in Seq(S) /\ Len(mark) = 1 /\ 1 \in 1 .. Len(mark) /\ mark[1] = "?"
  <2>1. "?" \in S
    OBVIOUS
  <2> QED
    BY <2>1, Singleton
<1>2. \A i \in 1 .. Len(p) : p[i] # "?"
  BY DEF ToSet
<1> HIDE DEF S
<1>3. ASSUME NEW r \in Seq(S), Len(r) > Len(p), \A i \in 1 .. Len(p) : r[i] = p[i], r[Len(p) + 1] = "?"
      PROVE  SelectInSeq(r, LAMBDA c : c = "?") = Len(p) + 1
  <2> DEFINE Marks == { i \in 1 .. Len(r) : r[i] = "?" }
  <2>1. SelectInSeq(r, LAMBDA c : c = "?") = IF Marks # {} THEN Min(Marks) ELSE 0
    BY DEF SelectInSeq
  <2>2. Len(p) + 1 \in Marks /\ Marks \in SUBSET Nat
    BY <1>3
  <2>3. \A i \in Marks : Len(p) + 1 =< i
    BY <1>0, <1>2, <1>3
  <2> HIDE DEF Marks
  <2>4. Min(Marks) = Len(p) + 1
    BY <2>2, <2>3, MinIs
  <2> QED
    BY <2>1, <2>2, <2>4
<1> HIDE DEF mark
<1>4. RemoveQuery(p) = p
  <2> DEFINE r == p \o mark
  <2>1. /\ r \in Seq(S) /\ Len(r) > Len(p) /\ \A i \in 1 .. Len(p) : r[i] = p[i]
        /\ r[Len(p) + 1] = "?"
    <3>1. PICK m \in Seq(S) : m = mark /\ Len(m) = 1 /\ m[1] = "?"
      BY <1>1
    <3>2. r = p \o m
      BY <3>1
    <3>3. /\ p \o m \in Seq(S) /\ Len(p \o m) = Len(p) + Len(m)
          /\ \A i \in 1 .. Len(p) : (p \o m)[i] = p[i]
          /\ \A i \in 1 .. Len(m) : (p \o m)[Len(p) + i] = m[i]
      BY <1>0
    <3> HIDE DEF r
    <3> QED
      BY <1>0, <3>1, <3>2, <3>3
  <2> HIDE DEF r
  <2>2. SelectInSeq(r, LAMBDA c : c = "?") = Len(p) + 1
    BY <1>3, <2>1
  <2>3. SubSeq(p, 1, (Len(p) + 1) - 1) = p
    OBVIOUS
  <2>4. RemoveQuery(p) = SubSeq(p, 1, SelectInSeq(r, LAMBDA c : c = "?") - 1)
    BY DEF RemoveQuery, r, mark
  <2> QED
    BY <2>2, <2>3, <2>4
<1>5. RemoveQuery(p \o (mark \o q)) = p
  <2> DEFINE a == p \o (mark \o q)
             r == a \o mark
  <2>1. /\ a \in Seq(S) /\ Len(a) = Len(p) + 1 + Len(q) /\ \A i \in 1 .. Len(p) : a[i] = p[i]
        /\ a[Len(p) + 1] = "?"
    <3> DEFINE b == mark \o q
    <3>1. b \in Seq(S) /\ Len(b) = 1 + Len(q) /\ b[1] = "?" /\ 1 \in 1 .. Len(b)
      <4>1. PICK m \in Seq(S) : m = mark /\ Len(m) = 1 /\ m[1] = "?"
        BY <1>1
      <4>2. b = m \o q
        BY <4>1
      <4>3. /\ m \o q \in Seq(S) /\ Len(m \o q) = Len(m) + Len(q)
            /\ \A i \in 1 .. Len(m) : (m \o q)[i] = m[i]
            /\ \A i \in 1 .. Len(q) : (m \o q)[Len(m) + i] = q[i]
        BY <1>0
      <4> HIDE DEF b
      <4> QED
        BY <1>0, <4>1, <4>2, <4>3
    <3> HIDE DEF b
    <3>2. /\ p \o b \in Seq(S) /\ Len(p \o b) = Len(p) + Len(b)
          /\ \A i \in 1 .. Len(p) : (p \o b)[i] = p[i]
          /\ \A i \in 1 .. Len(b) : (p \o b)[Len(p) + i] = b[i]
      BY <1>0, <3>1
    <3> QED
      BY <3>1, <3>2 DEF b
  <2> HIDE DEF a
  <2>2. /\ r \in Seq(S) /\ Len(r) > Len(p) /\ \A i \in 1 .. Len(p) : r[i] = p[i]
        /\ r[Len(p) + 1] = "?"
    BY <1>1, <2>1
  <2> HIDE DEF r
  <2>3. SelectInSeq(r, LAMBDA c : c = "?") = Len(p) + 1
    BY <1>3, <2>2
  <2>4. SubSeq(a, 1, (Len(p) + 1) - 1) = p
    BY <2>1
  <2>5. RemoveQuery(a) = SubSeq(a, 1, SelectInSeq(r, LAMBDA c : c = "?") - 1)
    BY DEF RemoveQuery, r, mark
  <2> QED
    BY <2>3, <2>4, <2>5 DEF a
<1> QED
  BY <1>4, <1>5 DEF mark

(* A suffix has the same elements as the end. *)
LEMMA SuffixByElements ==
    ASSUME NEW s \in Seq(STRING), NEW t \in Seq(STRING)
    PROVE  IsSuffix(s, t) <=> /\ Len(s) =< Len(t)
                              /\ \A k \in 0 .. Len(s) - 1 : FromBehind(s, k) = FromBehind(t, k)
<1> DEFINE r == Reverse(s)
           u == Reverse(t)
<1>1. ASSUME NEW x \in Seq(STRING)
      PROVE  /\ Reverse(x) \in Seq(STRING) /\ Len(Reverse(x)) = Len(x)
             /\ \A i \in 1 .. Len(x) : Reverse(x)[i] = FromBehind(x, i - 1)
  <2>1. \A i \in 1 .. Len(x) : (Len(x) - i) + 1 \in 1 .. Len(x) /\ (Len(x) - i) + 1 = Len(x) - (i - 1)
    OBVIOUS
  <2>2. [ i \in 1 .. Len(x) |-> x[(Len(x) - i) + 1] ] \in Seq(STRING)
    BY <2>1
  <2> QED
    BY <2>1, <2>2 DEF Reverse, FromBehind
<1>2. /\ r \in Seq(STRING) /\ Len(r) = Len(s) /\ \A i \in 1 .. Len(s) : r[i] = FromBehind(s, i - 1)
      /\ u \in Seq(STRING) /\ Len(u) = Len(t) /\ \A i \in 1 .. Len(t) : u[i] = FromBehind(t, i - 1)
  BY <1>1
<1>3. IsSuffix(s, t) <=> IsPrefix(r, u)
  BY DEF IsSuffix
<1> HIDE DEF r, u
<1>4. IsPrefix(r, u) <=> Len(r) =< Len(u) /\ \A i \in 1 .. Len(r) : r[i] = u[i]
  BY <1>2, PrefixByElements
<1>5. ASSUME Len(s) =< Len(t)
      PROVE  (\A i \in 1 .. Len(r) : r[i] = u[i]) <=> \A k \in 0 .. Len(s) - 1 : FromBehind(s, k) = FromBehind(t, k)
  <2>1. \A i \in 1 .. Len(s) : r[i] = FromBehind(s, i - 1) /\ u[i] = FromBehind(t, i - 1) /\ i - 1 \in 0 .. Len(s) - 1
    BY <1>2, <1>5
  <2>2. \A k \in 0 .. Len(s) - 1 : k + 1 \in 1 .. Len(s) /\ (k + 1) - 1 = k
    OBVIOUS
  <2>3. ASSUME \A i \in 1 .. Len(r) : r[i] = u[i], NEW k \in 0 .. Len(s) - 1
        PROVE  FromBehind(s, k) = FromBehind(t, k)
    BY <1>2, <2>1, <2>2, <2>3
  <2> QED
    BY <1>2, <2>1, <2>3
<1> QED
  BY <1>2, <1>3, <1>4, <1>5

-----------------------------------------------------------------------------
(* Errands. *)

(* The paths of an errand, and what tells files from directories. *)
LEMMA ErrandPaths ==
    ASSUME NEW l, IsErrand(l), RegularErrand(l)
    PROVE  /\ Path(l) \in Seq(STRING) /\ Path(l)[1] = "/" /\ Len(Path(l)) > 1 /\ HasInnerSlash(Path(l))
           /\ EndsInSlash(Path(l)) <=> EndsInSlash(l.path)
           /\ EndsInSlash(ParsedURI(l)) <=> EndsInSlash(l.path)
           /\ l.host \o l.path \in Seq(STRING) /\ HasInnerSlash(l.host \o l.path)
           /\ Name(l.host \o l.path) = Name(l.path)
<1> DEFINE c == l.site.cwd
           r == ResolvedPath(l)
           located == Located(l.site.config, l.path)
<1>1. /\ l.host \in Seq(STRING) /\ l.host # << >> /\ l.query \in Seq(STRING)
      /\ l.path \in Seq(STRING) /\ l.path # << >> /\ l.path[1] = "/"
      /\ c \in Seq(STRING) /\ c # << >> /\ c[1] = "/"
  BY DEF IsErrand, IsSite, RegularErrand
<1>2. /\ r \in Seq(STRING) /\ \E i \in 1 .. Len(r) : r[i] = "/"
      /\ EndsInSlash(r) <=> EndsInSlash(l.path)
  <2>1. r = CleanUpPath(located)
    BY DEF ResolvedPath, Resolved, IndexIsDue, IsErrand, IsSite
  <2>2. located \in Seq(STRING)
    BY <1>1, LocatedType DEF IsErrand, IsSite
  <2>3. r \in Seq(STRING)
    BY <2>1, <2>2, CleanUpPathEnd
  <2>4. \E i \in 1 .. Len(r) : r[i] = "/"
    BY <2>3 DEF RegularErrand, ToSet
  <2> QED
    BY <2>3, <2>4 DEF RegularErrand, EndsInSlash
<1> HIDE DEF c, r, located
<1>3. ASSUME NEW x \in Seq(STRING), NEW y \in Seq(STRING), x # << >>, \E i \in 1 .. Len(y) : y[i] = "/"
      PROVE  /\ x \o y \in Seq(STRING) /\ (x \o y)[1] = x[1] /\ Len(x \o y) > 1
             /\ HasInnerSlash(x \o y)
             /\ EndsInSlash(x \o y) <=> EndsInSlash(y)
  <2> DEFINE z == x \o y
  <2>1. /\ z \in Seq(STRING) /\ z[1] = x[1] /\ Len(z) = Len(x) + Len(y) /\ Len(y) > 0 /\ Len(x) > 0
        /\ \A i \in 1 .. Len(y) : z[Len(x) + i] = y[i]
    BY <1>3
  <2> HIDE DEF z
  <2>2. HasInnerSlash(z)
    <3>1. PICK i \in 1 .. Len(y) : y[i] = "/"
      BY <1>3
    <3>2. Len(x) + i \in 2 .. Len(z)
      BY <2>1
    <3> QED
      BY <2>1, <3>1, <3>2 DEF HasInnerSlash
  <2>3. z[Len(z)] = y[Len(y)]
    BY <2>1
  <2>4. EndsInSlash(z) <=> EndsInSlash(y)
    BY <2>1, <2>3 DEF EndsInSlash, Last
  <2> QED
    BY <2>1, <2>2, <2>4 DEF z
<1>4. Path(l) = c \o r
  BY DEF Path, c, r
<1>5. \E i \in 1 .. Len(l.path) : l.path[i] = "/"
  <2>1. 1 \in 1 .. Len(l.path)
    BY <1>1
  <2> QED
    BY <1>1, <2>1
<1>6. EndsInSlash(ParsedURI(l)) <=> EndsInSlash(l.path)
  <2> DEFINE x == l.host \o l.path
  <2>1. x \in Seq(STRING) /\ x # << >> /\ (EndsInSlash(x) <=> EndsInSlash(l.path))
    <3>1. x \in Seq(STRING) /\ Len(x) > 1 /\ (EndsInSlash(x) <=> EndsInSlash(l.path))
      BY <1>1, <1>3, <1>5
    <3> HIDE DEF x
    <3> QED
      BY <3>1
  <2> HIDE DEF x
  <2>2. CASE l.query = << >>
    <3>1. ParsedURI(l) = x \o << >>
      BY <2>2 DEF ParsedURI, x
    <3>2. x \o << >> = x
      BY <2>1
    <3> QED
      BY <2>1, <3>1, <3>2
  <2>3. CASE l.query # << >>
    <3> DEFINE q == << "?" >> \o l.query
               y == x \o q
    <3>1. ParsedURI(l) = y
      BY <2>3 DEF ParsedURI, x
    <3>2. PICK a \in Seq(STRING) : a = l.query /\ a # << >>
      BY <1>1, <2>3
    <3>3. y # << >> /\ y[Len(y)] = a[Len(a)]
      <4> DEFINE S    == STRING \cup { "?" }
                 mark == << "?" >>
      <4>1. "?" \in S /\ a \in Seq(S) /\ x \in Seq(S)
        BY <2>1, Wider
      <4>2. mark \in Seq(S) /\ Len(mark) = 1
        BY <4>1, Singleton
      <4> HIDE DEF mark, S
      <4>3. PICK m \in Seq(S) : m = mark /\ Len(m) = 1
        BY <4>2
      <4>4. /\ m \o a \in Seq(S) /\ Len(m \o a) = Len(m) + Len(a)
            /\ \A i \in 1 .. Len(a) : (m \o a)[Len(m) + i] = a[i]
        BY <4>1
      <4>5. q = m \o a
        BY <3>2, <4>3 DEF mark
      <4> HIDE DEF q
      <4>6. q \in Seq(S) /\ Len(q) = 1 + Len(a) /\ q[Len(q)] = a[Len(a)] /\ Len(q) \in 1 .. Len(q)
        BY <3>2, <4>3, <4>4, <4>5
      <4>7. PICK v \in Seq(S), w \in Seq(S) : v = x /\ w = q
        BY <4>1, <4>6
      <4>8. /\ v \o w \in Seq(S) /\ Len(v \o w) = Len(v) + Len(w)
            /\ \A i \in 1 .. Len(v) : (v \o w)[i] = v[i]
            /\ \A i \in 1 .. Len(w) : (v \o w)[Len(v) + i] = w[i]
        BY Joined
      <4>9. y = v \o w
        BY <4>7
      <4> HIDE DEF y
      <4> QED
        BY <4>6, <4>7, <4>8, <4>9
    <3>4. ~ EndsInSlash(l.query) /\ ~ EndsInSlash(l.path)
      BY <2>3 DEF RegularErrand
    <3>5. a[Len(a)] # "/"
      BY <3>2, <3>4 DEF EndsInSlash, Last
    <3> HIDE DEF y
    <3>6. ~ EndsInSlash(y)
      BY <3>3, <3>5 DEF EndsInSlash, Last
    <3> QED
      BY <3>1, <3>4, <3>6
  <2> QED
    BY <2>2, <2>3
<1>7. Name(l.host \o l.path) = Name(l.path)
  BY <1>1, <1>5, NameBehind
<1>8. /\ c \o r \in Seq(STRING) /\ (c \o r)[1] = c[1] /\ Len(c \o r) > 1 /\ HasInnerSlash(c \o r)
      /\ EndsInSlash(c \o r) <=> EndsInSlash(r)
  BY <1>1, <1>2, <1>3
<1>9. l.host \o l.path \in Seq(STRING) /\ HasInnerSlash(l.host \o l.path)
  BY <1>1, <1>3, <1>5
<1> QED
  BY <1>1, <1>2, <1>4, <1>6, <1>7, <1>8, <1>9

(* Without question marks in the names, their comparison is EndAlike. *)
LEMMA Comparisons ==
    ASSUME NEW l, IsErrand(l), RegularErrand(l), NEW two \in Seq(STRING), "?" \notin ToSet(two)
    PROVE  /\ FileNameCompare(l, Path(l), two) <=> EndAlike(Path(l), two)
           /\ ~ HasTwoArguments(l) =>
                 (FileNameCompare(l, ParsedURI(l), two) <=> EndAlike(l.host \o l.path, two))
<1> DEFINE x == l.host \o l.path
<1>1. Path(l) \in Seq(STRING) /\ x \in Seq(STRING) /\ l.query \in Seq(STRING)
  BY ErrandPaths DEF IsErrand
<1>2. "?" \notin ToSet(Path(l)) /\ "?" \notin ToSet(x)
  <2>1. l.host \in Seq(STRING) /\ l.path \in Seq(STRING)
    BY DEF IsErrand
  <2>2. "?" \notin ToSet(Path(l)) /\ "?" \notin ToSet(l.host) /\ "?" \notin ToSet(l.path)
    BY DEF RegularErrand
  <2>3. \A i \in 1 .. Len(l.host) : l.host[i] # "?"
    BY <2>1, <2>2 DEF ToSet
  <2>4. \A i \in 1 .. Len(l.path) : l.path[i] # "?"
    BY <2>1, <2>2 DEF ToSet
  <2>5. PICK h \in Seq(STRING), t \in Seq(STRING) : h = l.host /\ t = l.path
    BY <2>1
  <2>6. x = h \o t
    BY <2>5
  <2>7. /\ h \o t \in Seq(STRING) /\ Len(h \o t) = Len(h) + Len(t)
        /\ \A i \in 1 .. Len(h) : (h \o t)[i] = h[i]
        /\ \A i \in 1 .. Len(t) : (h \o t)[Len(h) + i] = t[i]
    BY Joined
  <2> HIDE DEF x
  <2>8. \A i \in 1 .. Len(x) : x[i] # "?"
    <3>1. \A i \in 1 .. Len(h) : x[i] # "?"
      BY <2>3, <2>5, <2>6, <2>7
    <3>2. \A i \in 1 .. Len(t) : x[Len(h) + i] # "?"
      BY <2>4, <2>5, <2>6, <2>7, ZenonT(60)
    <3>3. Len(x) = Len(h) + Len(t) /\ Len(h) \in Nat /\ Len(t) \in Nat
      BY <2>6, <2>7
    <3>4. ASSUME NEW i \in 1 .. Len(x), i \notin 1 .. Len(h)
          PROVE  i - Len(h) \in 1 .. Len(t) /\ Len(h) + (i - Len(h)) = i
      BY <3>3, <3>4
    <3> QED
      BY <3>1, <3>2, <3>4
  <2> QED
    BY <1>1, <2>2, <2>8 DEF ToSet
<1> HIDE DEF x
<1>3. RemoveQuery(two) = two /\ RemoveQuery(Path(l)) = Path(l) /\ RemoveQuery(x) = x
      /\ RemoveQuery(x \o (<< "?" >> \o l.query)) = x
  BY <1>1, <1>2, QueryRemoved
<1>4. FileNameCompare(l, Path(l), two) <=> EndAlike(Path(l), two)
  BY <1>3 DEF FileNameCompare
<1>5. ASSUME ~ HasTwoArguments(l)
      PROVE  FileNameCompare(l, ParsedURI(l), two) <=> EndAlike(x, two)
  <2>1. CASE l.query = << >>
    <3>1. ParsedURI(l) = x \o << >>
      BY <2>1 DEF ParsedURI, x
    <3>2. x \o << >> = x
      BY <1>1
    <3> QED
      BY <1>3, <3>1, <3>2 DEF FileNameCompare
  <2>2. CASE l.query # << >>
    <3>1. ParsedURI(l) = x \o (<< "?" >> \o l.query)
      BY <2>2 DEF ParsedURI, x
    <3>2. l.method = "GET"
      BY <1>5, <2>2 DEF RegularErrand
    <3> QED
      BY <1>3, <3>1, <3>2 DEF FileNameCompare
  <2> QED
    BY <2>1, <2>2
<1> QED
  BY <1>4, <1>5 DEF x

(* The program of the configuration in a directory has its name there. *)
LEMMA MadeAbsolute ==
    ASSUME NEW e \in Seq(STRING), NEW d \in Seq(STRING), EndsInSlash(d)
    PROVE  /\ MakeAbsolutePath(e, d) \in Seq(STRING)
           /\ MakeAbsolutePath(e, d)[1] = d[1]
           /\ Name(MakeAbsolutePath(e, d)) = Name(e)
<1> DEFINE dot  == << ".", "/" >>
           rest == SubSeq(e, 3, Len(e))
           S    == STRING \cup { ".", "/" }
<1>1. dot \in Seq(S) /\ Len(dot) = 2 /\ dot[1] = "." /\ dot[2] = "/"
  <2>1. "." \in S /\ "/" \in S
    OBVIOUS
  <2> QED
    BY <2>1, Pair
<1>2. d # << >>
  BY DEF EndsInSlash
<1> HIDE DEF S
<1>3. CASE IsPrefix(dot, e)
  <2>1. Len(e) >= 2 /\ (\A i \in 1 .. 2 : e[i] = dot[i]) /\ dot \in Seq(STRING)
    <3>1. e \in Seq(S)
      BY Wider DEF S
    <3>2. Len(dot) =< Len(e) /\ \A i \in 1 .. Len(dot) : dot[i] = e[i]
      <4> HIDE DEF dot
      <4>1. dot \in Seq(S) /\ IsPrefix(dot, e)
        BY <1>1, <1>3
      <4> QED
        BY <3>1, <4>1, PrefixByElements
    <3>3. Len(e) >= 2 /\ e[1] = "." /\ e[2] = "/" /\ e[1] \in STRING /\ e[2] \in STRING
      BY <1>1, <3>2
    <3>4. << e[1], e[2] >> \in Seq(STRING)
      BY <3>3, Pair
    <3> QED
      BY <1>1, <3>2, <3>3, <3>4
  <2> HIDE DEF dot
  <2>2. rest \in Seq(STRING) /\ Len(rest) = Len(e) - 2 /\ \A i \in 1 .. Len(e) - 2 : rest[i] = e[2 + i]
    <3>1. \A n \in Nat : n >= 2 /\ n = Len(e) => /\ SubSeq(e, 3, n) \in Seq(STRING) /\ Len(SubSeq(e, 3, n)) = n - 2
                                                /\ \A i \in 1 .. n - 2 : SubSeq(e, 3, n)[i] = e[2 + i]
      OBVIOUS
    <3>2. PICK n \in Nat : n >= 2 /\ n = Len(e)
      BY <2>1
    <3> QED
      BY <3>1, <3>2
  <2> HIDE DEF rest
  <2>3. dot \o rest = e
    <3> DEFINE f == dot \o rest
    <3>1. /\ f \in Seq(STRING) /\ Len(f) = 2 + Len(rest)
          /\ \A i \in 1 .. 2 : f[i] = dot[i]
          /\ \A i \in 1 .. Len(rest) : f[2 + i] = rest[i]
      <4>1. PICK g \in Seq(STRING), h \in Seq(STRING) : g = dot /\ h = rest /\ Len(g) = 2
        BY <1>1, <2>1, <2>2
      <4>2. f = g \o h
        BY <4>1
      <4>3. /\ g \o h \in Seq(STRING) /\ Len(g \o h) = Len(g) + Len(h)
            /\ \A i \in 1 .. Len(g) : (g \o h)[i] = g[i]
            /\ \A i \in 1 .. Len(h) : (g \o h)[Len(g) + i] = h[i]
        BY Joined
      <4> HIDE DEF f
      <4> QED
        BY <4>1, <4>2, <4>3
    <3> HIDE DEF f
    <3>2. f \in Seq(STRING) /\ Len(f) = Len(e) /\ \A i \in 1 .. 2 : f[i] = dot[i]
      BY <2>1, <2>2, <3>1
    <3>3. \A i \in 3 .. Len(e) : f[i] = rest[i - 2] /\ i - 2 \in 1 .. Len(e) - 2 /\ 2 + (i - 2) = i
      <4>1. \A i \in 3 .. Len(e) : i - 2 \in 1 .. Len(rest) /\ 2 + (i - 2) = i
        BY <2>1, <2>2
      <4> QED
        BY <2>2, <3>1, <4>1
    <3>4. \A i \in 1 .. Len(e) : f[i] = e[i]
      <4>1. \A i \in 1 .. Len(e) : i \in 1 .. 2 \/ i \in 3 .. Len(e)
        BY <2>1
      <4> QED
        BY <2>1, <2>2, <3>2, <3>3, <4>1, ZenonT(60)
    <3>5. f = e
      BY <3>2, <3>4
    <3> QED
      BY <3>5 DEF f
  <2>4. EndsInSlash(dot)
    <3>1. dot # << >> /\ dot[Len(dot)] = "/"
      BY <1>1
    <3> QED
      BY <3>1 DEF EndsInSlash, Last
  <2>5. Name(dot \o rest) = Name(rest) /\ Name(d \o rest) = Name(rest)
    BY <2>1, <2>2, <2>4, NameBehind
  <2>6. MakeAbsolutePath(e, d) = d \o rest
    BY <1>3 DEF MakeAbsolutePath, dot, rest
  <2>7. d \o rest \in Seq(STRING) /\ (d \o rest)[1] = d[1]
    BY <1>2, <2>2
  <2> QED
    BY <2>3, <2>5, <2>6, <2>7
<1>4. CASE ~ IsPrefix(dot, e)
  <2>1. MakeAbsolutePath(e, d) = d \o e
    BY <1>4 DEF MakeAbsolutePath, dot
  <2>2. Name(d \o e) = Name(e)
    BY NameBehind
  <2>3. d \o e \in Seq(STRING) /\ (d \o e)[1] = d[1]
    BY <1>2
  <2> QED
    BY <2>1, <2>2, <2>3
<1> QED
  BY <1>3, <1>4

(* What ValidPath comes to. *)
LEMMA PathIsValid ==
    ASSUME NEW l, NEW path
    PROVE  /\ ValidPath(l, path).status = 200 =>
                 /\ ValidPath(l, path).value = path /\ IsValidFile(l, path)
                 /\ ~ HasTwoArguments(l) => OnDisk(l, path) \in l.site.runnable /\ ~ IsAnotherFile(l, path)
           /\ IsValidFile(l, path) /\ HasTwoArguments(l) => ValidPath(l, path) = Found(path)
           /\ (IsValidFile(l, path) /\ ~ IsAnotherFile(l, path) /\ OnDisk(l, path) \in l.site.runnable)
                 => ValidPath(l, path) = Found(path)
BY DEF ValidPath, Found, Exception

(* The program that is found is the one of the configuration. *)
LEMMA ExecutableFound ==
    ASSUME NEW l, IsErrand(l), RegularErrand(l), SetExecutablePath(l).status = 200
    PROVE  LET executable == cgi_pass(l).executable_path
               found      == SetExecutablePath(l).value
           IN  /\ IsValidFile(l, found) /\ Name(found) = Name(executable)
               /\ IsAbsolutePath(executable) => found = executable
               /\ ~ HasTwoArguments(l) => OnDisk(l, found) \in l.site.runnable /\ ~ IsAnotherFile(l, found)
               /\ ~ EndsInSlash(l.path) => found \in { executable, Path(l) }
<1> DEFINE executable == cgi_pass(l).executable_path
           found      == SetExecutablePath(l).value
           IsFound(path) == /\ found = path /\ IsValidFile(l, path)
                            /\ ~ HasTwoArguments(l) => OnDisk(l, path) \in l.site.runnable /\ ~ IsAnotherFile(l, path)
<1>1. ASSUME NEW path, SetExecutablePath(l) = ValidPath(l, path)
      PROVE  IsFound(path)
  BY <1>1, PathIsValid
<1>2. /\ executable \in Seq(STRING) /\ "?" \notin ToSet(executable)
      /\ Path(l) \in Seq(STRING) /\ HasInnerSlash(Path(l))
  <2>1. executable \in Seq(STRING)
    BY DEF IsErrand, IsSite, cgi_pass
  <2>2. "?" \notin ToSet(executable)
    BY DEF RegularErrand
  <2> QED
    BY <2>1, <2>2, ErrandPaths
<1>3. CASE IsAbsolutePath(executable)
  <2>1. SetExecutablePath(l) = ValidPath(l, executable)
    BY <1>3 DEF SetExecutablePath
  <2>2. IsFound(executable)
    BY <1>1, <2>1
  <2> QED
    BY <1>3, <2>2
<1>4. CASE ~ IsAbsolutePath(executable) /\ BothDirectories(l)
  <2> DEFINE path == MakeAbsolutePath(executable, Path(l))
  <2>1. SetExecutablePath(l) = ValidPath(l, path)
    BY <1>4 DEF SetExecutablePath
  <2>2. EndsInSlash(Path(l)) /\ EndsInSlash(l.path)
    BY <1>4, ErrandPaths DEF BothDirectories
  <2>3. Name(path) = Name(executable)
    BY <1>2, <2>2, MadeAbsolute
  <2>4. IsFound(path)
    BY <1>1, <2>1
  <2> QED
    BY <1>4, <2>2, <2>3, <2>4
<1>5. CASE ~ IsAbsolutePath(executable) /\ ~ BothDirectories(l) /\ EndsInSlash(Path(l))
  <2>1. SetExecutablePath(l) = ValidPath(l, executable)
    BY <1>5 DEF SetExecutablePath
  <2>2. IsFound(executable)
    BY <1>1, <2>1
  <2> QED
    BY <1>5, <2>2
<1>6. CASE ~ IsAbsolutePath(executable) /\ ~ BothDirectories(l) /\ ~ EndsInSlash(Path(l))
  <2>1. SetExecutablePath(l) = IF FileNameCompare(l, Path(l), executable)
                                  THEN ValidPath(l, Path(l)) ELSE Exception(404)
    BY <1>6 DEF SetExecutablePath
  <2>2. FileNameCompare(l, Path(l), executable)
    BY <2>1 DEF Exception
  <2>3. EndAlike(Path(l), executable)
    BY <1>2, <2>2, Comparisons
  <2>4. Name(Path(l)) = Name(executable)
    BY <1>2, <2>3, EndAlikeNames
  <2>5. IsFound(Path(l))
    BY <1>1, <2>1, <2>2
  <2> QED
    BY <1>6, <2>4, <2>5
<1> QED
  BY <1>3, <1>4, <1>5, <1>6

(* An executable that is not absolute has a slash to stop a comparison at. *)
LEMMA ExecutableHasSlash ==
    ASSUME NEW l, IsErrand(l)
    PROVE  LET executable == cgi_pass(l).executable_path
           IN  executable \in Seq(STRING) /\ (HasInnerSlash(executable) \/ IsAbsolutePath(executable))
<1> DEFINE e == cgi_pass(l).executable_path
<1>1. e \in Seq(STRING) /\ "/" \in ToSet(e)
  BY DEF IsErrand, IsSite, cgi_pass
<1> HIDE DEF e
<1>2. PICK i \in 1 .. Len(e) : e[i] = "/"
  BY <1>1 DEF ToSet
<1>3. i = 1 \/ i \in 2 .. Len(e)
  OBVIOUS
<1>4. HasInnerSlash(e) \/ IsAbsolutePath(e)
  BY <1>2, <1>3 DEF HasInnerSlash, IsAbsolutePath
<1> QED
  BY <1>1, <1>4 DEF e

(* A program that may be run is there, and is looked for by its path. *)
LEMMA RunnableIsValid ==
    ASSUME NEW l, IsErrand(l), NEW path \in l.site.runnable, path[1] = "/"
    PROVE  IsValidFile(l, path) /\ OnDisk(l, path) = path
BY DEF IsErrand, IsSite, IsValidFile, OnDisk, IsAbsolutePath

(* Without an extension: the program is run, or is not the one asked for. *)
LEMMA OneArgumentRuns ==
    ASSUME NEW l, IsErrand(l), RegularErrand(l), ~ HasTwoArguments(l), NEW outcome \in SetCGIOneArgument(l)
    PROVE  Runs(l, outcome)
<1> DEFINE executable == cgi_pass(l).executable_path
           search    == SetExecutablePath(l)
           asked      == l.host \o l.path
           Matches    == EndsInSlash(ParsedURI(l)) \/ FileNameCompare(l, ParsedURI(l), search.value)
<1>1. outcome = IF search.status = 200
                   THEN IF Matches THEN Found(<< search.value >>) ELSE Exception(404)
                   ELSE search
  BY DEF SetCGIOneArgument, AndThen
<1>2. /\ executable \in Seq(STRING) /\ "?" \notin ToSet(executable)
      /\ HasInnerSlash(executable) \/ IsAbsolutePath(executable)
      /\ Path(l) \in Seq(STRING) /\ "?" \notin ToSet(Path(l)) /\ HasInnerSlash(Path(l))
      /\ Path(l)[1] = "/"
      /\ EndsInSlash(Path(l)) <=> EndsInSlash(l.path)
      /\ EndsInSlash(ParsedURI(l)) <=> EndsInSlash(l.path)
      /\ asked \in Seq(STRING) /\ HasInnerSlash(asked) /\ Name(asked) = Name(l.path)
  BY ErrandPaths, ExecutableHasSlash DEF RegularErrand
<1>3. ASSUME search.status = 200, Matches
      PROVE  IsAsked(l, << search.value >>)
  <2> PICK found : found = search.value
    OBVIOUS
  <2> DEFINE argv == << found >>
  <2>1. /\ IsValidFile(l, found) /\ Name(found) = Name(executable)
        /\ IsAbsolutePath(executable) => found = executable
        /\ OnDisk(l, found) \in l.site.runnable /\ ~ IsAnotherFile(l, found)
        /\ ~ EndsInSlash(l.path) => found \in { executable, Path(l) }
    BY <1>3, ExecutableFound
  <2>2. ASSUME ~ EndsInSlash(l.path)
        PROVE  Name(l.path) = Name(executable) /\ (IsValidFile(l, Path(l)) => found = Path(l))
    <3>1. FileNameCompare(l, ParsedURI(l), found)
      BY <1>2, <1>3, <2>2
    <3>2. found \in Seq(STRING) /\ "?" \notin ToSet(found)
      BY <1>2, <2>1, <2>2
    <3>3. EndAlike(asked, found)
      BY <3>1, <3>2, Comparisons
    <3>4. Name(asked) = Name(found)
      BY <1>2, <3>2, <3>3, EndAlikeNames
    <3> QED
      BY <1>2, <2>1, <2>2, <3>4 DEF IsAnotherFile
  <2>3. argv[1] = found /\ Len(argv) = 1
    OBVIOUS
  <2> HIDE DEF argv
  <2>4. IsAsked(l, argv)
    BY <2>1, <2>2, <2>3 DEF IsAsked
  <2> QED
    BY <2>4 DEF argv
<1>4. ASSUME IsOffered(l)
      PROVE  search.status = 200 /\ Matches
  <2>1. CASE EndsInSlash(l.path)
    <3> DEFINE path == MakeAbsolutePath(executable, Path(l))
    <3>1. LocationIsDir(l) /\ ~ IsAbsolutePath(executable) /\ path \in l.site.runnable
      BY <1>4, <2>1 DEF IsOffered
    <3>2. search = ValidPath(l, path)
      BY <1>2, <2>1, <3>1 DEF SetExecutablePath, BothDirectories
    <3>3. path[1] = "/"
      BY <1>2, <2>1, MadeAbsolute
    <3>4. IsValidFile(l, path) /\ OnDisk(l, path) = path
      BY <3>1, <3>3, RunnableIsValid
    <3>5. ~ IsAnotherFile(l, path)
      BY <1>2, <2>1 DEF IsAnotherFile
    <3>6. search = Found(path)
      BY <3>1, <3>2, <3>4, <3>5, PathIsValid
    <3> QED
      BY <1>2, <2>1, <3>6 DEF Found
  <2>2. CASE ~ EndsInSlash(l.path)
    <3>1. /\ Path(l) \in l.site.runnable
          /\ Name(l.path) = Name(executable) /\ Name(Path(l)) = Name(executable)
          /\ IsAbsolutePath(executable) => Path(l) = executable
      BY <1>4, <2>2 DEF IsOffered
    <3>2. IsValidFile(l, Path(l)) /\ OnDisk(l, Path(l)) = Path(l)
      BY <1>2, <3>1, RunnableIsValid
    <3>3. ~ IsAnotherFile(l, Path(l))
      BY DEF IsAnotherFile
    <3>4. ValidPath(l, Path(l)) = Found(Path(l))
      BY <3>1, <3>2, <3>3, PathIsValid
    <3>5. search = Found(Path(l))
      <4>1. CASE IsAbsolutePath(executable)
        BY <3>1, <3>4, <4>1 DEF SetExecutablePath
      <4>2. CASE ~ IsAbsolutePath(executable)
        <5>1. ~ BothDirectories(l) /\ ~ EndsInSlash(Path(l))
          BY <1>2, <2>2 DEF BothDirectories
        <5>2. EndAlike(Path(l), executable)
          BY <1>2, <3>1, <4>2, NamesEndAlike
        <5>3. FileNameCompare(l, Path(l), executable)
          BY <1>2, <5>2, Comparisons
        <5> QED
          BY <3>4, <4>2, <5>1, <5>3 DEF SetExecutablePath
      <4> QED
        BY <4>1, <4>2
    <3>6. EndAlike(asked, Path(l))
      BY <1>2, <3>1, NamesEndAlike
    <3>7. FileNameCompare(l, ParsedURI(l), Path(l))
      BY <1>2, <3>6, Comparisons
    <3> QED
      BY <3>5, <3>7 DEF Found
  <2> QED
    BY <2>1, <2>2
<1> HIDE DEF search, Matches
<1>5. CASE search.status = 200 /\ Matches
  <2>1. outcome = Found(<< search.value >>)
    BY <1>1, <1>5
  <2>2. outcome.status = 200 /\ outcome.value = << search.value >>
    BY <2>1 DEF Found
  <2> QED
    BY <1>3, <1>5, <2>2 DEF Runs
<1>6. CASE ~ (search.status = 200 /\ Matches)
  <2>1. outcome.status # 200
    BY <1>1, <1>6 DEF Exception
  <2> QED
    BY <1>4, <1>6, <2>1 DEF Runs
<1> QED
  BY <1>5, <1>6

(* What is found in a directory is there, by its path and its name. *)
LEMMA EntryIsThere ==
    ASSUME NEW l, IsErrand(l), RegularErrand(l), EndsInSlash(Path(l)), NEW e \in EntriesOf(l)
    PROVE  /\ e \in Seq(STRING) /\ \A i \in 1 .. Len(e) : e[i] # "/"
           /\ Path(l) \o e \in Seq(STRING)
           /\ IsValidFile(l, Path(l) \o e)
<1> DEFINE p == Path(l)
           d == WithoutSlash(p)
<1>1. p \in Seq(STRING) /\ p[1] = "/" /\ Len(p) > 1 /\ p[Len(p)] = "/"
  BY ErrandPaths DEF EndsInSlash, Last
<1>2. PICK q \in Inside(l.site.tree, d) : e = SubSeq(q, Len(d) + 2, Len(q))
  BY DEF EntriesOf
<1> HIDE DEF p
<1>3. d \in Seq(STRING) /\ Len(d) = Len(p) - 1 /\ \A i \in 1 .. Len(p) - 1 : d[i] = p[i]
  <2>1. d = SubSeq(p, 1, Len(p) - 1)
    BY <1>1 DEF WithoutSlash, Last, Front
  <2> QED
    BY <1>1, <2>1
<1> HIDE DEF d
<1>4. /\ q \in DOMAIN l.site.tree /\ l.site.tree[q].kind # "absent" /\ Parent(q) = d
      /\ q \in Seq(STRING) /\ ~ EndsInSlash(q) /\ IsThere(l.site.tree, q)
  BY <1>2 DEF Inside, IsErrand, IsSite
<1>5. /\ LastSlash(q) \in 0 .. Len(q)
      /\ LastSlash(q) # 0 => q[LastSlash(q)] = "/"
      /\ \A i \in 1 .. Len(q) : q[i] = "/" => i =< LastSlash(q)
  BY <1>4, LastSlashIs
<1>6. d = SubSeq(q, 1, LastSlash(q) - 1)
  <2>1. WithoutSlash(q) = q
    <3>1. ~ (Len(q) > 1 /\ Last(q) = "/")
      BY <1>4 DEF EndsInSlash
    <3> QED
      BY <3>1 DEF WithoutSlash
  <2> QED
    BY <1>4, <2>1 DEF Parent
<1>7. LastSlash(q) = Len(p)
  <2>1. LastSlash(q) # 0
    <3> SUFFICES ASSUME LastSlash(q) = 0 PROVE FALSE
      OBVIOUS
    <3>1. SubSeq(q, 1, 0 - 1) = << >>
      BY <1>4
    <3>2. d = << >>
      BY <1>6, <3>1
    <3>3. Len(d) = 0 /\ Len(p) \in Nat
      BY <1>1, <3>2
    <3>4. PICK n \in Nat : n = Len(p)
      BY <3>3
    <3>5. Len(d) = n - 1 /\ n > 1
      BY <1>1, <1>3, <3>4
    <3> QED
      BY <3>3, <3>5
  <2>2. Len(SubSeq(q, 1, LastSlash(q) - 1)) = LastSlash(q) - 1
    BY <1>4, <1>5, <2>1
  <2> QED
    BY <1>1, <1>3, <1>5, <1>6, <2>1, <2>2
<1>8. /\ e \in Seq(STRING) /\ Len(e) = Len(q) - Len(p)
      /\ \A i \in 1 .. Len(e) : e[i] = q[Len(p) + i]
  <2>1. Len(d) + 2 = Len(p) + 1 /\ Len(p) =< Len(q)
    BY <1>1, <1>3, <1>5, <1>7
  <2>2. e = SubSeq(q, Len(p) + 1, Len(q))
    BY <1>2, <2>1
  <2>3. \A k \in 0 .. Len(q) : /\ SubSeq(q, k + 1, Len(q)) \in Seq(STRING)
                              /\ Len(SubSeq(q, k + 1, Len(q))) = Len(q) - k
                              /\ \A i \in 1 .. Len(q) - k : SubSeq(q, k + 1, Len(q))[i] = q[k + i]
    BY <1>4
  <2>4. Len(p) \in 0 .. Len(q)
    BY <1>1, <1>4, <2>1
  <2> QED
    BY <2>2, <2>3, <2>4
<1>9. \A i \in 1 .. Len(e) : e[i] # "/"
  <2>1. \A i \in 1 .. Len(e) : Len(p) + i \in 1 .. Len(q) /\ ~ Len(p) + i =< Len(p)
    BY <1>1, <1>8
  <2> QED
    BY <1>5, <1>7, <1>8, <2>1
<1>10. p \o e = q
  <2> DEFINE r == p \o e
  <2>1. r \in Seq(STRING) /\ Len(r) = Len(q)
    BY <1>1, <1>5, <1>7, <1>8
  <2>2. \A i \in 1 .. Len(p) - 1 : r[i] = q[i]
    <3>1. \A i \in 1 .. Len(p) - 1 : SubSeq(q, 1, LastSlash(q) - 1)[i] = q[i]
      BY <1>1, <1>4, <1>5, <1>7
    <3> QED
      BY <1>1, <1>3, <1>6, <1>8, <3>1
  <2>3. r[Len(p)] = q[Len(p)]
    BY <1>1, <1>5, <1>7, <1>8
  <2>4. \A i \in Len(p) + 1 .. Len(q) : r[i] = q[i]
    <3>1. \A i \in Len(p) + 1 .. Len(q) : i - Len(p) \in 1 .. Len(e) /\ Len(p) + (i - Len(p)) = i
      BY <1>1, <1>8
    <3>2. \A i \in 1 .. Len(e) : r[Len(p) + i] = e[i]
      BY <1>1, <1>8
    <3> HIDE DEF r
    <3> QED
      BY <1>8, <3>1, <3>2, ZenonT(60)
  <2> HIDE DEF r
  <2>5. \A i \in 1 .. Len(q) : i \in 1 .. Len(p) - 1 \/ i = Len(p) \/ i \in Len(p) + 1 .. Len(q)
    BY <1>1
  <2>6. r = q
    BY <1>4, <2>1, <2>2, <2>3, <2>4, <2>5
  <2> QED
    BY <2>6 DEF r
<1>11. IsValidFile(l, q)
  <2>1. q[1] = p[1]
    BY <1>1, <1>8, <1>10
  <2>2. OnDisk(l, q) = q
    BY <1>1, <2>1 DEF OnDisk, IsAbsolutePath
  <2> QED
    BY <1>4, <2>2 DEF IsValidFile
<1> QED
  BY <1>4, <1>8, <1>9, <1>10, <1>11 DEF p

(* An extension without a slash is one of the name. *)
LEMMA ExtensionOfName ==
    ASSUME NEW x \in Seq(STRING), \A i \in 1 .. Len(x) : x[i] # "/",
           NEW p \in Seq(STRING), IsSuffix(x, p), NEW i \in 1 .. Len(p), p[i] = "/"
    PROVE  IsSuffix(x, Name(p))
<1>1. PICK n : IsNameSize(p, n)
  BY NameSizeExists
<1>2. /\ n \in 0 .. Len(p) - 1 /\ FromBehind(p, n) = "/"
      /\ Name(p) \in Seq(STRING) /\ Len(Name(p)) = n
      /\ \A j \in 1 .. n : Name(p)[j] = FromBehind(p, n - j)
  BY <1>1, NameBySize DEF IsNameSize
<1>3. Len(x) =< Len(p) /\ \A k \in 0 .. Len(x) - 1 : FromBehind(x, k) = FromBehind(p, k)
  BY SuffixByElements
<1>4. Len(x) =< n
  <2> SUFFICES ASSUME ~ Len(x) =< n PROVE FALSE
    OBVIOUS
  <2>1. n \in 0 .. Len(x) - 1 /\ Len(x) - n \in 1 .. Len(x)
    BY <1>2
  <2>2. FromBehind(x, n) = "/"
    BY <1>2, <1>3, <2>1
  <2> QED
    BY <2>1, <2>2 DEF FromBehind
<1>5. ASSUME NEW k \in 0 .. Len(x) - 1
      PROVE  FromBehind(x, k) = FromBehind(Name(p), k)
  <2>1. n - k \in 1 .. n /\ n - (n - k) = k
    BY <1>2, <1>4
  <2>2. FromBehind(Name(p), k) = FromBehind(p, k)
    BY <1>2, <2>1 DEF FromBehind
  <2> QED
    BY <1>3, <2>2
<1> QED
  BY <1>2, <1>4, <1>5, SuffixByElements

(* With an extension: the program is run with the file, or with one of the *)
(* directory, or there is none.                                            *)
LEMMA TwoArgumentsRun ==
    ASSUME NEW l, IsErrand(l), RegularErrand(l), HasTwoArguments(l), NEW outcome \in SetCGITwoArguments(l)
    PROVE  Runs(l, outcome)
<1> DEFINE executable == cgi_pass(l).executable_path
           extension  == cgi_pass(l).file_extension
           x          == Tail(extension)
           search    == SetExecutablePath(l)
<1>1. /\ Path(l) \in Seq(STRING) /\ HasInnerSlash(Path(l))
      /\ EndsInSlash(Path(l)) <=> EndsInSlash(l.path)
      /\ EndsInSlash(ParsedURI(l)) <=> EndsInSlash(l.path)
  BY ErrandPaths
<1>2. /\ extension \in Seq(STRING) /\ x \in Seq(STRING) /\ Len(x) = Len(extension) - 1 /\ Len(x) > 0
      /\ \A i \in 1 .. Len(x) : x[i] = extension[i + 1] /\ x[i] # "/"
  <2>1. extension \in Seq(STRING) /\ Len(extension) > 1 /\ "/" \notin ToSet(extension)
    <3>1. extension \in Seq(STRING)
      BY DEF IsErrand, IsSite, cgi_pass
    <3> QED
      BY <3>1 DEF RegularErrand
  <2> HIDE DEF extension
  <2>2. x \in Seq(STRING) /\ Len(x) = Len(extension) - 1 /\ \A i \in 1 .. Len(x) : x[i] = extension[i + 1]
    BY <2>1
  <2> HIDE DEF x
  <2>3. \A i \in 1 .. Len(x) : extension[i + 1] # "/"
    BY <2>1, <2>2 DEF ToSet
  <2> QED
    BY <2>1, <2>2, <2>3
<1>3. \A name : HasExtension(l, name) <=> Len(name) >= Len(extension) /\ IsSuffix(x, name)
  BY DEF HasExtension
<1>4. PICK i \in 2 .. Len(Path(l)) : Path(l)[i] = "/"
  BY <1>1 DEF HasInnerSlash
<1>5. i \in 1 .. Len(Path(l))
  BY <1>4
<1>6. ASSUME NEW script \in Scripts(l)
      PROVE  /\ IsSuffix(x, Name(script))
             /\ IF EndsInSlash(l.path)
                   THEN IsPrefix(Path(l), script) /\ IsValidFile(l, script)
                   ELSE script = Path(l)
  <2>1. CASE BothDirectories(l)
    <3>1. EndsInSlash(l.path) /\ EndsInSlash(Path(l))
      BY <1>1, <2>1 DEF BothDirectories
    <3>2. PICK e \in EntriesOf(l) : HasExtension(l, e) /\ script = Path(l) \o e
      BY <1>6, <2>1 DEF Scripts, FindFile
    <3>3. /\ e \in Seq(STRING) /\ \A k \in 1 .. Len(e) : e[k] # "/"
          /\ Path(l) \o e \in Seq(STRING) /\ IsValidFile(l, Path(l) \o e)
      BY <3>1, EntryIsThere
    <3>4. Name(Path(l) \o e) = e
      <4>1. Name(Path(l) \o e) = Name(e)
        BY <1>1, <3>1, <3>3, NameBehind
      <4>2. Name(e) = e
        BY <3>3, NameOfName
      <4> QED
        BY <4>1, <4>2
    <3>5. IsPrefix(Path(l), Path(l) \o e)
      <4> DEFINE r == Path(l) \o e
      <4>1. Len(Path(l)) =< Len(r) /\ \A k \in 1 .. Len(Path(l)) : Path(l)[k] = r[k]
        BY <1>1, <3>3
      <4>2. r \in Seq(STRING)
        BY <3>3
      <4> HIDE DEF r
      <4>3. IsPrefix(Path(l), r)
        BY <1>1, <4>1, <4>2, PrefixByElements
      <4> QED
        BY <4>3 DEF r
    <3> QED
      BY <1>3, <3>1, <3>2, <3>3, <3>4, <3>5
  <2>2. CASE ~ BothDirectories(l)
    <3>1. script = Path(l) /\ HasExtension(l, Path(l))
      BY <1>6, <2>2 DEF Scripts
    <3>2. IsSuffix(x, Path(l))
      BY <1>3, <3>1
    <3> HIDE DEF x
    <3>3. IsSuffix(x, Name(Path(l)))
      BY <1>1, <1>2, <1>4, <1>5, <3>2, ExtensionOfName
    <3>4. ~ EndsInSlash(Path(l))
      <4> SUFFICES ASSUME EndsInSlash(Path(l)) PROVE FALSE
        OBVIOUS
      <4>1. Path(l)[Len(Path(l))] = "/"
        BY DEF EndsInSlash, Last
      <4>2. 0 \in 0 .. Len(x) - 1 /\ Len(x) \in 1 .. Len(x)
        BY <1>2
      <4>3. FromBehind(x, 0) = FromBehind(Path(l), 0)
        BY <1>1, <1>2, <3>2, <4>2, SuffixByElements
      <4>4. FromBehind(x, 0) = x[Len(x)] /\ FromBehind(Path(l), 0) = Path(l)[Len(Path(l))]
        <5>1. Len(x) - 0 = Len(x) /\ Len(Path(l)) - 0 = Len(Path(l))
          BY <1>1, <1>2
        <5> QED
          BY <5>1 DEF FromBehind
      <4> QED
        BY <1>2, <4>1, <4>2, <4>3, <4>4
    <3> QED
      BY <1>1, <3>1, <3>3, <3>4
  <2> QED
    BY <2>1, <2>2
<1>7. ASSUME search.status = 200, NEW script \in Scripts(l)
      PROVE  IsAsked(l, << search.value, script >>)
  <2> PICK found : found = search.value
    OBVIOUS
  <2> DEFINE argv == << found, script >>
  <2>1. /\ IsValidFile(l, found) /\ Name(found) = Name(executable)
        /\ IsAbsolutePath(executable) => found = executable
    BY <1>7, ExecutableFound
  <2>2. argv[1] = found /\ argv[2] = script /\ Len(argv) = 2
    OBVIOUS
  <2> HIDE DEF argv
  <2>3. IsAsked(l, argv)
    BY <1>6, <1>7, <2>1, <2>2 DEF IsAsked
  <2> QED
    BY <2>3 DEF argv
<1>8. ASSUME IsOffered(l)
      PROVE  search.status = 200 /\ Scripts(l) # {}
  <2>1. search = Found(executable)
    <3>1. IsAbsolutePath(executable) /\ IsValidFile(l, executable)
      BY <1>8 DEF IsOffered
    <3>2. search = ValidPath(l, executable)
      BY <3>1 DEF SetExecutablePath
    <3> QED
      BY <3>1, <3>2, PathIsValid
  <2>2. ASSUME NEW name \in Seq(STRING), IsSuffix(extension, name)
        PROVE  HasExtension(l, name)
    <3> HIDE DEF x, extension
    <3>1. /\ Len(extension) =< Len(name)
          /\ \A k \in 0 .. Len(extension) - 1 : FromBehind(extension, k) = FromBehind(name, k)
      BY <1>2, <2>2, SuffixByElements
    <3>2. \A k \in 0 .. Len(x) - 1 : /\ k \in 0 .. Len(extension) - 1
                                     /\ Len(x) - k \in 1 .. Len(x)
                                     /\ (Len(x) - k) + 1 = Len(extension) - k
      BY <1>2
    <3>3. \A k \in 0 .. Len(x) - 1 : FromBehind(x, k) = FromBehind(extension, k)
      BY <1>2, <3>2 DEF FromBehind
    <3>4. IsSuffix(x, name)
      <4>1. Len(x) =< Len(name)
        BY <1>2, <3>1
      <4>2. \A k \in 0 .. Len(x) - 1 : FromBehind(x, k) = FromBehind(name, k)
        BY <3>1, <3>2, <3>3
      <4> QED
        BY <1>2, <4>1, <4>2, SuffixByElements
    <3> QED
      BY <1>3, <3>1, <3>4
  <2>3. Scripts(l) # {}
    <3>1. CASE EndsInSlash(l.path)
      <4>1. LocationIsDir(l)
        BY <1>8, <3>1 DEF IsOffered
      <4>2. PICK e \in EntriesOf(l) : IsSuffix(extension, e)
        BY <1>8, <3>1 DEF IsOffered
      <4>3. e \in Seq(STRING)
        BY <1>1, <3>1, EntryIsThere
      <4>4. HasExtension(l, e)
        BY <2>2, <4>2, <4>3
      <4>5. BothDirectories(l)
        BY <1>1, <3>1, <4>1 DEF BothDirectories
      <4> QED
        BY <4>4, <4>5 DEF Scripts, FindFile
    <3>2. CASE ~ EndsInSlash(l.path)
      <4>1. HasExtension(l, Path(l))
        BY <1>1, <1>8, <2>2, <3>2 DEF IsOffered
      <4>2. ~ BothDirectories(l)
        BY <1>1, <3>2 DEF BothDirectories
      <4> QED
        BY <4>1, <4>2 DEF Scripts
    <3> QED
      BY <3>1, <3>2
  <2> QED
    BY <2>1, <2>3 DEF Found
<1> HIDE DEF search
<1>9. CASE search.status = 200 /\ Scripts(l) # {}
  <2>1. PICK script \in Scripts(l) : outcome = Found(<< search.value, script >>)
    BY <1>9 DEF SetCGITwoArguments, AndThen, search
  <2>2. outcome.status = 200 /\ outcome.value = << search.value, script >>
    BY <2>1 DEF Found
  <2> QED
    BY <1>7, <1>9, <2>2 DEF Runs
<1>10. CASE ~ (search.status = 200 /\ Scripts(l) # {})
  <2>1. outcome.status # 200
    <3>1. Scripts(l) # {} => \E script : outcome = AndThen(search, Found(<< search.value, script >>))
      BY DEF SetCGITwoArguments, search
    <3>2. Scripts(l) = {} => outcome = AndThen(search, Exception(404))
      BY DEF SetCGITwoArguments, search
    <3>3. Exception(404).status # 200
      BY DEF Exception
    <3> QED
      BY <1>10, <3>1, <3>2, <3>3 DEF AndThen
  <2> QED
    BY <1>8, <1>10, <2>1 DEF Runs
<1> QED
  BY <1>9, <1>10

(* Every outcome of the search is as asked for. *)
LEMMA SetupRuns ==
    ASSUME NEW l, IsErrand(l), RegularErrand(l), NEW outcome \in Setup(l)
    PROVE  Runs(l, outcome)
<1>1. CASE IsForbidden(l)
  BY <1>1 DEF Setup, Exception, Runs
<1>2. CASE ~ IsForbidden(l)
  BY <1>2, OneArgumentRuns, TwoArgumentsRun DEF Setup, SetArgv
<1> QED
  BY <1>1, <1>2

(***************************************************************************)
(* What is run is the program of the configuration, with the file that was *)
(* asked for, and it is run if it is there (Setup), whatever the names and *)
(* the files are; but for the errands that RegularErrand leaves out.       *)
(***************************************************************************)
THEOREM ProgramIsTheOneAskedFor == Spec => []ScriptIsTheOneAskedFor
<1>1. TypeOK => ScriptIsTheOneAskedFor
  BY ErrandsAssumption, SetupRuns DEF TypeOK, ScriptIsTheOneAskedFor
<1> QED
  BY <1>1, TypeCorrect, PTL
=============================================================================
