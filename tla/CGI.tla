---------------------------------- MODULE CGI ----------------------------------
(***************************************************************************)
(* The execution of a CGI program: the class CGI of src/src/cgi, its two   *)
(* pipes, and the program that is run in a child process.                  *)
(*                                                                         *)
(* The server's only thread makes the pipes and the child, writes the      *)
(* message body to the one, looks once whether the child has ended, and    *)
(* reads the other until its end.  While it does nothing else is served.   *)
(* The program runs concurrently; what it does with its input and when is  *)
(* its own affair.                                                         *)
(***************************************************************************)
EXTENDS CGIScript

CONSTANTS
    PipeSize,   \* the bytes a pipe has room for
    ReadSize,   \* the bytes RetrieveContent reads at a time (1000)
    MaxFds,     \* the descriptors the process has left for its CGI programs
    Errands,    \* how programs are asked for, see CGIScript
    Calls(_)    \* the requests that come on an errand, and the programs they find

(***************************************************************************)
(* A POST request has a message body of some octets.  The first of them    *)
(* may be percent-encoded again and again: each layer is two bytes more.   *)
(* ("%2541" has two layers around "A": "%2541", "%41", "A".)               *)
(***************************************************************************)
Request == [method : {"GET", "POST", "DELETE"}, octets : Nat, layers : Nat]

(***************************************************************************)
(* reads: how the program takes its input, as many bytes as CONTENT_LENGTH *)
(* says, or until its end, or not at all; first: whether it reads or       *)
(* writes first; output: the bytes it writes; status: what it exits with;  *)
(* executes: whether execve() succeeds.                                    *)
(***************************************************************************)
Program == [ reads : {"length", "end", "nothing"}, first : {"reads", "writes"},
             output : Nat, status : {0, 1}, executes : BOOLEAN ]

(***************************************************************************)
(* A call has an errand, by which its program is found, see CGIScript, the *)
(* request and the program.                                                *)
(***************************************************************************)
IsCall(c) == c.request \in Request /\ c.program \in Program /\ c.errand.method = c.request.method

ASSUME PipeAssumption == PipeSize \in Nat \ {0} /\ ReadSize \in Nat \ {0}
ASSUME FdsAssumption  == MaxFds \in Nat
ASSUME ErrandsAssumption == \A e \in Errands : IsErrand(e)
ASSUME CallsAssumption == \A e \in Errands : \A c \in Calls(e) : c.errand = e /\ IsCall(c)

(* Neither request nor reply yet. *)
NoResult == 0

Ends == {"body_read", "body_write", "out_read", "out_write"}

VARIABLES
    call,           \* the request that is carried out, and its program
    parent,         \* where the server is in CGI::Execute
    parent_ends,    \* the ends of the pipes the server has open
    left,           \* the descriptors earlier executions left open
    announced,      \* CONTENT_LENGTH
    count,          \* the bytes of the body given to write()
    to_write,       \* those of them that are not in the pipe yet
    exit_seen,      \* the exit status waitpid() returned, 0 if it returned none
    content,        \* the bytes of output the server has read
    result,         \* the status of the reply
    child,          \* where the child process is
    child_ends,     \* the ends of the pipes the child has open
    took,           \* the bytes the program has read
    at_end,         \* whether it has seen the end of its input
    put,            \* the bytes it has written
    body_pipe,      \* the bytes in the pipe to the program
    out_pipe        \* the bytes in the pipe from the program

parentVars == << parent, parent_ends, left, announced, count, to_write, exit_seen,
                 content, result >>
childVars  == << child, child_ends, took, at_end, put >>
pipeVars   == << body_pipe, out_pipe >>
vars       == << call, parentVars, childVars, pipeVars >>

request == call.request
program == call.program

Post == request.method = "POST"

Init ==
    /\ \E e \in Errands : call \in Calls(e)
    /\ parent = "returned"
    /\ parent_ends = {}
    /\ left = 0
    /\ announced = 0
    /\ count = 0
    /\ to_write = 0
    /\ exit_seen = 0
    /\ content = 0
    /\ result = NoResult
    /\ child = "none"
    /\ child_ends = {}
    /\ took = 0
    /\ at_end = FALSE
    /\ put = 0
    /\ body_pipe = 0
    /\ out_pipe = 0

-----------------------------------------------------------------------------

(***************************************************************************)
(* Request::GetQuery decodes the message body of a POST request and keeps  *)
(* what it has decoded, so that each call takes off one layer.  This is    *)
(* the size of the body after n calls.                                     *)
(***************************************************************************)
QuerySize(r, n) == r.octets + 2 * (IF r.layers > n THEN r.layers - n ELSE 0)

(* SetHeaders calls GetQuery twice, and takes the size from the second. *)
ContentLength(r) == QuerySize(r, 2)

(* WriteToPipe calls it for the bytes and for their number, in any order. *)
BytesToWrite(r) == { QuerySize(r, 3), QuerySize(r, 4) }

(* And once more to see whether all of them were written. *)
WriteFailed(r, written) == written # QuerySize(r, 5)

-----------------------------------------------------------------------------
(* The pipes. *)

(* Some process has this end of a pipe open. *)
IsOpen(end) == end \in parent_ends \cup child_ends

Least(m, n) == IF m < n THEN m ELSE n

Room(pipe) == PipeSize - pipe

-----------------------------------------------------------------------------
(* The server. *)

(***************************************************************************)
(* Execute returns, or is left by an exception, with these ends open.      *)
(***************************************************************************)
Return(status, ends) ==
    /\ parent' = "returned"
    /\ result' = status
    /\ parent_ends' = ends
    /\ left' = left + Cardinality(ends)

(***************************************************************************)
(* The next request on the errand comes; nothing is done for it yet.       *)
(* A child an exception has left behind shares no pipe with a new one.     *)
(***************************************************************************)
Begin ==
    /\ call' \in Calls(call.errand)
    /\ count' = 0
    /\ to_write' = 0
    /\ exit_seen' = 0
    /\ content' = 0
    /\ took' = 0
    /\ at_end' = FALSE
    /\ put' = 0
    /\ body_pipe' = 0
    /\ out_pipe' = 0

(* Setup ends in an exception: nothing is executed. *)
SetupFails ==
    /\ parent = "returned"
    /\ \E outcome \in Setup(call.errand) : outcome.status # 200 /\ Return(outcome.status, {})
    /\ Begin
    /\ announced' = 0
    /\ child' = "none"
    /\ child_ends' = {}

(***************************************************************************)
(* Setup and the beginning of Execute: two pipes, of which only a POST     *)
(* request needs both, and the child with a copy of their ends.            *)
(***************************************************************************)
Execute ==
    /\ parent = "returned"
    /\ \E outcome \in Setup(call.errand) : outcome.status = 200
    /\ left + 4 <= MaxFds
    /\ Begin
    /\ parent' = "ends"
    /\ parent_ends' = IF request'.method = "POST" THEN Ends
                                                  ELSE {"out_read", "out_write"}
    /\ announced' = IF request'.method = "POST" THEN ContentLength(request') ELSE 0
    /\ result' = NoResult
    /\ child' = "setup"
    /\ child_ends' = parent_ends'
    /\ UNCHANGED left

(***************************************************************************)
(* pipe() fails: PipeFailureException, 500.  If it is the second one the   *)
(* descriptors of the first are left open.                                 *)
(***************************************************************************)
ExecuteWithoutPipes ==
    /\ parent = "returned"
    /\ left + 4 > MaxFds
    /\ Return(500, IF left + 2 <= MaxFds THEN {"out_read", "out_write"} ELSE {})
    /\ UNCHANGED << call, announced, count, to_write, exit_seen,
                    content, childVars, pipeVars >>

(* Mutant: the server keeps its copy of the end the program writes to. *)
EndsOfChildButOut == {"body_read"}

(* The ends that are for the child. *)
EndsOfChild == {"body_read", "out_write"}

CloseEnds ==
    /\ parent = "ends"
    /\ parent_ends' = parent_ends \ EndsOfChild
    /\ IF Post
          THEN parent' = "write" /\ count' \in BytesToWrite(request) /\ to_write' = count'
          ELSE parent' = "wait" /\ UNCHANGED << count, to_write >>
    /\ UNCHANGED << call, left, announced, exit_seen, content, result,
                    childVars, pipeVars >>

(***************************************************************************)
(* WriteToPipe: write() blocks until all bytes are in the pipe, and if     *)
(* nobody can read them any more SIGPIPE, which the server does not        *)
(* handle, ends it.                                                        *)
(***************************************************************************)
WriteToPipe ==
    /\ parent = "write"
    /\ to_write > 0
    /\ UNCHANGED << call, left, parent_ends, announced, count,
                    exit_seen, content, result, childVars, out_pipe >>
    /\ \/ /\ IsOpen("body_read")
          /\ Room(body_pipe) > 0
          /\ LET n == Least(Room(body_pipe), to_write)
             IN  to_write' = to_write - n /\ body_pipe' = body_pipe + n
          /\ UNCHANGED parent
       \/ /\ ~ IsOpen("body_read")
          /\ parent' = "killed"
          /\ UNCHANGED << to_write, body_pipe >>

(* All is written; if that is not the size of the body, it is an error. *)
BodyWritten ==
    /\ parent = "write"
    /\ to_write = 0
    /\ IF WriteFailed(request, count)
          THEN Return(500, parent_ends)
          ELSE parent' = "wait" /\ UNCHANGED << parent_ends, left, result >>
    /\ UNCHANGED << call, announced, count, to_write, exit_seen,
                    content, childVars, pipeVars >>

(* Mutant: a child that still runs is taken for one that failed. *)
ExitStatusUnlessExited == IF child = "exited" THEN program.status ELSE 1

(* The exit status of the child, if it has one already. *)
ExitStatus ==
    IF child # "exited" THEN 0 ELSE IF program.executes THEN program.status ELSE 1

(* waitpid(), which does not wait. *)
WaitForChild ==
    /\ parent = "wait"
    /\ exit_seen' = ExitStatus
    /\ parent' = "read"
    /\ UNCHANGED << call, parent_ends, left, announced, count,
                    to_write, content, result, childVars, pipeVars >>

RetrieveContent ==
    /\ parent = "read"
    /\ out_pipe > 0
    /\ LET n == Least(out_pipe, ReadSize)
       IN  content' = content + n /\ out_pipe' = out_pipe - n
    /\ UNCHANGED << call, parent, parent_ends, left, announced, count,
                    to_write, exit_seen, result, childVars, body_pipe >>

(* Mutant: nothing to read is taken for the end of the output. *)
OutputEndedIfEmpty == out_pipe = 0

OutputEnded == out_pipe = 0 /\ ~ IsOpen("out_write")

(* Mutant: nothing is closed at the end. *)
EndsLeftOpenAll == parent_ends

(* All but the end that the output was read from. *)
EndsLeftOpen == parent_ends \ {"out_read"}

(* The end of the output: SetExecStatusCode, and the reply. *)
ContentRetrieved ==
    /\ parent = "read"
    /\ OutputEnded
    /\ Return(IF exit_seen = 0 THEN 200 ELSE 502, EndsLeftOpen)
    /\ UNCHANGED << call, announced, count, to_write, exit_seen,
                    content, childVars, pipeVars >>

-----------------------------------------------------------------------------
(* The child process. *)

Exit ==
    /\ child' = "exited"
    /\ child_ends' = {}

EndsOfProgram == {"body_read", "out_write"}

(***************************************************************************)
(* ChildProcess: the program gets its ends as standard input and output,   *)
(* the others are closed; if it cannot be executed the child exits with 1. *)
(***************************************************************************)
ChildProcess ==
    /\ child = "setup"
    /\ IF program.executes
          THEN child' = "running" /\ child_ends' = child_ends \cap EndsOfProgram
          ELSE Exit
    /\ UNCHANGED << call, parentVars, took, at_end, put, pipeVars >>

InputTaken ==
    \/ ~ Post
    \/ program.reads = "nothing"
    \/ program.reads = "length" /\ took = announced
    \/ at_end

OutputPut == put = program.output

MayRead  == child = "running" /\ ~ InputTaken /\ (program.first = "reads" \/ OutputPut)
MayWrite == child = "running" /\ ~ OutputPut  /\ (program.first = "writes" \/ InputTaken)

(* read() returns what there is, or nothing at the end of the input. *)
ProgramReads ==
    /\ MayRead
    /\ body_pipe > 0 \/ ~ IsOpen("body_write")
    /\ LET n == IF program.reads = "length" THEN Least(body_pipe, announced - took)
                                            ELSE body_pipe
       IN  took' = took + n /\ body_pipe' = body_pipe - n
    /\ at_end' = (body_pipe = 0)
    /\ UNCHANGED << call, parentVars, child, child_ends, put, out_pipe >>

ProgramWrites ==
    /\ MayWrite
    /\ Room(out_pipe) > 0
    /\ LET n == Least(Room(out_pipe), program.output - put)
       IN  put' = put + n /\ out_pipe' = out_pipe + n
    /\ UNCHANGED << call, parentVars, child, child_ends, took, at_end, body_pipe >>

ProgramExits ==
    /\ child = "running"
    /\ InputTaken
    /\ OutputPut
    /\ Exit
    /\ UNCHANGED << call, parentVars, took, at_end, put, pipeVars >>

-----------------------------------------------------------------------------

(* A request comes, and a program is found for it or not. *)
Start == SetupFails \/ Execute \/ ExecuteWithoutPipes

ParentProcess ==
    \/ CloseEnds
    \/ WriteToPipe
    \/ BodyWritten
    \/ WaitForChild
    \/ RetrieveContent
    \/ ContentRetrieved

Child ==
    \/ ChildProcess
    \/ ProgramReads
    \/ ProgramWrites
    \/ ProgramExits

(* The server was killed: nothing more is modelled. *)
Killed == parent = "killed" /\ UNCHANGED vars

Next == Start \/ ParentProcess \/ Child \/ Killed

Spec == Init /\ [][Next]_vars

(* Both processes run on once there are two; requests need not come. *)
Fairness == WF_vars(ParentProcess) /\ WF_vars(Child)

FairSpec == Spec /\ Fairness

-----------------------------------------------------------------------------

(* Every variable has its type. *)
TypeOK ==
    /\ call.errand \in Errands /\ call \in Calls(call.errand)
    /\ parent \in {"returned", "ends", "write", "wait", "read", "killed"}
    /\ parent_ends \subseteq Ends
    /\ left \in 0 .. MaxFds
    /\ announced \in Nat /\ count \in Nat /\ to_write \in 0 .. count
    /\ exit_seen \in {0, 1}
    /\ content \in Nat
    /\ result \in {NoResult, 200, 403, 404, 500, 502}
    /\ child \in {"none", "setup", "running", "exited"}
    /\ child_ends \subseteq Ends
    /\ took \in Nat /\ put \in Nat /\ at_end \in BOOLEAN
    /\ body_pipe \in 0 .. PipeSize
    /\ out_pipe \in 0 .. PipeSize

(***************************************************************************)
(* A reply of a program has all of its output: whatever the pace of both   *)
(* processes, RetrieveContent ends when the program has, and no earlier.   *)
(***************************************************************************)
ContentIsOutput ==
    parent = "returned" /\ result \in {200, 502} =>
       /\ child = "exited"
       /\ content = put
       /\ put = IF program.executes THEN program.output ELSE 0

(***************************************************************************)
(* 502 (Bad Gateway) is only replied if the program did fail.  (That it is *)
(* replied whenever it does is not so: waitpid() does not wait.)           *)
(***************************************************************************)
FailureIsReal ==
    result = 502 => child = "exited" /\ (program.status # 0 \/ ~ program.executes)

(***************************************************************************)
(* The server is only killed by SIGPIPE if the program has ended without   *)
(* reading all of the body.                                                *)
(***************************************************************************)
KilledByUnreadBody ==
    parent = "killed" => child = "exited" /\ took < count

(***************************************************************************)
(* What is run is the program of the configuration, and for the file that  *)
(* was asked for; and it is run if there is such a program and file.  This *)
(* holds of any request but those for which the search is known to go      *)
(* astray, see RegularErrand.                                              *)
(***************************************************************************)
ScriptIsTheOneAskedFor ==
    RegularErrand(call.errand) =>
       \A outcome \in Setup(call.errand) : Runs(call.errand, outcome)

(***************************************************************************)
(* An execution that comes to a reply of its program gives its descriptors *)
(* back, but for the one it wrote the body to: programs that are given no  *)
(* body can be executed without end.                                       *)
(***************************************************************************)
LeavesOneEnd ==
    [][ parent # "returned" /\ result' \in {200, 502} =>
           left' <= left + (IF Post THEN 1 ELSE 0) ]_vars

(***************************************************************************)
(* Every execution comes to an end, so that the server goes on to serve    *)
(* other connections.                                                      *)
(***************************************************************************)
ExecutionReturns ==
    parent = "ends" ~> parent \in {"returned", "killed"}
=============================================================================
