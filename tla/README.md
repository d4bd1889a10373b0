# foodserv: a verification development

`foodserv` is an HTTP/1.1 server in C++: one thread, one `kqueue`, non-blocking
sockets, a configuration in the manner of nginx, static files, uploads and CGI
programs. This directory holds TLA+ modules that model it, TLC configurations
that check them on small instances, and TLAPS proofs of theorems about them for
every instance. Paths such as `server/kernel_events.cpp` are relative to
`src/src/`.

    tlc -config KernelEventsSafety.cfg MCKernelEvents      # one run
    tlapm KernelEvents_proofs.tla                          # one proof module

`PROJECT.json` lists the runs, and for every definition the lines it stands for.

## 1. The system

| part | state it keeps | operations | works with |
|---|---|---|---|
| event loop, `server/kernel_events.cpp` | `_kqueue`, `_connection_map` (descriptor to `Connection*`), the batch of events | `KernelEventLoop`, `CloseHangingConnections`, `AcceptNewConnection`, `ReceiveRequest`, `SendResponse`, `RemoveFromConnectionMap` | kernel; calls `Connection` |
| connection, `connection/connection.cpp` | `_state`, `_close_connection_immediate`, a `Request`, a `ResponseHandler`, a `Timer` | `Receive`, `Dispatch`, `HandleTimeout`, `CanClose` | called by the loop only |
| request, `request/request.cpp` | status, status code, buffer, header fields, message body, target | `Parse`, `GetQuery` | `RequestParser`; its target is resolved by the connection |
| request parser, `request/parser/` | `cur_state` of six state machines (line, target, host, header fields, message, chunks), their buffers, counts of bytes | one handler per state and character | `RequestValidator`, exceptions with an HTTP status |
| validator, `request/request_validator.cpp` | none | Host, Expect, Content-Length, Transfer-Encoding, method | throws |
| target resolution, `resolved_target/` | the server, location and path of a request | `ServerSelection`, `LocationSelection`, `ResolvedPath`, `TargetConfig` | reads the configuration |
| response handler, `response/` | `Response` (status, body, `_complete`), send buffer, `_is_done` | `HandleError`, `HandleExpect`, `HandleRegular`, `Send` | files, CGI, error pages; may call itself through error pages |
| file handler, `response/file_handler.cpp` | none | GET, POST, DELETE, generated index | the file system |
| CGI, `cgi/` | two pipes, a child process, `_content` | `Setup`, `Execute` | `fork`, `execve`, `pipe`, `waitpid` |
| configuration, `config/` | the text of the file, servers, locations, their directives | `LoadConfigFile`, one setter per directive, validation, defaults | once, before the loop |
| listening sockets, `server/socket.cpp` | descriptors | creation | once, before the loop |

Hard behaviours, and what would make each part correct:

* *Event loop.* A batch of events describes the past. Between `kevent()` and the
  handling of an event the sweep may close its connection, another event of the
  batch may close it too, and `accept()` may give the number to someone else. The
  map, the descriptors, the knotes and the clients must stay consistent; no client
  may be served from the state of another; every connection must be released at
  last; one client must not be able to end the service for all.
* *Connection.* Input in any cut, timeouts at any moment, and sends in pieces meet
  on one `Response` object. A request is to be carried out once, answered by one
  final reply, whose status and body belong together, delivered in full.
* *Request parser.* It is fed whatever one `recv()` returned, and keeps half-read
  items in its buffers. Where a message is cut must not matter; a request must be
  complete exactly when all of it was received; what was rejected must stay so, with
  the status of the rule that was broken; a target or a host must not be taken for
  another.
* *Response handler.* An error page may fail with another error, which has a page.
* *CGI.* Two processes, two bounded pipes, a wait for an exit status, and a thread
  that serves nobody meanwhile: neither may wait for the other for ever.
* *File handler.* It looks at a file with one system call and acts on it with another,
  while other processes use the same files; disks fill; a length is announced long
  before the file is sent. What was answered must be what was done.
* *Target resolution, configuration.* Sequential; what can be wrong is a choice among
  servers or locations, a path, the order of directives, a missing `;` or `}`.

## 2. The modules

    ConnectionLifecycle   operators: what the loop sees of a connection
      +- ConnectionSpec   the abstract specification of a connection
      +- KernelEvents     the event loop, its kernel and its clients
      |    +- MCKernelEvents, KernelEvents_proofs
      +- Connection       a connection in detail; implements ConnectionSpec
           +- Connection_proofs
    Characters            operators: classes of characters, small conversions
      +- RequestTarget    operators: path and query of a request target
      |    +- RequestHead      a request up to the end of its header section
      |    |    +- MCRequestHead    (with UriHost)
      |    +- Directives       operators: the values of directives
      |         +- Configuration    the configuration file is loaded
      |              +- MCConfiguration, Configuration_proofs
      +- UriHost          operators: registered names, IP addresses, ports
    ChunkedParser         operators: the parser of chunked bodies
      +- MessageBody      how a request takes in its body, cut anywhere
           +- MCMessageBody, MessageBody_proofs
    FileSystem            operators: the files, as system calls see them
      +- FileStore        the abstract specification of what is done to files
      +- Serving          requests for files, carried out; implements FileStore
           +- MCServing, Serving_proofs
    Target                operators: server, location and path of a request
      +- Target_proofs    facts of these operators, of folds and of sequences,
      |                   for Serving_, CGI_ and MessageBody_proofs
      +- Serving
      +- CGIScript        operators: the program and its file (with FileSystem)
           +- CGI         the server and a program with two pipes
                +- MCCGI, CGI_proofs
    ErrorPages            the error handlers that call each other
      +- ErrorPages_proofs

A request passes `RequestHead`, then `MessageBody`, then `Serving` or `CGI`, and
`ErrorPages` if it fails; `Connection` has the outcomes of all of these as choices and
adds what they do not see, that its input, its timeouts and its sends come in any
order; `KernelEvents` has a connection as `ConnectionLifecycle` describes it, and adds
the other connections and the kernel. `Configuration` ends before the loop begins; its
result is what `Target` chooses from.

A definition whose comment begins with "Mutant:" is not part of a model: it is the
changed form of the definition after it, a plausible mistake that some property
must detect, and `PROJECT.json` says which.

### KernelEvents, ConnectionLifecycle, ConnectionSpec

`pc` is where `KernelEventLoop` is: in `kevent()`, in the sweep, in the batch, or
gone. `open`, `read_on` and `write_on` are the descriptors and knotes of the kernel;
`connection_map` and `expired` are the map and the timers of its connections;
`peer`, `sent`, `inbox`, `blocked` and `queue` are the clients, their unread input,
whose socket buffer is full, and who waits for `accept()`. Each handler of an event
is an action, `Kevent` and each step of the sweep too; the clients and the clock
take steps in between. What cannot be told from the code is a choice: the order of
the events in a batch (`batch` is a set), how much of the batch a full list of
`MaxEvents` holds, which input makes the parser throw `std::out_of_range` (the fault
`throw`), and what the iterator that `CloseHangingConnections` increments after its
element was erased leads to (the fault `dangling`). `accept()` returns the lowest
free number, so numbers are reused as early as they can be. An exception leaves the
loop and `main()` ends: `End`, with its `cause`.

A connection in this module is the record of `ConnectionLifecycle`: its state, whether
it has no, an interim or a final reply, and how many pieces of it were sent. Its
operators say what `Receive`, `Dispatch` and `HandleTimeout` may leave behind.
`ConnectionSpec` makes a specification of them, the interface between loop and
connection.

### Connection

The same class with its `Request`, `Response` and send buffer as far as they decide
which status and body the client receives and whether the request is carried out.
`Receive` is one action: parsing, resolution of the target, the handler that forms
the reply, and the next state. What a piece means to the parser is a choice among the
outcomes of its phase (`HeadParsed`, `BodyParsed`, `Rejected`). A status stands for
its class: 400 for every rejection, 404 for every failure of a method, 200 for 200
and 201. `wire` is what the client received. Four `Situations` can be switched on:
`expect` (an Expect header), `extra` (input after the end of the request), `exact`
(a reply whose size is a multiple of `BUFFER_SIZE`), `short` (a partial `send()`).

The refinement mapping of `ImplementsLifecycle` takes the state, the kind of reply
(`ReplySeen`) and the pieces sent.

### Characters, RequestTarget, UriHost, RequestHead

`RequestHead` has a client that sends the head of a request and something behind it in
pieces, and `Request::Parse` as the action `Parse` for each piece: the buffer that waits
for an empty line (`CanParse`), then at once the request line, the target, the header
fields, the validator's two rounds of checks and the choice between a finished request,
a message to come, and a chunked one. `request` is the `Request` with its parsers, whose
tables of handlers are operators, one per state. A text is a sequence of the words the
parsers tell apart: a letter or a mark is an element of its own where its class
matters, a method, a version or a name of a field is one element where the code compares
it as a whole, and `TextSize` gives its length.

`RequestTarget` translates `RequestTargetParser` (path, query, percent encodings, segments),
`UriHost` translates `URIHostParser`: registered names, IPv4 and IPv6 addresses, IPvFuture,
ports. `Characters` holds the classes of `utils/is_functions.cpp` and the conversions of
`utils/request_utils.cpp`.

A rejected request is parsed on when the client goes on sending (`Receive` of a
connection which waits to send its reply), so rejections are states here and not
ends. `Undefined` stands for a handler that is read behind the end of a table, `Escaped`
for an exception that no one catches.

### Directives, Configuration

`Configuration` reads a file that was written for a `source`: `SourceInOrder` says by
itself whether the source is one of the language, and `Meaning` what it asks for. The file
is `Lines(source)`, a sequence of words; `FindServerContext`, `ServerDirective`,
`OpenLocation`, `LocationDirective`, `CloseLocation`, `CloseServer` and `EndOfFile` are the
functions that walk it, one directive or bracket at a time. `server` and
`location` are the contexts being built, where the domain of `values` is the set of
`bool_` flags. `Directives` has the validation and conversion of the values of each
directive.

### Target, FileSystem, FileStore, Serving

`Target` translates `ServerSelection`, `LocationSelection` (by what prefix a location is
chosen), the aliases and roots of `ResolvedPath`, and the inheritance of `TargetConfig`.

`FileSystem` gives each path an entry; a file is an inode, so that a reply which is being
sent still has its file when the path is removed or made anew. `Serving` takes one
request after the other through the calls that the code makes for it (`at`: the `stat()`
of each index file, `stat()` of the target, `open`, `opendir`, `readdir`, `creat`, `write`,
`remove`), while `Outside` lets other processes create, replace, extend and remove files
between any two of them. `Send` sends what is in the file when the reply's turn comes,
with the length that was announced when it was formed. A disk has `space` for some
pieces; a piece is what a stream buffers before it writes.

`FileStore` is the promise: a request is one step, that sees the files as they are and
changes at most its own. It says nothing else of a request during which others changed
the files. The refinement mapping gives `FileStore` the files from before the request
until its last step (`before`), and the answers when they are formed.

### ErrorPages

`HandleError`, `HandleCustomError` and `HandleDefaultError` with the stack they nest
on, for every table of error pages: each code has no page, a readable one, or one of
the failures that `ResolvedPath` and `FileHandler` can end in. `Outcome` is the
reference definition: the code the failures lead to, without the handlers.

### ChunkedParser, MessageBody

`ChunkedParser` translates every handler of `ChunkedParser` one character at a time,
including the `'\0'` behind the last character of each piece that
`AStateParser::ParseString` hands to it, the size and extension limits, the trailer, and
the counters of the data; `Parse` folds them over a piece. An invalid state that is
given another piece is `Undefined`, as its table has no handler there.
`MessageBody` is the `Request` that drives it: the buffer, the header section's
framing and limit, and the status. The client sends one well-formed message of
RFC 7230 (`Chunked`, `MessageOfLength`) and cuts it where it likes; the header
section is in the first piece, and `RequestHead` says what becomes of it.

### CGIScript, CGI

`CGIScript` translates the search for the program: an errand is a request with the
location it is for and the files of its site, and `Setup(l)` the set of what
`AssignResponseResolvedPath` and `CGI::Setup` can end in, an argument vector or the status
of an exception. It is a set as `FindFile` takes whichever entry of a directory `readdir()`
returns first. The comparisons go from the ends of names towards their beginnings, as the
code's do, with what it does at an index of zero. `IsAsked` and `IsOffered` say what is
promised, by the names alone: the program is the one of the configuration and the file
the one of the target; and there is such a program and file at all. `RegularErrand` names
the errands for which this is so, and `IsErrand` what any errand is.

In `CGI`, a request comes on an errand, and is refused (`SetupFails`) or carried out.

`parent` and `child` are the two processes. `parent_ends` and `child_ends` are the ends
of the pipes each has open, `body_pipe` and `out_pipe` the bytes in them, `left` the
descriptors that earlier executions left open. `Execute` makes pipes and child,
`CloseEnds`, `WriteToPipe`, `BodyWritten`, `WaitForChild`, `RetrieveContent` and
`ContentRetrieved` are the steps of `ParentProcess` between which the child may run;
`Return` is where an exception or the end leaves it. The program is external: it reads
its body by CONTENT_LENGTH, to the end, or not at all, before or after it writes, and
exits with 0 or 1. `GetQuery` decodes the body again on each call: `QuerySize(r, n)` is
its size after the n-th, so that CONTENT_LENGTH (`ContentLength`), the bytes written
(`BytesToWrite`) and the number expected (`WriteFailed`) are of different calls.

## 3. The runs

| run | question | bounds |
|---|---|---|
| `loop_safety` | With every fault, do map, descriptors, knotes and clients agree, does a final reply stand, does the server only close with a reason? | 2 clients, 2 descriptors, 1 listener, 1 piece of input, replies of up to 2 pieces, symmetry of clients |
| `loop_polite` | Does the server stay in its loop if nobody resets or is silent too long, and does it hear only those who spoke? | the same, no faults |
| `loop_liveness` | Is every accepted connection released? | the same, the fault `idle`, replies of 1 piece |
| `conn_refines` | Is the detailed connection one that the loop is prepared for, in all situations? Is what failed not carried out? | 3 pieces of input, 2 timeouts, replies of up to 3 pieces, all targets and situations |
| `conn_service` | Is a request carried out once and answered once, in full and in order? | the same, the situation `expect` |
| `conn_late_timeout` | Do status and body belong together although a timeout strikes? (No.) | 2 pieces, 1 timeout |
| `request_head` | Is a head understood alike in every cut, rejected for the first rule it breaks and never revived? Is it for what the client addressed? | eight families of heads, a target of 12 octets, header fields of 60, a `size_t` of 8 bits, messages of up to 5 |
| `body_plain` | Is a message of a known length, or in chunks with plain data, understood in every cut, and too long a one rejected? | two chunks, see below |
| `serving` | Does the best location serve, is a request for a file one step on the files, is what was announced sent, is every request answered? | 2 clients, 14 paths, a disk with room for 1 piece or 9, 2 changes by others |
| `cgi_service` | Is the program run that was asked for, with the file that was asked for? Is the output complete, is 502 real, are descriptors given back, does the server get out? | pipes of 2 bytes, bodies and output of up to 3 bytes (a body announced as up to 5), 7 descriptors; 5376 errands to 56 sites |
| `errors_settling` | Does every configuration without a circle lead to the reply it asks for? | 4 codes, all 7^4 tables, 9 nested calls |
| `configuration` | Is a file loaded exactly if it is in order, and as it was written? Does every path have one location? Does loading end? | three families of files of up to two servers, a port of 16 bits, a `size_t` of 1000 |

Why these bounds are enough to meet the interesting cases:

* *loop.* Two clients and two descriptors suffice for a number to be closed and
  given to another within one batch, for a client to wait in the queue while the
  others are served, and for the sweep to lose its way; clients may come back
  without end, so sequences are not bounded. A second piece of input per client
  multiplies the states and adds one case, input while a reply is pending, which
  `Connection` covers. `MaxEvents` is the code's 100, which two clients do not fill;
  the proofs are for any value.
* *connection.* Three pieces cross each of the parser's phases, with one after the
  end; two timeouts meet one reply; three pieces of reply have a first, a middle and
  a last.
* *heads.* The families are built around one part each: up to three fields out of
  13, of which any may be there twice; lines with a wrong method, version, target or
  length; input behind the head; heads that break a rule, from a client that goes on;
  all targets of five characters out of the classes that the parser tells apart; targets
  without a slash, names, addresses and literals, with a Host beside them; names and values
  with white space and controls; hosts in each of the four grammars, right and wrong, and
  literals that are not closed. Where cuts matter, the head is sent in any
  pieces. The limits are small, so that they are met exactly and exceeded by one.
* *bodies.* Zero to two chunks of one or two octets, with extensions and trailer, in
  every cut; one chunk of 17 octets for a size of two digits at the very limit
  (`DefaultMaxBody` stands for the default of the code, `MaxChunkExt` is small for the
  same reason); lengths from zero to one beyond the limit, of data with octets of any kind;
  chunks with an octet from 0x80 on, which are rejected; with and without Expect.
* *files.* `Pairs`: any two requests, at least one of which writes, for a tree with each
  kind of file and directory, with room and without, so that one client's write comes
  between the other's reply and its sending. `Interfered`: one request of each kind
  during which others do up to two things to the same files, which is the number that
  it takes to change what a `stat()` has seen and change it back. `Selections`: two
  servers of the same or other ports and names, and two or three locations in any order.
* *CGI.* With pipes of two bytes a body or an output can be empty, fit, fill the
  pipe, or exceed it. Four descriptors are needed for an execution, so that after
  two of them the third lacks some. The sites have locations with and without a
  slash at the end, roots with and without one at the beginning, aliases of both kinds,
  programs given as names, in directories, as whole paths, to be found or not, with and
  without an extension; the errands are directories, the program, a file with the
  extension and without, names that end or begin alike, and queries that end in a slash.
  Of 2676 errands that are regular 310 are accepted, and all but 8 of the 140 for which
  there is something to run.
* *error pages.* The failures lead to 403, 404 and 500 only, so a chain that settles
  has at most four codes; nine calls hold the longest one and no circle.
* *configuration.* Each value of each directive at the limits of its grammar, any two
  directives together, any two locations, and files of one or two servers that lack a
  `;`, a `}`, or have one too many.

`conn_late_timeout` is expected to be violated: what the project's subject promises is
not what the code does, and `findings` in `PROJECT.json` quotes it.

Deadlock is checked wherever the system runs for ever: in the loop, the connection and
CGI, where what has ended stutters by an action of its own. `RequestHead` and
`MessageBody` stop when everything was received, `Serving` when all clients have their
replies, `Configuration` when the file is loaded or rejected, and `ErrorPages` when the
reply is formed. That they do not stop before is `EveryRequestIsAnswered` and
`LoadingEnds` for two of them, and part of `HeadIsUnderstood`, `PlainDataIsUnderstood` and
`ReplyIsTheOutcome` for the others.

### Fairness

* `KernelEvents`: weak fairness of `KernelEventLoop`, as the server's thread runs, and
  `kevent()` returns at least when its timer of 5 seconds fires; of `TimeElapses`,
  as the clock goes on; of `ClientReads`, as a reply otherwise may wait for ever, which
  the code has no timeout for. Nothing makes a client send, finish or leave.
* `CGI`: weak fairness of what each of the two processes does once there are two
  (`ParentProcess`, `Child`), as the operating system schedules both; that a request
  comes (`Start`) is not assumed. A program that loops for ever is not among those modelled.
* `Serving`: weak fairness of `Serve`, the server's thread; other processes need not do
  anything.
* `Configuration`: weak fairness of `Next`, as nothing but the reader runs.

`ConnectionLifecycle` chooses among all that a call may leave behind, `Request` without
end included, so that liveness does not rest on input making progress: the timeout
alone brings the reply.

## 4. What the code does that one might not expect

Checked, as a run that is expected to be violated: a timeout while a formed reply waits to
be sent replaces its body and leaves its status: 200 with the page of 408
(`conn_late_timeout`).

Part of the models, and excluded by the condition of a run or a property:

* *Loop.* A failed `send()`, `accept()` or `kevent()` ends the service for everyone; so
  does an event handled after its descriptor was closed (`cause` in `KernelEvents`).
  `EV_EOF` closes a connection whose input was not read yet.
* *Connection.* Input behind a complete request has it carried out again (`extra`); a
  reply whose size is a multiple of `BUFFER_SIZE` is followed by a second status line
  (`exact`); a partial `send()` drops the rest (`short`). A request that failed by a
  timeout, or came with an Expect header still unanswered, can be carried out for a CGI
  program later.
* *Heads.* A target without a slash, such as `a` or `10.1.1.1:8`, is taken for a host
  (`uri.cpp:129`), so `GET a HTTP/1.1` with a Host in order is accepted, with an empty path;
  the port of the target stays if the Host has none (`TakenForHost`, left out of
  `HeadIsUnderstood` and `AddressIsUnderstood`). A request line of two words is accepted if a second piece comes (`TwoWords`).
  After an invalid character the parsers are given the next piece, for a state their
  tables have no handler for (`Undefined`). Of fields with one name the first stays, and
  the others, even another Host or Content-Length, are dropped (`Declared`). A field with
  an empty value takes the next line for its value (`NoEmptyValue`), and a value may begin
  with a control character (`RegularValues`). Octets from 0x80 on
  in a value are refused (`IsVChar`). A version that begins with an H and ends in a digit, such as
  `HTTP/1.1HTTP/1.1`, is another version, 505, and no bad request (`RegularVersion`). One octet behind the
  head of a request without a message is not noticed, two are 411. A Content-Length
  beyond a `size_t`, or an address that ends in a period, throws what nobody catches and ends
  the server: `10.1.1.1.` as the Host or as a target, or at the end of a literal that is
  not closed, such as `[::10.1.1.1.` (`EscapesAreKnown`).
* *Bodies.* The `'\0'` behind each piece counts as a character of the chunk, so the cut
  of a message with a line feed in its data decides what becomes of it; `body_plain` is
  about messages without one (`DataIsTaken`). An octet from 0x80 on in the data of a chunk is
  a negative `char`, which `IsOctet` refuses (`chunked_parser.cpp:141`, `is_functions.cpp:51`),
  so the message is a bad request, although `docs/notes/ABNF.md:91` gives the data as
  `1*OCTET`; the property is about chunks without such octets (`DataIsTaken`). By its length
  a message is taken whatever its octets are. A size with a letter behind its first digit,
  such as `1A`, is a bad request, although `docs/notes/ABNF.md:89` gives it as
  `1*HEXDIG` and `HextoDec` reads any: `SizeHandler` takes digits only. The property
  is about chunks of the other sizes (`SizesAreTaken`).
* *Error pages.* Two pages that fail with the error of each other exhaust the stack; the
  guard in `HandleCustomError` is for one page only. `errors_settling` is about tables
  without a circle.
* *CGI.* The server never closes its end of the pipe to a program, so a program that
  reads to the end hangs it. One that writes more than a pipe holds before it reads
  waits for the server as the server waits for it; one that exits without reading ends it
  by SIGPIPE; its exit status is only seen if it ended before the server looked; a body
  that is encoded three times or more is announced with one size and written with
  another. `ExecutionReturns` and `LeavesOneEnd` name these conditions.
* *The search for a program* (`RegularErrand`, `IsForbidden`). Whether the target is a
  directory is asked of path and query together, so a query that ends in `/` makes it
  one, and a query behind a directory makes it none; of a POST or DELETE the query is a
  part of the name that is compared. The period of an extension is not compared. A
  directory target is looked for where the resolved path says, without the directory the
  server was started in, which the program is looked for with: 403 for
  `/cgi-bin/`, although `google_test/cgi_test/try_test.cpp:29` asks for it (of `CGI` alone).
  A root that does not begin with `/`, or an alias that lacks the slash the location has,
  glues two names together; an alias without any slash is a name that the first slash
  does not separate from what is before it, and so is a target without host. A question
  mark that was encoded in a path, or is in a path of the configuration, ends the
  name that is compared. An extension that is a period alone is one every name has; one
  with a slash in it can be no end of a name. With an extension, nobody asks whether the file is there, or
  whether the program may be executed; of a directory the first file with the extension
  is run.
* *Configuration.* A word of five or six letters that starts a block is taken for
  `server`; a directive without `;` takes the lines behind it for its values, up to the next
  one; a `[` in `listen` need not be closed; sizes are taken modulo that of a `size_t`, and
  `m` alone is a size. A server without a location for `/` is given one that allows no
  method, so that everything else is 405.
* *Target.* The server is chosen by the port in the Host field and not by that of the
  socket the request came from; a Host without a port only finds servers that listen on
  none.
* *Files.* A write to a full disk is only noticed if the body exceeds what the stream
  buffers; otherwise the answer is 200 or 201, and the data is lost (`IsNoticed`). A reply
  that waits while another client's POST extends its file announces less than is sent, and
  one whose file was shortened more (`WhatWasAnnouncedIsSent` is for files that are only
  appended to in place). `creat()` empties a file that was made since `stat()` saw none;
  `remove()` takes an empty directory that replaced a file. Files are opened to be read and
  written, so one that is read-only gives 500. A directory stays open when one of its
  entries vanishes while it is listed.

## 5. What is proved

Constants are arbitrary: any number of clients, descriptors and listeners, any
`MaxEvents`, `MaxPieces` and `MaxSends`, any set of faults, targets and situations, any
sources of a configuration, any well-formed messages. The assumptions are those the modules name: `NoClient` is not
a client, descriptors are numbers, listeners and the timer's ident are none of the
clients' descriptors, bounds are natural numbers.

`KernelEvents_proofs`:

* `TypeCorrect`, `MapIsFaithful`, `OneDescriptor`, `KnotesAreFaithful`, `NothingLeaks`:
  the invariants `TypeOK`, `MapMatchesDescriptors`, `OneDescriptorPerClient`,
  `KnotesFollowConnections` and `NothingIsKeptForTheAbsent`. Together they are inductive,
  and none is by itself: that `accept()` puts nobody on two descriptors needs that
  those in a queue are on none; that an event handled too late cannot form a reply
  for a descriptor that was closed needs that the map has no entry for it; that a
  closed descriptor leaves no knote needs that the knotes are those of the open ones.
  The proof takes one step per action, and under it one per conjunct the action
  disturbs; `Close` and what may become of one connection are lemmas.
* `RepliesStand`: the action property `FinalReplyStands`, from the invariant.
* `ClosingHasAReason`: the action property `ClosesWithReason`, with all faults. That a
  connection which is `Done` is closed before the batch goes on (`NoneIsDone`) is the fact
  it needs beside the invariant.
* `HeardClientsDidSpeak`: `HeardClientsSpoke`, and `PoliteClientsKeepItUp`: `ServerStaysUp`, for
  clients that send in one piece, never reset, never raise `throw` and are never silent
  for a minute (`Polite`); the second with a descriptor for each client
  (`EnoughDescriptors`). These are the faults of section 4 which end the service or leave
  a stale event in a batch, and `loop_polite` is without them; a client may still finish
  at any moment, come back, and leave its reply unread for as long as the timeout lets it.
  `PoliteInv` says that each event of a batch finds what it was reported for: an event of
  input finds some, is the only one of its descriptor, and finds the connection in its
  first state; one of output finds room; a listener's finds a client.

`Connection_proofs`:

* `TypeCorrect`, by the invariant `IInv`: `TypeOK`, and that status, code and phase of
  the request go together (`RequestOK`), as do code, body, buffer and pieces of the
  response (`ResponseOK`): without it nothing bounds the pieces of a reply.
* `Refinement`: `Spec => ImplementsLifecycle`. Each of the three calls is shown to be
  a step of `ConnectionSpec`, or to change nothing it sees. So what is proved of the
  loop with any connection of `ConnectionSpec` holds of the loop with this class.
* `CarriedOutOnce`: `ExecutedOnce`, if `extra` is not among the situations. A strengthened
  invariant says that what was carried out has left the parser in its last phase,
  from which there is no way back.

and of its replies, unless the size of a reply is a multiple of `BUFFER_SIZE` or
`send()` takes less than it is given (the situations `exact` and `short`; section 4 says
what the code does then):

* `OneReply`: `OneFinalReply`, and `RepliesAreWhole`: `DoneMeansDelivered`. The invariant
  `WireInv` ties what went out to what is left: a final reply is on the wire exactly when
  a part of it is in the send buffer or the connection is done, and it is then the last
  one. It needs that a buffer which is not empty always ends in a piece smaller than
  `BUFFER_SIZE`, and that no timeout or further input turns a reply that was begun into
  an interim one.
* `InterimsComeFirst`: `InterimFirst`, under the same conditions. `ExpectInv` follows the wish for an interim reply
  from the header section, which alone can express it, through the request to the
  response and to the wire.

and without these conditions:

* `StatusesMatchInTurn`: `StatusMatchesBodyInTurn`, if `extra` is not among the situations.
  `TurnInv` says of a connection without timeout and Expect header that its response is
  untouched while the request is incomplete, and that its status and body match
  afterwards.
* `FailedIsNotExecuted`: the action property `ErrorsAreNotExecuted`. A failure that is in
  the response is in the request too (`ErrorsKnown`), unless an Expect header was there.

`Configuration_proofs`:

* `LocationsAreDistinct`: `EveryPathHasALocation`, for every file that can be written.
  The invariant says of the server under construction what makes it so at the end: the
  location for `/` that its constructor pushed stays the first one until one is read,
  which takes its place; a URI is looked for among those read before it is added; the
  directives of a server do not touch its locations.

`CGI_proofs`, for pipes, reads, bodies, programs and errands of any size and number:

* `TypeCorrect`: `TypeOK`; in particular never more descriptors are left open than the
  process has.
* `OutputIsComplete`: `ContentIsOutput`. Every byte the program has written is read or
  still in the pipe (`BytesInv`), and a program that has ended has written all
  (`ProgramInv`). The end of the output is the end of the program only because nobody
  else has the end that it writes to: which process has which ends is `EndsInv`, for
  each step of both.
* `FailuresAreReal`: `FailureIsReal`, and that only a program that has ended without
  reading its body brings the server SIGPIPE (`KilledByUnreadBody`). An exit status was
  only seen of a child that has ended (`ExitInv`), and no child comes back.
* `DescriptorsAreGivenBack`: `LeavesOneEnd`, from `EndsInv`: the ends the server still has
  at the end of the output are the one it reads and, of a POST, the one it wrote to.
* `ProgramIsTheOneAskedFor`: `ScriptIsTheOneAskedFor`, for errands of any names and sites of
  any files (`ErrandsAssumption`: paths begin with `/`, what is there can be looked at, and
  the path of a program has a slash, as loading the configuration makes sure). The
  comparison from the ends, `EndAlike`, is shown to be one of the names for
  two paths that have a slash behind their first character (`EndAlikeNames` and the lemmas
  before it): the first place from behind where it may stop is the last slash of both.
  What it is used on has such slashes, except where `RegularErrand` says so
  (`ErrandPaths`, `Comparisons`, `MadeAbsolute`), and without question marks it compares all
  of it (`QueryRemoved`). There is a lemma for each of the two forms of the directive,
  `OneArgumentRuns` and `TwoArgumentsRun`.

`ErrorPages_proofs`, for any set of codes and any table of pages:

* `TypeCorrect` and `RepliesTheOutcome`: `ReplyIsTheOutcome`, circles included. The
  invariant says that the failures lead from the code of the request to the one that is
  handled now, and what the page of that code is at each call.
* `NineCallsAreEnough`: `NoEndlessErrors`, if at least nine calls may nest and the
  pages fail in no circle. Each code between the first one and the present one took two calls
  (`DepthInv`). None comes twice, as that would be a circle; and all but the first are
  ones a page fails with, which are 403, 404 and 500.
* `CirclesAreEndless`: where the pages do fail in a circle no reply is ever formed, so the
  condition of `errors_settling` leaves out nothing that would settle.

`Target_proofs` has the facts about choosing a target that `Serving_proofs` cites, and two
that say what the choice is, for any configuration:

* `ServerSelected`: the first server of the port that has the host's name, or the first of
  the port; where no server has the port, the same among all.
* `LocationSelected`: of the locations whose URI the path begins with, one with the longest.

Both functions are folds over the servers or locations. What a fold has when it has seen
the first `n` of them is shown with the library's induction over sets of numbers
(`SimpleNatInduction` takes an operator; that a subset of `Nat` which has 0 and
with every number the next one is `Nat` does not).

`Serving_proofs`, for any files, servers, requests and clients that meet the assumptions of
the module (a path is not empty and ends in no slash; each is in a directory of the tree or
is absent, as `WellFormed` says; the values of a target are those that directives take; the
path of a request begins with `/` and every server has a location for `/`, as
`EveryPathHasALocation` says, so that each request has a location):

* `TypeCorrect`, by the invariant `IInv`: beside the types, that nothing is left of a request
  when it was answered (`IdleOK`), that a reply still has the beginning it announced
  (`RepliesOK`), that each call is one of its method, with the target and one of
  the paths of its request (`RequestOK`), and `HiddenOK`, of which below.
* `AnnouncedIsSent`: `WhatWasAnnouncedIsSent`. A file that is appended to keeps what it
  began with. `creat()` alone empties one, that another process made since `stat()` saw none; no request
  came in between, so `RepliesOK` can say that it is the file of no reply.
* `BestLocationServes`: `TheBestLocationServes`, from `ServerSelected` and `LocationSelected`
  for the target that `Validate` selects, which no later call changes.
* `FileStoreIsImplemented`: `ImplementsFileStore`. The calls before the last one of a request
  map to stuttering, those of other processes to their step in `FileStore`, and the last
  one to the step that carries the request out. `HiddenOK` says what is between, as long as
  no other process changed the files: they are those from before the request, but for the
  file that it has made, and what its last call saw of them is still so. There is a
  lemma `...Maps` for each call, and `Quiet` ones for those that only look.

`MessageBody_proofs`, for any messages that meet `MessagesAssumption` (the data without zero
bytes; chunks of up to 255 octets, with one extension that does not begin a line and stays
within the limit; any number of chunks and of fields in the trailer), cut anywhere:

* `OverlongRejected`: `OverlongIsRejected`, whatever the client sends of a message that was
  rejected for its length.
* `PlainDataUnderstood`: `PlainDataIsUnderstood`, of messages of a known length with any
  data, and of chunks whose sizes are understood and whose data has no line endings and no
  octets from 0x80 on (`Plain`, see section 4). Of a message of known length the
  invariant says that the body is what was received (`LengthInv`). Of chunks it says
  where in the text of the message the parser is (`ChunkedInv`), with two numberings
  `o` and `g` that lay the message out (`Laid`): `o[i]` octets of text and `g[i]` of data end
  with the chunk `i`. A parser has its `Place` at a position if its fields are what the
  source makes them there, between two chunks (`AtStart`), inside one (`InChunk`: on the
  size, its extension, the line end, the data, and the line end behind it) or in the tail
  (`InTail`); or it has stopped in the data at the limit (`Halted`), and stays there
  although its input is parsed again.

  Three things are shown of a place. A turn of the loop with the next octet leads from the place
  to the next one (`PlaceTurn`, from a lemma for each handler). The `'\0'` behind a piece
  changes what is in the buffer and in the counts, but not the place (`PlaceEndOfPiece`):
  a place leaves open whether a `'\0'` is kept before the size, of which `HextoDec` then
  makes 0 (`SizeRead`), and how far the count of the data is behind (`OnData`), as the data
  is ended by its line and not by its count. A parser in its place has only taken what
  is there, and is done exactly at the end (`PlaceFacts`). `PieceIsParsed` follows for a
  whole piece, and `LengthStep` and `ChunkedStep` for `RequestParse`. The
  layout exists because the wire is `FlattenSeq` of the lines of the chunks: `FlattenIs` says
  of any such text where its parts begin, and `LayoutExists` that of a plain message each
  begins with a size that `HextoDec` reads back (`HexFacts`).

  The loop of `Parse` is a fold of turns, `TurnsOf`; what it has after each octet is shown by
  the induction over sets of numbers that `Target_proofs` uses. `BodyInv` quantifies over
  numberings, so TLC does not evaluate it: `body_plain` checks what follows from it.

Only model-checked are:

* liveness (`EveryConnectionIsReleased`, `ExecutionReturns`, `EveryRequestIsAnswered`,
  `LoadingEnds`), as the prover has no rules for fairness;
* what the other parsers make of a text: the properties of `RequestHead`,
  `ConfigIsUnderstood` and `LastEndIsNoticed`. Each relates a fold of some thirty handlers to a
  text that is itself put together of parts, for which the proof would need the state of
  the parser after each part, as `MessageBody_proofs` has it for the seven states of
  the chunked parser; and the reference these properties compare with is a function of
  the whole text, of which only an induction over its data could say anything.

## 6. What is not modelled, and what the models leave out

* In `KernelEvents`: the descriptors of files and CGI programs, which come out of the
  same table, and that nothing is served while a CGI program runs; failure of
  `kevent()` for want of memory; signals.
* In `Connection`: header fields and MIME types of replies.
* In `RequestHead`: zero bytes, from which on `std::string(buffer)` drops the input;
  fields that mean nothing to the server, but for one of any name.
* In `MessageBody`: input that is no well-formed message (where `KernelEvents` has the
  fault `throw`); input beyond the message; chunks of more than 255 octets, as a size is
  written with one digit or two (`Hex`), and the limit of seven digits that `SizeHandler` has.
* In `CGI`: the environment of the program but for CONTENT_LENGTH; that its files change
  between the search and `execve()`; the header fields of its output, which the parser of
  `RequestHead` reads; the entries `.` and `..` of a directory; that `env` is not terminated, which `execve()` may answer by
  failing (`executes`); zero bytes in the output; a failure of `fork()`. In `Serving` a
  target with `cgi_pass` is answered with one of the statuses that the search, the
  execution and the reading of the output can end in.
* In `Serving`: requests with an empty path, which a target without a slash leads to;
  `.` and `..` as segments of a path, which the parser of the target leaves
  as they are; links; that others rename a directory; the pages of errors, which are
  those of `ErrorPages`; header fields of the reply other than its length.
* In `Configuration`: the name of the file; comments that are not at the end of a line.
* Not modelled at all: the creation of the listening sockets, once at the start, from
  calls of the operating system in a fixed order, each of which ends the program when
  it fails; the tables of texts (reason phrases, MIME types, default pages), from
  which nothing is computed.

## 7. Plan

What is left, in this order:

1. `Connection`'s choices `HeadParsed` and `Rejected`, shown to contain what `RequestHead`
   does.
2. `Service`: an abstract specification of what a client is promised (one reply for one
   request, or the end of the connection), implemented by `KernelEvents`.
