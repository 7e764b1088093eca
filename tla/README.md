# A TLA+ model of rust-http-server

The program is an HTTP server with three interchangeable concurrency models
(`single`, `pool`, `select`) over one request parser, one request handler and
one response writer. This directory holds TLA+ modules for the parts whose
behaviour depends on order, timing or failure, the TLC runs that check them and
proofs checked by TLAPS. Paths below are those of the repository
(`src/src/main.rs` here is `src/main.rs` of the crate).

## 1. Inventory

| Component | State it keeps | Operations | Interacts with |
|---|---|---|---|
| `main.rs` `thread_pool` | the item of `listener.incoming()`, `thread_num`, the Vec `ready`, `overloaded` | accept, `recv`, `try_iter`, `send`, dispatch | workers, over the `ready` channel and one channel each |
| `pool.rs` | one thread per worker, its `Host` | `worker`: signal ready, receive a stream, process it | main; `seq::process` |
| `select.rs` | `event_sources`, command channel, `new_commands`, epoll registrations | `next`: poll, handle events, execute commands, resubmit; `check_stream_timeout` | main (two commands), kernel, clients, terminal |
| `main.rs` `select_multiplex` | - | starts the loop's thread, submits listener and stdin, joins | the loop, by commands |
| `seq.rs` | `incremental_request`, 32-byte buffer | `process`: read, parse, handle, write | parser, host, client |
| `main.rs` `single` | one `Host` | accept, process | `seq::process` |
| `http.rs`, parser | `IncrementalRequest` | `try_parse_request` | `seq.rs`, `select.rs` |
| `http.rs`, writer | - | `write_response`, chunking | `seq.rs`, `select.rs` |
| `host.rs` | configuration, a file cache | `handle`: virtual host, heartbeat, path, GET/POST | files, cgi |
| `files.rs` | `RefCell` cache path -> (content, time) | `get_content`, `modified_since` | file system |
| `cgi.rs` | a child process and two pipes | `handle` | scripts |
| `config.rs`, `parse.rs` | - | `parse_server_config`, blocks and directives | start-up of all three models |
| `time.rs` | - | `to_1123`, `parse_date_1123` | `host.rs`, `files.rs`; the chrono library |
| `error.rs` | - | conversions of errors | every `?` |

What is hard in it, and what makes each part correct:

* **Pool.** main drains the `ready` channel into a Vec and sends the numbers
  back while workers send to the same channel. Correct means: a number on the
  list always belongs to a worker that waits; no stream is queued behind
  another; no number is lost or doubled; the `overloaded` verdict is exact; every
  connection is settled unless the pool has been used up by faults.
* **Event loop.** epoll is edge-triggered, sources are taken out of a map while
  they are handled, registrations change by commands that run later, and
  timeouts are commands that submit themselves again. Correct means: the map and
  epoll agree, no edge is lost, every stream being read has exactly one timeout
  check, tokens are never reused, responses are written whole, and the loop does
  not stop.
* **Parser.** Reads end anywhere. Correct means: the result depends on the
  bytes and not on the cuts, and a whole request is recognised with its last byte.
* **Single.** One thread does everything. Correct means: connections are over in
  the order they came, and only an accept error or a panic ends the server.
* **Writer.** Correct means: a client that knows only HTTP decodes what was put
  in, at every chunk boundary, and never waits for bytes that do not come.
* **Files.** A request looks at the file system up to four times, the
  content cache is never revalidated, and the wire has whole seconds. Correct
  means: a 304 is said of the copy the file still holds, a 200 carries a content
  the file held or the worker sent before, and revalidating what was sent never
  panics. Not all of it holds without exceptions: the properties name them.
* **Scripts.** Two bounded pipes between two processes of which the server writes all before
  it reads. Correct means: they wait for each other only if both pipes fill, and
  the answer is what the script printed.
* **Routing.** Links, "..", several virtual hosts. Correct means: what is served
  is below the right document root, and everything below it is reachable.
* **Configuration.** Backtracking over alternatives. Correct means: a file is
  read as a whole or refused, and every block keeps its own directives.
* **Dates.** Correct means: what the server wrote is read back as the same date,
  and no text that is not a date is used as one.

## 2. Modules

| Module | What it is |
|---|---|
| `ConnectionDispatch` | abstract: at most one connection per worker, each given once, workers may be lost |
| `ThreadPool` | main's accept loop and the workers, one action per channel operation |
| `ThreadPoolProofs` | inductive invariant and theorems about `ThreadPool`; that it implements `ConnectionDispatch`, and what counts its workers |
| `ConnectionService` | abstract: connections wait, are read, are written to, are over; a listener that may close |
| `EventLoop` | the loop, its handlers and commands, main's start-up, epoll, sockets, stdin |
| `EventLoopProofs` | types and tokens of `EventLoop`: the base of its inductive invariant |
| `EventLoopSafety` | the layers above it, the theorems about `EventLoop`, and that it implements `ConnectionService` |
| `RequestParser` | `try_parse_request` as functions of what was read |
| `RequestReader` | `seq::process`: reads of any size feeding the parser |
| `RequestReaderProofs` | what the parser has taken of the input and what it waits for: theorems about `RequestReader` |
| `ResponseWriter` | `write_response`, and a client that decodes what it gets |
| `Single` | the sequential accept loop; implements `ConnectionDispatch` with one worker |
| `StaticFiles` | `get_content`, `modified_since` and the 304 of `handle_get`, while files change |
| `StaticFilesProofs` | where contents and dates come from: theorems about `StaticFiles` |
| `CgiScript` | `Cgi::handle`, a script's process and the two pipes |
| `Routing` | `handle_result`: virtual host, heartbeat, document root, path, negotiation |
| `HttpDate` | `to_1123`, `parse_date_1123` and what `handle_get` does with the result |
| `Config` | `parse_server_config` and the start-up of the three models |
| `ScriptExchange` | composes `CgiScript` and `ResponseWriter`: from the body given to a script to the client that decodes the answer |
| `ScriptExchangeProofs` | the flow through the pipes, what is made of the output, and how the response is laid out and decoded: theorems about `ScriptExchange` |
| `HostHandler` | composes `Routing` and `HttpDate`: `Host::handle` up to files.rs |
| `HostHandlerProofs` | what canonicalizing does, where a request is routed, what a date is read as: theorems about `HostHandler` |
| `SequentialServer` | composes `Config` and `Single`: the program from its configuration file to its last connection |
| `SequentialServerProofs` | proofs about both its parts |
| `MC...` | constants and symmetry for TLC |

Definitions whose comment starts with "Mutant:" are wrong on purpose: they are
the variants of the definition below them that show each property can fail.

### ThreadPool

`mainPc` says where main is between `accept` and the end of `pass_to_worker`;
`incoming`, `picked`, `drained`, `overloaded` are the locals `stream`,
`thread_num`, `ready`, `overloaded`. `readyQ` and `streamQ[w]` are the channels.
`workerPc[w]` is `ready` before `send_ready.send`, `recv` before
`recv_stream.recv`, `process` in `seq::process`, `dead` after a panic.
`RecvReady`, `DrainOne`, `DrainEnd`, `ResendOne`, `Dispatch` and
`DispatchAcceptError` are main.rs:93-106 in order, `SendReady`, `RecvStream`,
`Finish` and `Panic` are pool.rs:30-44. What `seq::process` does is reduced to how it
ends: with an answer, an Err, a panic, or never (a silent client). main keeps a
`Sender` of the ready channel, so `recv` blocks and never fails. Dropping a
`Receiver` makes `send` hand the stream back, which closes it (`Dispatch`, first
branch): the theorem `ReadyListSound` shows that branch is never taken.

### EventLoop

`loopPc` is the phase of `next`: `poll`, `events`, `commands`, `resubmit`, or
`stopped` after an Err or a panic, `failed` after an Err of poll, epoll_ctl or the like
that no input causes, `hung` in a request whose handling
does not return (a script that goes on for ever: clients and the kernel go on,
the loop does not), or `reading` inside `read_line`, which was given the beginning of a line and
waits for its end. `sources` is `event_sources` with the kind of
source and, for a stream, its `ConnectionState`; `stream[c]` holds what that
state carries (request pieces read, response pieces left) with the accept
time's age; `tcp[c]` is the client and both socket buffers. `interest` and
`ready` are epoll's registrations and its list of edges not reported: sending,
shutting down, resetting, or making room in a full buffer puts a registered
token on the list, and so does `register` or `reregister` when the descriptor
is ready already. `PollReturns` reports tokens of the list that are still
ready. A handler is one step: no one else reads its socket, so what arrives
meanwhile is either read or a new edge. `queue` is the channel of commands,
`resubmits` is `new_commands`.

The guards `is_readable` and `is_writable`, and the state `Close` of
`handle_stream_event`, have no branch of their own in the model: by
`InterestMatchesState` an event a stream is reported for is one its state waits
for, and no source in `Close` is left when poll is called. The branch "Sending half
of command channel has disconnected" cannot be reached, as the loop owns a
`Sender`. A descriptor that is reported ready by RST is reported with the
direction it is registered for. `read_line` returns one line of a terminal, or,
of a pipe, fills the buffer of `std::io::Stdin` with all there is; that buffer
raises no event. What is typed is a sequence of ends of lines, by what the line is, and of `part`s,
beginnings of lines (a write to a pipe without a newline, Ctrl-D on a terminal). Standard input is
not set non-blocking, so a `read_line` that finds only parts (`WaitForLine`) keeps the loop's only
thread until the line ends; `LineHandled` is its return, at once or later. `AcceptPanics` is `Host::new`
at select.rs:331, which is called for every stream accepted and panics if `CacheSize` overflows.

### RequestParser and RequestReader

Bytes are symbols; one symbol stands for the text of a good request line, one
for each kind of header line, so that every cut around and inside CRLFs, lines
and characters is possible with short inputs. `TakeLine` is the three line
variants of `try_parse_request`, `TakeBody` the last one, `Parse` one call of it. The
code calls itself after each line; `TryParse` is these calls one after the other, as many as
there can be: a line takes at least two bytes, and a call that returned something
leaves it as it is. `RequestReader` lets every read return 1 to `BufSize` bytes. The reference
definition is the grammar, by positions in the input (`Lines`, `IsHeader`, `DeclaredLength`, `Holds`):
it mentions neither reads nor the parser's state, and says on its own which Content-Length counts.

### Single

`Accept`, `Finish`, `Panic` and `AcceptFails` are the body of the `for` loop. What
connections carry is as in `ThreadPool`, and both implement the same abstract
`ConnectionDispatch`: the difference is that here an accept error takes the only worker.

`SequentialServer` puts `Config` before it: the steps of `Single` are possible once
`phase` is `serving` with the model `single`. The other two models go on in `ThreadPool` and
`EventLoop`, whose `Init` are the states `StartPool` and `StartSelect` lead to.

### ResponseWriter

A body is its length, a byte its number, so that a lost, doubled or displaced byte
shows. `Plain`, `Chunk`, `Chunks`, `Chunked`, `TooLong` and `Encode` are `to_string`,
`write_chunk`, `write_chunked` and `write_response`. `Step` is the client: a decoder
written from RFC 7230 and not from the code. The responses are those the callers
can make: `Content-Length` is the body's length plus two, or 0.

`ScriptExchange` joins it to `CgiScript` as `seq::process` does: when the script's `pc`
is `ok` or `error`, `ScriptHandled` makes the response of what was collected and encodes
it; `OtherHandled` are the responses of requests without a script. The thread either
waits for the script or writes, never both.

### StaticFiles

Each worker has a `Host` with its `cache` (`pool`), or each connection has (`select`:
`perRequest`, chosen in `Init`, empties it). `request[h].pc` says which look at the file system is
next: `stat` (`canonicalize` and `metadata`), `condition` (`modified_since`), `content`
(`read_to_string`), `date` (`metadata().unwrap()`). Between any two of
them `Write` and `Remove` may change the file. `writes` is what every write ever made held:
`disk[p]` and `cache[h][p].version` are indices into it. Time is in ticks of which
`TicksPerSecond` make a second, so that `as_secs` loses something. Clients keep every
200 in `copies` and ask with its date, or with any other. `answer` is the output of the last
step, for the properties of steps.

### CgiScript

`pc` is `spawn`, `write` (`write_all`), `read` (`read_to_string`), `ok` or `error`. `stdin`
counts the symbols in the pipe to the script, `stdout` holds those in the pipe from it. The
four styles of script are those that matter to the pipes: one that
reads all first (`uppercase.pl`), one that prints as it reads, one that never
reads (`printenv.pl`), one that never ends. `Section`, `Behind` and `LinesAreFields` are
`process_cgi_output`: the output is a sequence of header lines, newlines, other text
and bytes that are not UTF-8.

### Routing

A path is a sequence of names, `Canonical` walks it name by name with `Entry` (the kernel's
lookup of one name). `pc` is the statement `handle_result` is at, one action for each with its early
return. `"file"` and `"script"` are where `StaticFiles` and `CgiScript` take over. In
`HostHandler` a request that has come to `"file"` has its date parsed by `HttpDate`
before that; `Outcome` is what becomes of it.

### HttpDate

The text is the fields of `Layout`; `at` is the field the parser has come to. `damage` is the
first field that is not as it should be: of other characters, cut short, or with
a character of several bytes across its end; or that there is text behind the last one. `wkday` is the
weekday the text names, if it names one. A slice outside a string
panics, a wrong text is an Err: `Literal`, `Wkday`, `Number` say which it is. Any of the seven names is read,
as `parse_wkday`'s result is not compared with the date, and what follows "GMT" is dropped unread.

### Config

A line is its kind and, for a directive, field and value; `at` is the line that the
rest of the text begins with, `block` the directives of the block being read. `BlankLine`,
`Directive`, `Open` and `Close` are what can be read there, `Unparsable` is the last
`else`. The start of each model follows: `idle` is a pool whose main
waits for workers that do not exist or have panicked. That follows from the guard of one step, and no property
is spent on it. The reference for what is read
(`WellFormed`, `LastOf`, `BlockLines`) counts tags and looks at the text as a whole.

## 3. Runs

| Run | What it asks | Bounds |
|---|---|---|
| `pool` | all safety properties of the pool, that it implements `ConnectionDispatch`, and that every connection is settled | 3 workers, 3 connections of the kinds load, bad, panic and silent, 1 accept error, 1 connection whose worker never returns |
| `loop_streams` | all safety properties of the loop, and that it implements `ConnectionService` | 2 connections, requests of 2 reads, responses of 2 pieces over a 1-piece buffer, 1 event per poll; deadlock is checked |
| `loop_stdin` | what can stop, hang or block the loop, and that it implements `ConnectionService` also when the listener is dropped by an error or closed by a line | 1 connection, requests that panic or hang among them, 2 lines or parts of lines of any kind, every fault of poll, epoll_ctl and accept, a `Host::new` that panics |
| `loop_ends` | `EveryConnectionEnds`: timeouts, partial writes, no stream forgotten | 2 connections that may stop sending or reading anywhere, 2-piece responses over a 1-piece buffer; deadlock is checked |
| `request_reader` | the parser against the grammar | requests with 1 or 2 header lines, 7 continuations each, and each of these with one byte replaced or missing; 3-byte reads |
| `files` | honest 304s, stale 200s, causes of panics | 2 Hosts (of workers, or new for each connection), 1 path, 2 writes or removals in between, 4 ticks of half a second, any date |
| `script_exchange` | who waits for whom, what is answered, what the client decodes | pipes of 3, all bodies of up to 4 symbols and plain ones of up to 8, 8 headers, good and bad, 4 styles, a kill at any moment; chunks of 3, bodies of 0 to 10 bytes, lengths above 8 do not fit a `u32` |
| `handler` | the right file, and all of them; dates read back or refused | 15 paths with 4 links, 4 configurations, all targets of up to 3 of 9 names, both methods, phones or not; 9 days, 12 months, 7 years, times at their bounds; for one date every damage of every field, every weekday's name and text behind it |
| `sequential_server` | what is read and to which host it belongs, how each model starts, and that the sequential one serves each connection once and to the end | all files of up to 5 of 6 lines that show structure and of up to 3 of 12 lines that decide the start, 3 models, 2 connections of 4 kinds, 1 accept error |
| `pool_accept_error` | finding: a popped thread that gets no stream | 2 workers, 2 connections |
| `loop_event_source` | finding: an event without a source | 2 lines |
| `loop_shutdown_line` | finding: `shutdown` not acted on | 2 lines |

Why these bounds: three workers are the least where one is picked, one drained
and one sends, and with three connections all are held at once; what holds for more
is proved. `load` stands for `page` too: its answer is the one that depends on the verdict. Two
connections share every loop structure (batch, queue, token counter), a
response longer than the buffer forces a partial write, and one event per poll
leaves edges on the list. A cut can fall in every place of a request with reads
of 1 to 3 bytes, as a CRLF, a character and a line are at most 3 symbols long.
Bodies of 0 to 10 bytes over chunks of 3 are empty, below, at, one beside and several
times a chunk. Two Hosts are enough to send one's copy to the other; two
writes with a removal let a file change before and between the looks of one request,
and within four ticks two writes fall in one second or in two. Pipes of 3 symbols fill with bodies just
below, at and above one and two pipes; a blank line needs two newlines and text on both sides,
which bodies of 4 symbols have. Five lines hold two blocks, or one with two
directives of a name; three names reach out of a root and into another one.

Deadlock is checked where the loop cannot stop (`loop_streams`, `loop_ends`). Elsewhere it is
off because the system may rest: the pool when all clients of the bound are settled, or when its
faults have used it up (main then blocks in `recv`), the loop when it has stopped, hangs or waits for the
rest of a line, the reader when processing has ended, an exchange when the client has the response or script and
server wait for each other, a handler when it has decided, the sequential server
when it was refused, has ended or is held, a Host when it has panicked.

### Fairness

* Pool: weak fairness of main's steps and of each worker's: they are OS threads
  that are always scheduled again. None for connects, accept errors or silent clients.
  The run `pool` keeps accept errors plus faulty connections below the number
  of workers: with all workers gone main blocks for ever, and the code promises
  nothing more.
* Loop: weak fairness of main's start-up, of the loop (poll returns at the
  latest after `POLL_TIMEOUT`) and of time (`Expire`). None of the clients: a client that
  leaves its response unread is an exception of `EveryConnectionEnds` (`Unread`), since the timeout
  covers only the state `Read`; a loop that hangs in a request or waits in `read_line` is another, as it checks
  no timeout then. `loop_ends` has neither such requests nor lines, with which it is too large, so the
  second exception is not exercised there. The capacity of events in `loop_ends` exceeds
  the number of tokens, as 128 does for the streams of a small server, so no edge
  is passed over for ever.
* Single: weak fairness of the thread; none of accept errors.
* Exchange: weak fairness of the server's thread, of the script's process and of a client that
  reads; none of a kill; a style `hang` has no step. No timeout exists, so
  `StallsWhenPipesFull` needs no fairness.
* Files, routing, dates, reading the configuration: safety only.
* Reader: the client goes on sending and then shuts its side, and the thread runs.

### Findings

1. `main.rs:105` A failed accept costs a worker (`pool_accept_error`); apart
   from that nothing does (`StrandedByAcceptErrors`).
2. `select.rs:385` A line of standard input that is not UTF-8 removes stdin's source
   but not its registration: the next line ends the server (`loop_event_source`).
3. `select.rs:385` Of two lines that arrive together the second is not acted on
   until another arrives, also when it is `shutdown` (`loop_shutdown_line`).

Differences between the code and `src/README.md` that the modules show and no run is spent on:

* `main.rs:99` The heartbeat's verdict excludes the thread picked for the request, and waits for
  one; README.md:13 describes whether one was ready at the accept. `OverloadVerdictExact` states what it is.
* `files.rs:55` The cache grows with every file: `CacheSize` reserves room (`HashMap::with_capacity`) and
  limits nothing, against README.md:63. In `StaticFiles` no action removes from `cache`.
* `files.rs:110` An `If-Modified-Since` later than the file's time panics instead of
  giving the 304 of README.md:63. `PanicHasCause` shows that clients that send only
  dates they were given cause it only if a file gets an earlier time.
* `cgi.rs:104` What a script prints behind a blank line of its body is lost (`AnswerIsOutput` has it as
  an exception), so `www/cgi-bin/uppercase.pl` does not return an input that has one.
* `config.rs:81` A blank line or an indented tag in a `VirtualHost` block is refused
  (`ReadIffWellFormed`), unlike in Apache, whose style README.md:55 names.

What the passing runs show besides, of behaviour the repository says nothing about: a 304 may
be wrong for a file replaced within the second of its date, or between
`read_to_string` and `metadata` (`NotModifiedIsHonest` names both); a worker repeats what it cached
for ever while another sends the new content (`ContentFreshOrRepeated`); an empty file is
announced with two bytes that never come (`CutOnlyIfEmpty`); a body that the pipes do not hold
never gets an answer from a script that prints as it reads (`StallsWhenPipesFull`, exactly
where `EndsUnlessPipesFull` promises none); an index page may be a link out of the document root
(`ServedBelowRoot`); an `If-Modified-Since` is read under the name of any weekday and with any text behind
"GMT", and nothing else but the date as it was written is (`ReadBackOrRefused`, time.rs:24-38); the beginning of
a line on standard input stops the loop until the line ends, streams and timeouts included, and nothing but that
keeps it in `read_line` (`BrokenHasCause`, select.rs:385); a script that is killed is answered with what it had
printed as if that were all (`AnswerIsOutput`).

## 4. Proofs

Every theorem below is proved for all values of the constants, from the named assumptions on them
only. They say of the constants what the code has: `ConstantsAssumption` that sets of kinds are those
the module lists, sizes are numbers (positive where the code has a literal), and that what stands for
"none" is not one of the things it stands beside. Two of them ask for a finite set: the
workers of a pool (a `u32`) and the connections of a run of the event loop (its tokens are counted).
`TextsAssumption` says that a file is a finite sequence of lines of the grammar's kinds,
`WriterAssumption` that a chunk holds at least one byte and that "nothing is returned yet" is not a response.
`TreeAssumption` is what a file system is: "/" is a directory, what is in the tree is in a directory of the
tree, no entry is called "..", and a link is given as what it leads to in the end. `ConfigsAssumption` and
`RequestsAssumption` say that configurations are finite sequences of hosts and that roots and targets are finite
sequences of names; `ValuesAssumption` that the text of a date has two digits, a month's name and four digits
where the code writes them, whether or not such a date exists.

| Module | Theorem | What it states |
|---|---|---|
| `ThreadPoolProofs` | `TypeCorrect` | `Spec => []TypeOK` |
| | `ReadyListSound` | `Spec => []ReadyMeansWaiting` |
| | `NoStreamQueued` | `Spec => []OneStreamAtATime` |
| | `SpareWorker` | `Spec => []SpareWorkerKept` |
| | `AnswerableIsAnswered` | `Spec => []GoodRequestNotDropped` |
| | `AcceptErrorsStrand` | `Spec => []StrandedByAcceptErrors` |
| | `OverloadVerdict` | `Spec => OverloadVerdictExact`, an action property |
| | `ImplementsDispatch` | `Spec => DispatchesConnections`, the refinement of `ConnectionDispatch` |
| `EventLoopProofs` | `TypeCorrect` | `Spec => []TypeOK` |
| `EventLoopSafety` | `SourcesWatched` | `Spec => []InterestMatchesState` |
| | `TokensNameConnections` | `Spec => []TokensUnique` |
| | `ReadersWatched` | `Spec => []EveryReaderWatched` |
| | `ResponsesWhole` | `Spec => []ResponseWhole` |
| | `EdgesKept` | `Spec => []NoEdgeLost` |
| | `BrokenHasItsCause` | `Spec => []BrokenHasCause` |
| | `TimeoutSpares` | `Spec => TimeoutSparesCompleteRequest`, an action property |
| | `ImplementsService` | `Spec => ServesConnections`, the refinement of `ConnectionService` |
| `SequentialServerProofs` | `DispatchesOneByOne` | `ServerSpec => DispatchesConnections`, the refinement of `ConnectionDispatch` |
| | `ReadOrRefused` | `ServerSpec => []ReadIffWellFormed` |
| | `DirectivesOfTheirBlocks` | `ServerSpec => []DirectivesOfOwnBlock` |
| `StaticFilesProofs` | `PanicsHaveCauses` | `Spec => []PanicHasCause` |
| | `NotModifiedHonest` | `Spec => NotModifiedIsHonest`, an action property |
| | `ContentFresh` | `Spec => ContentFreshOrRepeated`, an action property |
| `ScriptExchangeProofs` | `PipesStall` | `ExchangeSpec => []StallsWhenPipesFull` |
| | `GoodScripts` | `ExchangeSpec => []GoodScriptAnswered` |
| | `AnswersAreOutput` | `ExchangeSpec => []AnswerIsOutput` |
| | `ResponsesDecode` | `ExchangeSpec => []DecodesToBody` |
| | `OnlyEmptyCut` | `ExchangeSpec => []CutOnlyIfEmpty` |
| `HostHandlerProofs` | `ServedBelow` | `HandlerSpec => []ServedBelowRoot` |
| | `OwnFilesReached` | `HandlerSpec => []OwnFilesReachable` |
| | `DatesReadBack` | `HandlerSpec => []ReadBackOrRefused` |
| `RequestReaderProofs` | `FullRequestIsSpelt` | `Spec => []FullRequestIsTheOneSent` |
| | `WholeRequestIsNotWaitedFor` | `Spec => []NoWaitOnWholeRequest` |
| | `OnlyCutsRefuseWholeRequests` | `Spec => WholeRequestRefusedOnlyByCut`, an action property |

### The pool

That a popped number belongs to a waiting
worker needs that the number was in one place only (`NumbersUnique`): otherwise
main could give a stream to a worker and still hold its number. That `RecvStream`
keeps it needs `OneStreamAtATime`; that the locals are where the code left them
is `MainControl`; `SpareNumber` is `SpareWorkerKept` in terms of numbers. `IInv`
is their conjunction. The lemmas on sequences (`InAppend`, `InHeadTail`,
`DistinctAppend`, `DistinctTail`) say what sending and receiving do to the set
of numbers in a channel.

The refinement adds `CInv`: a connection nobody has opened is nowhere
in the server, and main does not hold one of the backlog; without it an
arrival could be a connection that is being served. One lemma per action then says
which step of the dispatcher it is: `Connect` is `Arrive`, `Dispatch` is
`Assign`, `Finish` and `Panic` are `Settle` and `Crash`, `DispatchAcceptError` is
`Retire`, the rest stutter. That a popped worker is neither dead nor stranded,
which `Assign` asks for, is `IInv`, as is that `send` never fails in `Dispatch`.

`AcceptErrorsStrand` follows the set `Stranded` through every action: only `DispatchAcceptError` adds
to it, the picked worker, which was not in it. `OverloadVerdict` is a step of `DrainEnd`: the workers
that wait without a number on the list are the stranded ones, so their number is that of the accept
errors exactly if the list was empty.

### The event loop

The invariant has four layers, each kept by every step given those before it:

1. `Base`: the types; tokens are given out in the order of the counter and each to one connection; a
   connection in the backlog has none yet, and there are enough for all; sources and commands are about
   connections that have been accepted.
2. `Commanded`: a source is submitted once and not registered before; its timeout check is in the
   channel behind it; a stream being read has one check, in the channel or to be resubmitted; of the
   commands that change a registration none outlives its iteration.
3. `Watched`: `InterestMatchesState`, and what it needs: a stream that is being read has no `modify`
   pending, and epoll's list and the batch hold registered sources only.
4. `RequestsPartial`: a stream in `Read` has less than a whole request, one in `Write` has of its response
   what is not written, one that is closed as answered has written all.

`NoEdgeLost` is inductive on top of the first three. `BrokenHasItsCause` needs beside them that every way to stop leaves its cause
behind (the source of standard input gone while its descriptor is watched, a request sent, a stream in the backlog), and `LineAwaited`
for a wait in `read_line`. `TimeoutSpares` is a step that needs all: a check that
closes a stream with a complete request runs when the batch is empty, so the edge of its last bytes,
which `NoEdgeLost` promises, is on epoll's list.

`Phase` maps the loop to the service: a connection waits while it is in the backlog, is written to while its
source is `write` or `close`, is over when its stream has ended. `Connect` is `Arrive`, `AcceptAll` is `Accept` of the whole
backlog, `AcceptFails` and `CloseListener` are `StopListening`, `ReadFullRequest` is `Answer`, `CloseStream` of
a source in `Close` is `Complete`, every other way to drop a stream is `Cut`, and the other actions
(part reads and writes, commands, epoll, standard input, time) stutter: `OthersStutter`.

### The sequential server

`ConnectionsInv` says that the thread holds a connection exactly while it processes one, and that a
connection is in one place. `ConfigInv` says of the lines read so far what the
properties say of the whole file: as many tags opened as there are hosts and an open block, no line
where it is not allowed, and every directive, of the server, of the block being read and of each
host, the last of its lines (`LastOf`). The lemmas `...Kept` show what one more line does to each
set of lines; `Nth` names the host of an opening tag by the number of tags up to it.

### Files

`FilesInv` says where contents and dates come from. What a cache holds was sent by its own worker;
a date was given of a write that its path held and, if the path has a file, not of a later one than that
(`NoLaterThan`, the part without which `PanicHasCause` is not inductive: a client may revalidate
a copy of a write that has not been made). `UnmodifiedInSecond` is the arithmetic of
`modified_since`: the two comparisons in whole seconds leave only the second of the date.

### Scripts

`HandlerInv` counts: every symbol of the body is taken, in the pipe or left to write; every symbol
printed is in the pipe or collected (`Flow`). With the pipes overfull, `left = 0` would need more symbols in them than
they hold (`StuckWriting`), so the server never gets to read. `Parsed` and the lemmas on `Break`,
`Section` and `Behind` give the two theorems on answers; that a set of
positions has a least one is `LeastNatural`, from well-foundedness. `PipesStall` needs no fairness, and the others none
of the bodies or headers that the run enumerates.

### Responses

First the layout, without a state. `FlattenSeq` is the last of the concatenations of the first 0, 1, 2... pieces
(`PrefixesExist`, `FlattenIsLast`; the least one that differs would be made from one that does not), and each
begins with those before it (`PrefixesGrow`). With that `ChunkedLaid` says of an encoding of any
length what a reader needs: it has boundaries, a position and the bytes before it, and from
each a chunk leads to the next boundary, or an empty one to the end (`LaidOut`). `PlainLaid` does the same for a
response that is sent whole.

`WriterInv` then says that what the client has read, what is on the wire and what is unsent make up the encoding, and
where the client is for the number of items it has read (`ClientAt`): in which chunk and how far in it
(`InChunk`), how far in a plain body (`PlainRead`), or waiting for a size that never comes because the script said
"chunked" (`MislabelledRead`). One lemma says for each that the next item takes the client on, and
`ClientEnds` that the input ends early only where `CutOnlyIfEmpty` allows it. That
the body is the one the handler returned needs `HandlerInv`: the script has ended by then, and nothing changes `response`.

### Routing

`Canonical` is a recursive function on the positions of the names. That it has values is shown once: walks
over the first 0, 1, 2... names exist, as each is made from the one before (`CanonicalEndsWalk`, with `UpTo`, which
is `LeastNatural` turned round). After that a fact about every name on the way is a set of
positions that `UpTo` fills: the walk stays in the tree (`CanonicalInTree`), and along the names of a path of the tree it
comes to that path, or to what the link at its end leads to (`CanonicalOfTree`). `RouteInv` follows the request through
the stages: the host is the first that fits, `root` is the directory of its `DocumentRoot`, `path` lies below it
because `ParsePath` compared what it had canonicalized. From there content negotiation takes one name more
(`IndexOf`): a child of a directory below the root, or what a link in its place leads to, which is the
exception in `ServedBelowRoot`. `OwnFilesReachable` needs that a file of the root is its own canonical path
(`OwnFileIsTarget`). `WrittenRoot` says what the root of both properties is: the directory as it is
written, or what the link in its place leads to.

### Dates

`DateInv` says of each position of the text what was read: the value's own numbers, for the fields before it, and that the
damage is not behind it. `TwoDigitsReadBack`, `FourDigitsReadBack` and `MonthsReadBack` say that what `Digits` and `Months` write
is read as the same number, for all of them; `LayoutIs` which field is at which position. A date that exists is
never a cause of a panic, and a text with a damaged field never gets past its damage, nor one that names no weekday past its first field.

### The parser

What the parser keeps is a piece of the input (`Between(m, p)`: it has taken m bytes of the p that were read), so that
one invariant in positions serves all variants: `Taken` says what the first m bytes are, for `RequestLine` and `HeaderLines` that
they are n lines with the Content-Length that counts so far, for `Body` that they are a header and a part of its
body. `Reached` adds what is kept, `Waits` that there is nothing to be done without more bytes: no end of a line, or no
byte of the body. One lemma for each kind of call (`RequestLineTaken`, `HeaderLineTaken`, `BlankLineTaken`, `BodyTaken`)
shows that it goes from one such state to another, with less kept; or that it refuses, and then either no request begins the
input or the text was cut within a character (`CutRefuses`). `CallAgain` counts: after one call more than there are
bytes the last one has returned (`TryParseComes`). So the invariant of the reads is `Reached` with `Waits`, and that no
read so far ended within a character of a text that is one, without which `WholeRequestRefusedOnlyByCut` cannot be shown.
`OneHeader`, that a text has one number of header lines, gives `NoWaitOnWholeRequest`: a whole request with other lines
than those taken would have an end of a line in what is kept.

### What the attempts showed

* `NoEdgeLost` had to say that the loop does not hang in a request: what arrives at the stream whose
  handling hangs stays unread without an event. The run `loop_streams` has no such request.
* `BrokenHasCause` is inductive only with what `read_line` has consumed: `LineAwaited` says that a loop that
  waits with nothing more typed was last given the beginning of a line.
* `AnswerIsOutput` excepted killed scripts. It need not: what is parsed is always what was printed (`Parsed`),
  whole or not, so it now says that a killed script's cut output is answered as if it were whole.
* `AnswerIsOutput` stood for headers of one symbol a line. With longer lines output can have no blank line
  at all, and it is answered 200 with an empty body (`cgi.rs:85-108`: the second section is missing):
  `NoBlankLine` names it, and the run `script_exchange` has such headers.
* `ServedBelowRoot` and `OwnFilesReachable` need more of a tree than what the run's trees had by chance:
  that no entry is called ".." and that the root is a directory are now in `TreeAssumption`.
* The grammar of a request was bounded by the longest list of header lines; by positions it needs no bound, and the
  theorems speak of requests of any length.

### Only model-checked, and why

* Liveness (`EveryConnectionSettled`, `EveryConnectionEnds`, `EndsUnlessPipesFull`, `ProcessingEnds`,
  `SettledUnlessHeld`) is out of the prover's reach.

Every other property of a passing run, invariants, action properties and refinements, is stated by a theorem.

## 5. What is left

Every component that keeps state is modelled, and its safety is proved. What could be added:

1. One composition of `ThreadPool` with `RequestReader` and `HostHandler` in place of the outcomes it has now. Its safety
   would follow from the theorems about the parts; as a run it is too large to check.
2. `EventLoop` with `RequestParser` for what a stream has read: the theorems about `TryParse` do not depend on who
   reads, but `EventLoop` counts the pieces of a request and does not name them.
3. Liveness, should a prover become able to reason about ENABLED: the invariants proved here are the ones such proofs need.

## 6. Not modelled, and why

* Wording of log lines and header texts, the environment variables of scripts, the
  types of content (`files.rs:81-91`): no state or control depends on them.
* `error.rs`: conversions; each error path is in the module that takes it.
* The example pages and scripts under `www/`, except for how the two scripts
  treat their input.
* A response's pieces are counted in `EventLoop`, not named; what they hold is
  `ResponseWriter`'s. What handling a request does is an outcome in `ThreadPool`, `Single` and
  `EventLoop`; `StaticFiles`, `CgiScript` and `Routing` show which outcomes there are.
* `POLL_TIMEOUT` and `STREAM_TIMEOUT` have no length: time is an event that may come
  at any moment. Handling of a request is one step of the loop, as no other step
  of the loop can happen meanwhile.
* Unread input at a close, on which the kernel discards what it has not sent, is
  left to the kernel.
* Files with a time before 1970, on which `duration_since` fails. A file that is
  rewritten in place is a write for every content a reader can see. A cache so large
  that it cannot be allocated, which aborts the program.
* The tree of files does not change while a request is routed; `.`, empty names and targets
  that do not begin with "/" are left out of the targets.
* A port that cannot be bound, which ends start-up like a missing `Listen`.
* Zombies: the kernel's process table is not modelled, but `spawn` may fail at any time.
