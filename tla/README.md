# A TLA+ verification of logsvc

logsvc is "log as a service": applications link a client library, *open* a log
file on a daemon over TCP and send it lines; the daemon writes all files, so
that several processes can share one log.  This directory holds TLA+ models of
the daemon and of the client library, the TLC configurations that check them
on small instances, and theorems about them checked by TLAPS.

Paths below are relative to `src/src/` of the repository.

## 1. Inventory

| Component | State it keeps | Operations | What is hard |
|---|---|---|---|
| Protocol objects (`log/`) | a request's or reply's fields | header and payload coding, `act` on an executor | integer widths and signs, lengths |
| `RealSession` (`logsvc_daemon/`) | handle counter, path -> handle, handle -> file, client name, address and handle | open, close, write, set client info, disconnect | two maps that must agree; partial failure of an open |
| `LogFileCollection`, `LogFile` | path -> `weak_ptr` to the `LogFile`; a path and a mutex | share or make a file; create, append | expiry of shared objects; silent stream errors |
| `DefaultClientHandleFactory` | an atomic counter | next client handle | wrap-around |
| `DefaultSocketSession` | a `Receivable` half received, its executor | header, payload, action, reply, next header | asynchronous callbacks, the final message |
| `SessionInitiator`, `DefaultSessionFactory`, `main` | live sessions by socket | accept, drop sessions whose connection is lost | destruction from inside a callback; leaks; re-arming |
| `DefaultSocket` (`network/`) | write queue, its active flag, idle work, listeners | async read and write, keep-alive, completion handlers | two threads on one socket; callbacks that destroy the caller |
| `DefaultSocketAcceptor` | an acceptor, its listener | accept | -- |
| `DefaultConnection` (`logsvccpp/client/`) | socket, current promise, half received reply, a mutex locked by one thread and unlocked by another, threads | send, completion callbacks, destruction | interleaving of sender threads and the `io_service` thread |
| `HostConnectionFactory`, `IOServiceSingleton` | one `io_service` and its thread per process | connect, run | the thread that is not restarted |
| `LocalClient`, `ConnectedLogFile`, `Host`, `Log` | client handle, file handle, error string | connect, open, write, close, disconnect | errors in destructors, shared handles |
| `OutStream` | a buffer, a `Log` | flush a line | partial failure of a flush |
| `DefaultTimestampFactory` | none | format the local time | rounding up to a thousandth millisecond |
| C and Python bindings (`logsvcc/`, `logsvcpy/`) | a pointer | forward | exceptions over a C boundary |
| Programs of the system tests (`systest/`) | a log, lines to say | open, log, close, end | what they end with when something fails |

How they interact.  An application calls `Log::logln`; `ConnectedLogFile`
makes a protocol object and gives it to `DefaultConnection::send`, which starts
a thread that takes the connection's mutex and writes to the `DefaultSocket`.
The process's one `io_service` thread runs the completion handlers, reads the
reply and releases the mutex.  In the daemon, a single thread runs
`io_service::run`: `SessionInitiator` accepts sockets and keeps a
`DefaultSocketSession` for each, which reads a header, then a payload, lets the
protocol object act on its `RealSession`, writes the reply, and reads the next
header once that write has succeeded.  The sessions share the
`LogFileCollection` and the client handle factory.


What makes each component correct, and where it is stated:

| Component | Correct when | Property |
|---|---|---|
| `RealSession` | a handle names one path for good; lines of a client come in brackets of "opened" and "closed" | `HandleNamesPath`, `Bracketed`, `OpenIffUnclosed` |
| `LogFileCollection`, `LogFile` | at most one object, and so one mutex, per path; nothing written is lost | `SingleFileObject`, `AppendOnly` |
| `DefaultClientHandleFactory` | no two clients share a handle | `ClientHandlesUnique` |
| `DefaultSocketSession` | one execution and one fitting reply per request, none after the final message | `OneReplyPerRequest`, `NoLineAfterDisconnect`, `OnlyDisconnectEnds`, `RequestAnswered` |
| `SessionInitiator` | every client gets a session, and every session ends | `ConnectionServed`, `SessionReaped` |
| `DefaultConnection` | a future gets the answer to its own request, once; nobody waits for ever | `ReplyCorrelation`, `OneOperationAtATime`, `ResolvedOnceUnlockedOnce`, `KeepsRequestReply`, `EverySendResolved`, `DestructorReturns` |
| `HostConnectionFactory`, `IOServiceSingleton` | a connect ends, a connection is born on a running `io_service`, the process can end | `ConnectReturns`, `FreshConnectionIsRun`, `ExitReturns` |
| `DefaultSocket` | messages of any threads go out one at a time, in order, and every listener hears the truth of its own | `OneWriteAtATime`, `WrittenInOrder`, `ToldTheTruth`, `NothingStranded`, `OnlyTheOvertakenMissTheFront`, `OnlyTheCaughtTouchFreed`, `EveryListenerTold` |
| Protocol objects | what is read is what was written, both ways | `BothWaysSurvive` |
| `RealSession`, `LocalClient`, `ConnectedLogFile` on data | a log says what was said, a refusal has its reason | `LogSaysWhatWasSaid`, `RefusedForAReason` |
| `DefaultTimestampFactory` | stamps are in the order of the times | `StampsFollowClock` |
| `ConnectedLogFile`, `Host` | the caller is told the truth about every line | `AtMostOneLineInDoubt`, `LogStaysOpen`, `NoFileLeaked`, `RefusedCloseHarmless` |
| `OutStream`, bindings, programs | who ends well has its whole story in the log | `ExitMeansLogged` |

## 2. Modules

    SessionFiles ----- Daemon        what executes requests / what receives them
               \
                ----- ClientLog ----- Programs

    RequestReply <== DefaultConnection ----- ConnectionLifetime ----- HostConnectionFactory

    ProtocolObjects, Timestamps ----- Dialogue

    DefaultSocket

`----` is EXTENDS, `<==` is refinement.  The theorems about a module `M` are in
`MProofs`, which EXTENDS `M` and the proofs about what `M` is built on:

    SessionFilesProofs ----- DaemonProofs
                      \
                       ----- ClientLogProofs ----- ProgramsProofs

    DefaultConnectionProofs ----- HostConnectionFactoryProofs

    DialogueProofs              DefaultSocketProofs

The `MC*` modules hold symmetry sets, definitions of constants, and bounds and
initial states narrower than the specification's.

**SessionFiles** is the executor side of the daemon.  A step is one `act()` of
a protocol object on a `RealSession`, with all that it calls:
`get_filehandle_for_path`, `LogFileCollection::open_file`, the constructor and
`write` of `LogFile`.  Variables carry the names of the members
(`open_filehandles`, `open_files`, `file_handle_counter`, `handle_counter`);
`collection` is the map of `weak_ptr`s, and a `LogFile` is alive as long as
some `open_files` holds it, which is what `shared_ptr` does.  An open has four
outcomes, one action each: the session has the file, another session keeps it
alive, it must be made, or `filesystem::exists` throws.  A line is reduced to
who wrote it and of what kind it is.

**Daemon** adds what brings requests to the executors: the acceptor and
`SessionInitiator`, the sockets and the `DefaultSocketSession`s, and clients
that speak the protocol and may vanish at any point.  The daemon's one thread
makes a completion handler one step.  The loss of a connection is three steps,
since the session is destroyed by a call that the socket it owns is making.

**DefaultConnection** has one step for each access of a sender's thread or of
the `io_service` thread to what the two share: mutex, promise, write queue and
its active flag, idle work.  `async_write`, `async_read` and `keep_alive` are
cut where another thread can come between; the order of their statements is
kept.  `RaceOnIdleWork` is the data race on `idle_work` (two threads resetting
one bare `unique_ptr`): the two resets in either order, or the end of the
process.  The daemon appears as a queue of requests and one of replies, the
network as a flag.

**ConnectionLifetime** adds the destructor of `DefaultConnection` and of its
socket, run by an owner who has waited for all futures he has.

**HostConnectionFactory** makes those connections, one after the other, on the
process's one `io_service`: `create_session` with its `async_connect`, the
thread `make_sure_it_runs` starts once, the handler that keeps the new socket
alive, and the exit of the process, which joins that thread.  A connect under
way is work that keeps `run()` from returning.  The history variable `fresh`
says that nothing has been sent yet on the connection there is, whatever was
sent on those before it.

**RequestReply** is the abstract specification of a connection: requests are
asked, served one at a time, executed at most once, and resolved by a value
only if executed.  The mapping takes `serving` to the promise held while the
mutex is locked, and `taken` to the sends whose threads have got the mutex.

**DefaultSocket** is the socket as its interface offers it: `async_write` from
any number of threads, with no mutex above it.  The queue is guarded and the
flag is atomic, the two together are not, so each access is a step:
`add_to_write_queue`, `exchange_active`, `write_front`, and in `handle_write`
the pop, the clearing of the flag, the listener's call, after an error that of
the state listeners, and the look at what is left.  `~DefaultSocket` waits for
nobody, and neither do those who call it: the daemon destroys a socket in what
its own handler calls, the owner of a `DefaultConnection` as soon as a future
is set.  So `BeginDestruction` may come at any step of any thread.  What is in
a call then, and the handler of a write that the destructor cancels, may go on
with an object that is gone (`touch_freed`), where the model ends.  The flag
`were_dying` is no help, being a member of that object: a handler may find it
as it was left (`handle_write_Dying`) or not.  Two history variables, `caught`
and `touched`, say whom the destructor found at it and who came too late.

**ClientLog** is the library an application sees: `Host`, `LocalClient`, and
`Log`s, against the executors of `SessionFiles`.  Calls block, so a process has
one request under way; its future gives the reply, or throws if the connection
was lost before or after the request was executed.  Constructors and
destructors are actions: what a destructor sends, what it ignores, and where an
exception that leaves it ends the process.

**Programs** puts the programs of `systest/` on top of `ClientLog`: those for
C++, C, Python, `OutStream` and those that only make objects.  A program is a
record of how many lines it says, whether through a stream, and what becomes of
it when the log does not open or a line is not written (`main` catches, the C
boundary does not, the stream swallows, Python raises).  The steps are those of
`ClientLog`, taken in the program's order.

**ProtocolObjects** is the coding of all nine types.  `Base` stands for 256,
four bytes are four bytes, and units such as the type's four characters are
one element of the stream.  `Message` decodes its handle from plain chars, and
so does the model (`DecodeChars`).  A header that is not understood gives an
exception in place of a `Receivable`.

**Timestamps** is `DefaultTimestampFactory`: from day, second and microsecond
to the fields that are printed, with `to_ms` and its rounding.

**Dialogue** composes the two: a client's requests are coded onto one
`ProtocolObjects` stream, read and acted out on the session, whose reply is
coded onto a second stream (an `INSTANCE` of the same module), read and acted
out on `LocalClient` or `ConnectedLogFile`, down to the exception that the
caller gets.  Where `Daemon` has the control of a conversation, this has its
data.  A session is alone in it.  A file may fail when it is opened: at the
paths in `Unopenable` the constructor of `LogFile` may throw, now or later, and
`File::act` then answers with a nack when the path has its handle already.

PROJECT.json ("map") gives, for every definition, the lines it stands for.

## 3. What the runs check

| Run | Instance | Shows |
|---|---|---|
| `session_files` | 2 sessions, 2 paths, 3 requests each | all properties of `SessionFiles`, over all orders of requests, refused opens and sessions that end |
| `daemon` | 2 clients, 1 path, 3 requests between them | each request is executed once and answered by its own reply; nothing after a Disconnect, nothing else silences a session; clients are accepted and answered, sessions reaped; the daemon implements `SessionFiles` |
| `connection` | 2 connections one after the other, 3 sends, a break anywhere, destruction, exit | the properties of `DefaultConnection`, its refinement of `RequestReply`, the end of every connect, send, destructor and of the process |
| `default_socket` | 3 threads that write, a break anywhere, destruction at any step | one write at a time in the order of the queue, nobody forgotten, and whom the destructor can hurt |
| `dialogue` | 1 client, 5 requests, `Base` 4, 3 paths: one that opens, one that may fail to, "invalid path" | framing and coding at the boundaries of bytes and signs in both directions; logs, refusals and time stamps |
| `client_log` | 1 application, 2 Logs, 2 paths, 2 connections, 5 requests on each; or 2 programs on one file | what the library tells its caller, that Logs stay open, and what the end of a program means |

and those that find a disagreement of the code with what the repository says
of it (one property each, violated; section 6):
`acked_is_written`, `session_leak`, `loop_over_dead_set`, `keep_alive_lost`,
`destroyed_in_handler`, `message_handle`.

Every property of a passing run has a mutant in PROJECT.json: a mapped
definition changed as a plausible bug would change it, under which TLC finds
the property violated.

### Bounds, and why they are enough

- *Sessions* (2): sharing and expiry of a `LogFile`, and uniqueness of
  handles, are about pairs.  The theorems hold for any number.
- *Paths* (2): what could be mixed up is one path with another.  `daemon` has
  one path: that two do not mix is checked and proved of `SessionFiles`, which
  it implements.
- *MaxActs*, the requests of a session: three reach close, reopen and refused
  open in every order.  In `daemon` the two sessions have three between them,
  and `Brief` names the one that makes no more than one of these: open, write
  and Disconnect of one, or two of one while another comes and goes.
- *Programs*: either one application that does anything, with `MaxAnyActs` 5
  (describe, open, open, close, write: what a second Log on a path needs to
  find its file closed by the first), or two programs, of which one is
  `loglinetofile`, that say two *Lines* each to one file, with at most one
  connection lost.  Which of the two loses it, and when, is free.
- *HandleMod* stands for 2^32: just large enough for the sessions and paths
  there are, so that an off-by-one in a counter collides.  The assumption that
  there are fewer sessions and paths than an unsigned counts is
  `WidthAssumption`.
- *Send* (3): a thread in the handler's request, one at the mutex, one to come.
  *MaxConnects* 2: the connection that is, and one after it.
- *Write* (3): two threads at odds while a third overtakes them, or is caught
  by the destructor.  The theorems hold for any number.
- *Base* 4: two values of a byte are negative as a char, two are not.  The
  handles that `dialogue` begins with, and their successors, lie about powers
  of the base and about their halves, where the sign changes.
- *MaxObjects* 5: describe, open, write, close, leave; framing itself is about
  an object and its successor.
- *Clock*: times about the last half millisecond of a second, the change of a
  minute and the end of a day; the theorems hold for all times.

`CHECK_DEADLOCK FALSE` everywhere: requests are bounded, clients leave,
objects are destroyed, and then nothing is left to do.

### Fairness

- `Daemon`: weak fairness of each session's handlers (`io_service::run`
  dispatches every completion) and of a client reading the reply it waits for.
  None on connecting, sending or closing: clients owe the daemon nothing.
- `DefaultConnection`: weak fairness of each started sender thread (the
  system's scheduler), of the `io_service` thread, and of the kernel and the
  daemon, which handle what they are given.  None on sending and on breaking
  of the connection.  `EverySendResolved` allows for the ends of
  the process and of `run()` that the findings describe, and for nothing else.
- `ConnectionLifetime` adds the destructor going on once it has begun,
  `HostConnectionFactory` the application going on in `create_session` and in
  the exit, and the `io_service` thread starting and finishing a connect.  None
  on connecting or exiting in the first place.
- `DefaultSocket`: weak fairness of each writer in `async_write`, of the
  `io_service` thread and of the kernel.
- The other modules state safety only.

## 4. What is proved

By TLAPS, for all values of the constants that satisfy the named assumptions.

**SessionFilesProofs** (`FiniteAssumption`, `WidthAssumption`,
`SentinelAssumption`, `BoundAssumption`).  Type correctness first.  Each safety
property then has its own strengthening, proved on top of it:

- `OneFilePerPath`: `CollectionCurrent`, every open file is the one the
  collection's entry of its path points at.  Without it a `LogFile` could
  outlive its entry and a second be made beside it.
- `HandlesNamePaths`: `HandlesCounted`, the counter is one more than the number
  of handles given out, which are all below it; so a fresh handle is fresh as
  long as paths do not outnumber an unsigned.
- `UniqueClientHandles`: `ClientsCounted`, the same for the factory's counter
  and the sessions created.
- `LogsOnlyGrow` (an action property): `LinesExist`, a log that has a line
  exists in the file system, so the constructor does not truncate it.
- `LinesBracketed`: `HeldIffOpen` says of every session that has not ended,
  those not yet created included, that it holds just the files its lines say
  are open; the brackets follow by cases over who writes which line.
- `HeldAsWritten`: the two directions of `OpenIffUnclosed` are `HeldIffOpen`
  and `Bracketed`, with the sessions already destroyed left out.

**DaemonProofs**: `DaemonImplements`, every completion handler is a step of
`SessionFiles` or leaves it alone (the one fact needed of the network is that
what is on the wire is a request: `WireOK`); and `DaemonKeepsLogs`, so
the theorems above hold of the daemon.

The rest of it is what a client and its session know of each other.  The
invariant `Conversation` says where a request can be, `Untouched`,
`HeaderRead` or `Executed`, each with what is then on the wire, in the outbox
and in the counts of both ends (`ClientKnows`), and which of these the
operation under way in the session leaves possible (`SessionKnows`).
`OneReplyEach` and `SilentOnlyAfterDisconnect` follow.  `LeaveInv` adds
that a session whose "disconnected" line is in a log will execute no request
again, from which `DisconnectIsFinal` follows.

**ClientLogProofs** (any number of applications, Logs, sessions and paths).
`ClientImplements`: what applications do reaches the daemon only as steps of
`SessionFiles`, so its theorems hold whatever becomes of the clients.  What a
caller is told rests on `ClientInv`, which has four parts: `Standing`, what an
application's call says of its `Log` objects, whatever becomes of the
connection; `UsersApart`, no session has two users; `Served`, while the
connection lasts, the request on the wire is that of the call, the reply one
that fits it, and every open `Log` has the handle of its path, with a file
under it unless another `Log` closed the path; `WiresInUse`, what is on the wire
outlives its application but not its session.  None is inductive alone: that a
`Log` finds its file needs the handle in the request to be its own, which needs
that nobody else writes to the wire.  `LogsStayOpen`, `NoLogNoFile` and
`OnlyLossKills` follow.  `DoubtInv` counts besides, for each session, the
lines in the logs against the calls that returned: equal while no call is under
way, one more while the reply to a `Message` is, and one in doubt for good if
the connection was lost in between.  `OneLineInDoubt` follows, where
`Unwritable = {}`: with a path that cannot be written it is false, which is
finding 1, and the theorem says so in its hypothesis.

**ProgramsProofs** (any number of programs, of any front, and of other
applications beside them).  `ProgramsAreClients`: a program takes the steps of
an application of `ClientLog`.  `ExitsAreLogged`, again where
`Unwritable = {}`: a program that ends well has its story in its log.  That is a
property of the last state of a program, and its invariant `StoryInv` has to say
for every stage what the log looks like then: `Unconnected`, `OpeningLog`,
`LogOpened` (one "opened" and as many messages as were said, after it), and
`LogClosed`; and that no other session has the program's as its own, so that
nobody adds to what it wrote.  `DoubtInv` gives the count of messages.

**DefaultConnectionProofs** (`NobodyAssumption`; any number of sends).  The
safety properties are not inductive, since mutex, promise, queue and reply
change hands between threads.  `IInv` says in which of five *phases* the
connection is, and what all its parts look like there: free, or held by one
send that is starting its write, writing, reading, or resolved and not yet
unlocked.  In each phase at most one request or reply is under way, and it is
that of the promise held.  `TypeCorrect`, `RepliesCorrelated`,
`OperationsAlternate` and `PromisesSetOnce` follow.  `Once` says besides that a
request is executed, on the wire or not yet sent, and only one of these; with it
`ConnectionImplements` shows each step to be a step of `RequestReply` or a
stutter.

**HostConnectionFactoryProofs** (`ConnectsAssumption`; any number of
connections after one another).  `FactoryInv` adds to `IInv` what one
connection leaves to the next: once its socket is gone the `io_service` has
nothing of it but the end of one handler and no send waits (`LeftBehind`), a
connection is made only when the one before is gone, and from the handler of
the connect to the first send `run()` idles and goes on (`Idling`).  So a step
of a connection that dies is as harmless as one of a connection that lives, and
`FactoryTypes`, `FactoryCorrelates`, `FactoryAlternates`, `FactoryPromises` and
`FactoryImplements` restate the theorems of one connection for all of a process;
`FreshIsRun` is the factory's own: `Idling` holds of every connection from its
making to the first send on it, though sends on earlier ones have come and gone,
since by then all their threads have ended.

**DefaultSocketProofs** (any number of threads).  The inductive invariant has
eight parts.  `OneOwner`: the flag has one owner, a thread at the front, the
write under way, or its handler until it clears the flag.  `Queue`: each
message is queued once, by the writer that has got that far.  `SentIsPopped`:
what was sent is a beginning of the queue, and what was popped until the
connection breaks.  `HandlerKnows` and `Told` tie a handler to the message it
has popped and a listener to its own.  With `Types` and `NothingStranded` these
are preserved together, and give `WritesAlternate`, `QueueOrder`,
`ListenersToldTheTruth`, `NoMessageStranded`, `OvertakenMiss` and
`DestructorHurtsTheCaught`.  The last of these rests on `Freed`: once the
destructor has begun, each writer in a call was found there by it; and where it
found nobody, the handler is in no call and no write is under way.

**DialogueProofs** (`BaseAssumption`, `MaxAssumption`, `TextAssumption`,
`NumberAssumption`, `ClockAssumption`; any even base of a byte, any number of
requests).  Its assumptions on data are what the code takes for granted: a name,
path, text or reason is made of bytes, and four bytes count its length with what
precedes it; and four bytes are enough for the handles of a session.  `Coding`
is about one object: for each of the nine types, what is written is a header and
as many units as it announces, and what is read of them is the object.  It rests
on `WordCoding` (four digits in the base make up the number, by `DivOfDiv`),
`PlainCoding` (so does `Message`'s own decoding, if the lower three are not
negative as chars) and `TakeApart` (two sequences put together come apart
again).  `SameCoding` carries it over to the `INSTANCE` of the second stream.

The three invariants about whole conversations need more than the coding, since
a reply is only understood by who knows what was asked.  `DialogueInv` says that
the two ends take turns, so that at most one object is on its way, as a whole or
as the payload of the `Receivable` that waits (`TakeTurns`); that the request
fits where the client stands (`Fits`), the reply the request (`Served`), and
that client and session agree on the file that is open (`KnowEachOther`); that
`file_path` is that of the last file asked for (`PathKept`); that the session
knows the client's name (`Introduced`); and where an exception came from
(`Refusals`).  Steps are first shown to keep the turns (`RequestTurns`,
`HeaderTurns`, `ServeTurns`, `ReplyTurns`), then what they do is told apart by
type of request (`ServeOutcome`, `ReplyOutcome`).  `AllIsReadAsWritten`,
`LinesAreWhatWasSaid` and `RefusalsHaveReasons` follow, the latter with three
reasons: the name that means none, a path in `Unopenable`, a misread handle.
`Counting` is the lemma that the request carried out last wrote the last line.

Of the stamps: `FormatKept`, a stamp has its format exactly outside the
last half millisecond of each second; `StampsOrdered`, by the monotony of
`to_ms`, of the stamp's fields as a number, and the invariant `LinesStamped`
that every line has the stamp of a time of the clock.

Inductive invariants were checked by TLC on the instances of section 3 before
they were proved, as far as TLC can evaluate them, and each theorem on a property
is of the very definition the run checks.  The types of a connection
(`TypeCorrect`, `FactoryTypes`) are proved alone: no change of the code that a
compiler lets pass would break them, so no run checks them.  Every safety
property of a passing run, and every refinement, is proved.

## 5. What is only model-checked

- Liveness (`RequestAnswered`, `ConnectionServed`, `SessionReaped`,
  `EverySendResolved`, `DestructorReturns`, `ConnectReturns`, `ExitReturns`,
  `EveryListenerTold`): the prover has no rules for fairness.
- That the properties of `ProtocolObjects` alone hold over any sequence of any
  objects, with several on their way: proved is that they hold of the objects of
  a conversation, where the ends take turns, and `Coding` for each object.
- That the socket is safe to destroy is neither: a caught thread does touch it,
  which is undefined, and finding 5 is what it comes to in the library.
- The violations: a counterexample is a behaviour, and TLC prints it.

## 6. Findings

1. `AckedMeansWritten`: `LogFile::write` ignores a stream that failed, so a
   line that could not be written is acknowledged
   (`logsvc_daemon/LogFile.cpp:50`).
2. `SessionDestroyedWhenPeerGone`: after a Disconnect a session reads no more,
   and so never learns that its client is gone; session, files and descriptor
   stay for the daemon's life (`logsvc_daemon/DefaultSocketSession.cpp:120`).
3. `LoopOverLivingSet`: the socket's loop over its state listeners goes on
   after a listener has destroyed the socket (`network/DefaultSocket.cpp:150`).
4. `KeptAlive`: a sender slow to reset `idle_work` undoes the `keep_alive` of
   its own reply, after which `run()` returns and all later sends hang
   (`network/DefaultSocket.cpp:120`).
5. `CallsFindTheirObjects`: the owner may destroy the connection while the
   handler that set the last future has yet to use it
   (`logsvccpp/client/DefaultConnection.cpp:91`).
6. `AnyObjectCanBeSerialized`: `Message` decodes its handle from signed chars,
   so the 128th file of a session cannot be written to (`log/Message.cpp:68`).

Seen while modelling and not given a run of their own:

- `protocol.txt:6` announces ackn or nack in answer to a client description,
  where the code answers with a client handle.
- A timestamp of the last half millisecond of a second has a fourth digit of
  milliseconds (`logsvc_daemon/DefaultTimestampFactory.cpp:73`); `FormatKept`
  proves that it has in no other case.
- Once `run()` has returned, a second `create_session` waits for ever:
  `make_sure_it_runs` finds a thread that is joinable and does not ask whether
  it still runs (`logsvccpp/client/HostConnectionFactory.cpp:71`).
  `ConnectReturns` excludes the case by name.
- A writer of a shared `DefaultSocket` that is overtaken by others may take the
  front of an empty queue (`network/DefaultSocket.cpp:208`); none of the
  library's own users share one without a mutex.
- `cloglinetofile` returns -3 without `logsvc_disconnect`, so its connection
  keeps the thread that the exit joins; its test for -2 is never met, as
  `logsvc_connect_host` does not connect.
- A stream that ends its text with `std::endl` has the newline in its line.

## 7. What is not modelled, and why

- Wording and layout: messages of errors, the spelling of a line.
- Thread creation that fails, and memory that runs out.
- Replies the client cannot parse: the daemon's replies are always well formed
  (`BothWaysSurvive`), and a foreign daemon is outside the system.
- Requests no client of this library makes, except refused ones: handles never
  given out do not occur in `Daemon`; `SessionFiles` has them all.
- State listeners of a client's socket: nobody registers any.
- `LogFile`'s two mutexes: the daemon has one thread, so they are never
  contended; that there is one object per path is what they would need.
- Calls of `async_write` on a socket that is gone already, which nobody makes;
  calls that the destructor overtakes are in `DefaultSocket`.
- Lines of an earlier daemon: `SessionFiles` begins with any of the logs there,
  but empty; that a log keeps its lines when its `LogFile` expires and is made
  again is checked and proved.
- Two threads using one `Host`: nothing claims it may be done.
- Two connections of one process at the same time: what they share is the
  `io_service`, which each keeps alive for itself.
- Objects of a binding destroyed in an order the application did not choose.
- The destructor of `SessionInitiator`, which runs when the process ends;
  opening of the port; the harness of the system tests and the build.

## 8. Plan

All components with state of their own have a module.  What would come next:

1. Two connections at once on one `io_service`, and their effect on each
   other's `keep_alive`.
2. `LogService`: applications, connections and daemon together against an
   abstract log of lines, with the identity of lines: each at most once, and in
   the order of its application.
3. Proofs: the framing of `ProtocolObjects` with any number of objects on their
   way; and the steps a liveness argument is made of, such as a measure that
   no step increases, though not the argument itself.
