# php-ion in TLA+

php-ion (`src/`) is a PHP extension in C: promises and coroutines, an event
loop over libevent, streams, timers, child processes and IPC.  PHP runs one
thread.  What makes the code hard is not parallelism but **re-entrancy**: every
settlement of a promise runs user code on the spot, inside the C function that
settles it, and that code may call any method of any object before the C
function goes on.  The models are about that: their state is the C structs plus
the C stack, cut at the places where user code can run.

Contents: [inventory](#inventory), [modules](#modules), [runs](#runs),
[disagreements found](#disagreements), [proofs](#proofs),
[limits](#limits), [plan](#plan).

## Inventory

| component | state it keeps | operations | talks to |
|---|---|---|---|
| Promise core (`ion_promisor.c`, `Promise.c`, `ResolvablePromise.c`, `Deferred.c`) | per promise: flags, result, callbacks, generator, `await`, array of handlers | resolve (done, fail, cancel, notification), then, forget, start | runs PHP callbacks and generators; all the others settle its deferreds |
| Sequences (`Sequence.c`, `ion_promisor.c` 633-739) | a prototype promise tree and its clones | invoke (clone, then resolve the clone), append | promise core; `incoming()`, `interval()` and listeners invoke them |
| Timers (`ION.c` 75-226) | table name -> interval, libevent timer per interval or `await()` | await, interval, cancelInterval, tick | promise core, event loop |
| Event loop and facade (`ION.c`) | `flags` (STARTED), statistics | dispatch, stop, promise, reinit | libevent |
| Deferred queue (`ion_deferred_queue.c`) | array of callbacks, `delayed` | push, dequeue, clean | event loop; fork; process and stream destructors |
| Signals, child processes (`Process.c`, `ChildProcess.c`, `ion_process.c`) | table of children, table of signals, per child its flags and its exit deferred | fork, start, kill, SIGCHLD, reinit in the child | IPC, promise core, operating system |
| Exec (`Process.c`, `Process/Exec.c`) | two output buffers, pid, deferred | exec, collect output, exit | signals, promise core |
| IPC (`IPC.c`, `ion_process.c` 66-130) | per end: the body under construction, the callbacks, CONNECTED | send, incoming bytes, head/body/end of a frame, disconnection | a socket pair, the WebSocket frame parser, sequences |
| Stream (`Stream.c`, `ion_stream.c`) | four slots for deferreds, flags, readLine token, watermarks | read*, get*, write, flush, shutdown, connect, closed, incoming, enable | libevent's bufferevent, promise core |
| Token search (`ion_stream.c` 86-131) | a token and its offset | find a delimiter in a buffer | stream |
| Listener (`Listener.c`) | the evconnlistener, ENABLED, the sequence of `whenAccepted()`, the crypto of `encrypt()` | accept, error, enable, disable, shutdown | stream, sequences, the kernel's queue of connections |
| Events (`EventAbstract.c`, `TimerEvent.c`, ...) | a libevent event and its flag | enable, disable | unfinished in the source: two constructors always throw |
| DNS (`DNS.c`) | table domain -> deferred, one evdns request per deferred | resolve, cancel, answer | libevent, promise core |
| Filesystem (`FS.c`, `ion_fs.c`) | table path -> watcher; per `readFile()` the two ends of a socket pair | watch, unwatchAll, inotify events, readFile | inotify, bufferevents, sequences |
| HTTP messages (`HTTP/Message.c`, `Request.c`, `Response.c`, `ion_http.c`) | start line, headers, body; the array and the length of a message being built | with*, build, parse | http_parser, URI |
| URI (`URI.c`) | eight parts | with*, parse, factory, print | PHP's URL parser |
| WebSocket objects, Crypto, Debug | parser contexts | data transformation | - |

What must be true of each, and is hard:

* **Promise core.** Settled once; a wait ends by the promise awaited and by no
  other; no handler is left behind, whatever the handlers do while they are
  notified; the loop over the array survives an array that grows or shrinks
  under it; nothing is freed while it is on the stack.
* **Sequences.** A call of the prototype never changes the prototype, nor the
  state another call still uses.
* **Timers.** A tick reaches the interval that is registered and no freed one;
  a canceled timer ticks no more; the table and the timers agree.
* **Deferred queue.** Every callback pushed runs once, on a later turn of the
  loop, in order, in the process that pushed it.
* **Child processes.** Each child is reaped once and its exit deferred settled
  once, with the status it exited with; a signal between fork and registration
  is not lost.
* **Exec.** The result holds all that the command wrote before it exited.
* **IPC.** Each message sent arrives once, whole, in order, wherever the stream
  is cut; a disconnection is announced when every copy of the descriptor is gone
  and not before.
* **Listener.** A queued connection is handed to the handlers, refused or reset, and
  none is forgotten; nothing is handed over while the listener is disabled.
* **DNS.** Who asks for a name that is being looked up shares the deferred; a late answer to
  a canceled lookup finds its deferred alive and touches no newer one.
* **Filesystem.** A watcher lives while somebody can hear it, and no event comes to a freed one;
  `readFile()` gives the whole part asked for.
* **HTTP, URI.** What is printed fills its buffer exactly, and reading it back
  gives what the program put in.
* **Stream.** No deferred is orphaned (left pending out of reach of the
  callbacks) and none is settled twice; the FLUSHED flag says the truth; a close
  is announced and cuts nothing off; nobody waits for what is there already.

PROJECT.json "hazards" lists the places in the code where these can go wrong.

## Modules

### `Promisor` - the promise core

One activation of `ion_promisor_resolve()` is a frame on `stack`, stopped at one
of the function's labels; only the top frame moves, and when it is user code
(`call`: a PHP callback; `body`: a generator) or the stack is empty, the program
may call any method.

| TLA+ | code |
|---|---|
| `flags`, `canceled`, `cbs`, `result`, `await`, `generator`, `handlers` | the fields of `struct _ion_promisor` (`ion_promisor.h`); the sets hold the promises whose bit or pointer is set |
| `Enter*` | the head of `ion_promisor_resolve()`: finished, awaiting, pending |
| `Watch*` | label `watch_result` |
| `Resume`, `Finish`, `Yield` | label `resume_generator` and its return |
| `Settled`, `NotifyHandler`, `HandlerServed`, `HandlersNotified` | storing the result, then the loop over the handlers |
| `Done`, `Fail`, `Cancel`, `Then`, `Chain`, `Forget`, `Start` | PHP methods, and `ION::promise()` |
| `crashed` | a read of freed or unwritten memory: set, not modelled further |

`await` is both the C field and the reference it holds.  A forgotten handler
leaves `Junk` in the array when the code leaves the slot unwritten; the module
`HandlerArray` says which array `ion_promisor_remove()` and `ion_promisor_cleanup()` make.

`Liberties` names what the program does that the code does not guard against
and that its documentation does not forbid: settling a promise inside its own
callback (`resettle`), canceling a deferred that awaits (`recancel`), chaining a
handler twice (`rechain`), forgetting (`forget`, `reforget`).  A property is
checked under every liberty that it survives; the others are
named where they break it.

### `Future` - what a promise promises

Pending, then settled for good; a wait ends after what it waits for has
settled; nothing settles while it waits.  `Promisor` implements it
(`KeepsContract`) under the mapping `FutureState`, for programs that settle, cancel
and chain only what is idle.

### `Stream` - one stream

The state is the fields of `struct _ion_stream`, the bufferevent's buffers,
watermarks and enabled bits (external), and a stack of activations.  An
activation is the list of tasks its C function has left: `<<"flush",
"flushed">>` is `_ion_stream_output()`, about to settle the flush deferred and
then to mark the stream flushed; `<<"connect", "read", "flush", "shutdown">>` is
the error branch of `_ion_stream_notify()`.  Settling a deferred sets `user`:
its handlers run and may call any method before the next task.

`Origins` says how the stream came to be, which decides whether it has a
descriptor (`ion_stream_close_fd()` behaves differently without one).  For a `pair` libevent moves bytes also
while the program runs, because the other end is written or read there, and puts the callbacks off to the loop: `due` holds those,
and `PutOff` runs one.  A pair has no descriptor and hears of no EOF or error.
`Liberties` again names the unguarded uses: `force` shutdown, `disable`,
`cancel` of a deferred, `reconnect`, `refill` in the handlers of a flush, `late`
reads, `take` under a `readLine()`, `resize`, `append`.  Which liberty breaks
which property is a result in itself:

| liberty | breaks |
|---|---|
| `refill` | `FlushedIsEmpty`, `NoOrphan`, `NothingCutOff` |
| `reconnect` | `NoOrphan` |
| `late` | `NoReadPastEOF`, `NoOverdueRead` |
| `cancel`, `take`, `resize` | `NoOverdueRead` |
| `append` | `NoOverdueRead` |
| origins `named`, `pair` | `ClosedAnnounced` |
| origin `pair` | `FlushedIsEmpty`, `NothingCutOff`, `IncomingHasData` |

### `Timers` - await() and interval()

A timer is a heap object (`memory`), a libevent event (`armed`) and, with a
name, an entry of the table; `Tick` opens an activation in which handlers run and
`Repeat`/`RunOut`/`TickFreed` is what `_ion_interval_invoke()` does after
them.  A timeout is a double, modelled by a number of parts of a microsecond (`Fine`), and `Timevals` are the
results its conversion may have: fractions are cut off, and of a product that no `int` holds any outcome
of x86 and ARM builds is possible (`Unit` and `IntMax` are scaled down).  `TimersLong` has a timeout beyond
`IntMax`; `Loop` has none, because the properties it checks do not see the time.  Memory is not
reused, so that a use after free is a state (`crashed`) and not a confusion of two
timers.  `program` is the set of liberties that a behaviour takes, one of `Programs`, and never
changes: `duplicate`, `numeric` and `unnamed` names, and `own`, a
`cancelInterval()` in the interval's own callback (after which the code reads
the freed interval).  Each property says which of them it does not survive, so that one
run checks the programs that take none, one and all.

### `Processes` - workers, commands, forks and the deferred queue

`queue`, `delayed` and `armed` are the deferred queue and its event; `pos` is the
`i` of the loop of `ion_deferred_dequeue()`.  `childs`, `execs` are the tables, `given`,
`started`, `finished`, `ipc`, `whenStarted`, `whenExit` the fields of a
`ChildProcess`; `os` and `reports` are what the operating system knows of each
process.  A process is named by the worker, command or `fork()` that made it, so that
there are no pids.  `at` says where the main process is:

| `at` | C function | user code |
|---|---|---|
| `loop` | none: events are waited for | any callback of the loop |
| `dequeue` | head of the loop in `ion_deferred_dequeue()` | no |
| `spawned` | `ion_process_child_spawn()`, settling `prom_started` | its handlers |
| `reap` | head of the loop in `ion_process_sigchld()` | no |
| `announced` | `ion_process_child_exit()` or `_exec_exit()` | handlers of the exit |

`Ends`, `Stops`, `Continues` and `Write` are the children's side and external:
they interleave with every step of the main process, and several of them may
raise one SIGCHLD.  Of what a child does, the model keeps what can touch the
parent's promise: it has a copy of the queue and dequeues it (`WithInherited`
counts in `births` the processes that would come of it, at the time of the fork,
because nothing the parent does later changes the copy).

`fork()` may fail for a worker (`SpawnFails`); the exception stays pending while
the rest of the queue is called, which calls nothing (`Skip`), and then
leaves `dispatch()`: the program is taken to catch it, to dispatch again and, if it
wants, to `start()` again the workers that were dropped (`lost`).

Liberties, given to each child: `twice` (a second `start()`), `late`
(`whenStarted()` or `whenExit()` after the event), `stop` (a signal stops the
process once).  The instance has a worker used as documented and one with
`twice` and `stop`, so that the properties of the first are checked beside
the accidents of the second.

### `Prototypes` - sequences

A sequence is a prototype with a tree of handlers; an invocation copies the tree
(`CopyHandler`, `CopyMade`) and resolves the copy (`Invoke`, `Ready`, `NotifyPlain`).  A coroutine that
yields the sequence, or a plain promise put below it, is not copied but moves to
the copy (`MoveOutsider`); `Autoclean` runs the release callback of a sequence that is left
without handlers, in the middle of the copying.  `stack` holds the activations of
`ion_promisor_clone()` and `ion_promisor_resolve()`.  The history variable `due` is
computed when an invocation starts from what is then below the sequence (`Under`, the least set closed under
`Handled`); `stray` collects what
is reached and was not due.  `forget()` and the end of a copying make arrays as `HandlerArray` says; `forget()`
of something that is no handler still calls the release callback of an empty sequence, as
the code does.  `spoiled` records that a release callback used a sequence that is being copied: changed its
array, or invoked it or a sequence above it; only `HeardOnce` excludes it.

### `Ipc` and `Channel` - a pair of IPC objects

Each end has its own control (`at`), because the ends live in two processes.  Bytes go
from `outgoing` (the bufferevent) over `wire` (the kernel) to `chunk` (the piece being parsed), in
pieces of any length.  The frame parser is external; its callbacks are
`MessageBegin`, `MessageBody`, `MessageEnd`, and `EmptyMessage` for the one that crashes.  The
masks and lengths of the head are one byte here.  `held` says that a third process
has inherited a descriptor, which delays the end of file.  `Channel` is what
the pair promises: `Ipc` implements it with `told` read from `disconnect`.

### `Listener`

`backlog` is the kernel's queue, which fills in enabled and disabled state alike, and
`conn` follows each connection to its fate.  `Refuse`, `Forget` and `Accept` are the paths of
`_ion_listener_accept()`; `Failed` is its error callback.

### `Resolver` - DNS lookups

A lookup is a deferred with a reference count, a request to the library and an entry of
the table while it is pending.  `Settle` is the destructor of its object; `Answer` and
`Answered` are the callback, before and after the handlers.

### `Files` - watchers and `readFile()`

Two halves without common state.  A watcher is held by the table and by the program (`kept`); `file`
counts the files that have been at a path, because inotify watches the file and not the
path.  A record in `read` follows one `readFile()`: what was asked for, sent and received, and the
two ends of its socket pair.

### `Uri` and `Http`

A string is a sequence of tokens, and a token has a width; printing fills a buffer whose
length is computed separately, as in the code (`Length` against `Written`, `message_size`
against what `pipe` holds).  `wanted` and `want` are history: what the program, or the peer whose
message was parsed, has put in.  Building a message goes header by header, because the array
grows between them.

`New`, the options and `FactoryReturns` are `factory()`; an option or a code that it does not know ends it with an exception
and without an object.  `Answers` is what the getters answer, and translates them apart from what
is built: `GetReasonPhrase` looks a phrase up by a byte of the status and `Reason`, which is
printed, by all of it; `GetRequestTarget` is the target alone, while `RequestLine` takes the URI or "/" in its
place.  `odd` records what `HttpReadBack` is not about: a code cut by `withStatus()`, a phrase dropped by
`factory()`, a message built that no reader takes (`Unreadable`).  The conversion of a header's value that is no string, and the
exception it may throw, are left out (values are sequences of atoms).

### `MCObjects`, `MCEndpoints`, `MCLoop`

Compose components that share no state, one in each behaviour (`runs`): the objects that other code calls
(`Prototypes`, `Uri`, `Http`, `Resolver`, `Files`; `MCMessages` has the constants of `Uri` and `Http`), the two that
own a bufferevent (`Stream`, `Ipc`), and two that the event loop calls (`Listener`, `Timers`).

## Runs

Deadlock is never checked (`CHECK_DEADLOCK FALSE`): a program that has nothing
more to do, or that waits for a peer that says nothing, really stops.

| run | checks | shows |
|---|---|---|
| PromisorForget | `DrainedWhenSettled`, `KeepsContract`, `WokenByAwaited` | A deferred and two promises that the program also forgets, in every way: the promises implement Future, no handler stays behind in a settled promise, and a wait ends only by the promise awaited. |
| PromisorLiberties | `TypeOK`, `StackDiscipline`, `NoLostWakeup` | Even when the program settles a promise inside its own callback, cancels a waiting deferred and re-chains handlers, notification loops never nest and no wait is left without a notification: the conjuncts of the proved invariant. |
| PromisorLive | `NoCrash`, `WaitEnds` | If the C code runs on and callbacks return, every wait on a settled promise ends; re-entrant code never returns into freed memory nor notifies a slot that is not a promise. |
| Loop | `NoCrash`, `TableExact`, `ArmedWhileLive`, `AwaitEnds`, `IntervalTicks`, `Welcomed` | Three timers of programs that take one liberty with names or cancellation, or none; event_add() fails at will and handlers create and cancel timers: the table finds every interval and nothing else, events and objects live and die together, an await() ends and an interval ticks. A listener that is enabled, disabled, encrypted, shut down or fails: a queued connection is told, refused or reset. |
| StreamReads | `FlushedIsEmpty`, `ClosedAnnounced`, `NoOverdueRead`, `NoReadPastEOF`, `IncomingHasData` | A dialed stream and one of a pair, whose callbacks are put off, with shutdown(true) and disable(): reads, flushes and closes against arriving bytes, EOF and errors. Nobody is left waiting for what is there or can no longer come; for the dialed one the flags tell the truth too. |
| StreamClosing | `NoOrphan`, `NothingCutOff` | Pairs and named streams under nearly every liberty: no deferred leaves its slot unsettled, and shutdown() without force closes a named one only when it is empty. |
| ProcessesCore | `QueueArmed`, `OneProcess`, `Tracked`, `Told`, `Truthful`, `EveryChildReaped`, `EveryStartServed` | Two workers, one of them started twice and stopped, beside a command or a fork(); any fork of a worker may fail: no start() is forgotten, queued workers are not spawned in the children of others, the tables follow the operating system, and every child is reaped. |
| Endpoints | `IsChannel`, `Served`, `OutputEnds` | An IPC pair in one process or in two, one end sending, whose frames arrive cut anywhere and whose ends die or are still held open by another process: messages arrive whole, once and in order, and are served. A stream whose peer keeps up: a flush() that is awaited ends and a shutdown() that waits for the output closes it. |
| Objects | `HeardOnce`, `HeldOnce`, `ReleasedWhenIdle`, `UriReadBack`, `HttpReadBack`, `PipeFits`, `LookupsShared`, `FilesExact` | Components that share no state, one in each behaviour. Sequences with a release callback and handlers hung below them at any time: an invocation reaches exactly those who listened. URIs and HTTP messages, made with options, changed, printed, built and parsed back. DNS lookups shared, canceled and answered. Watchers forgotten and told of changes; files read while they are cut. |

Runs that end in a counterexample:

| run | violates | shows |
|---|---|---|
| TimersLong | `TimeKept` | A timeout beyond INT_MAX microseconds: the timer is given another time than was asked for. |
| StreamRefill | `FlushedIsEmpty` | write() in a handler of flush(): the output callback then marks the stream flushed with bytes in the buffer. |
| ProcessesOutput | `OutputComplete` | A command that writes and exits at once: SIGCHLD is handled before the last of its output has been read. |


**Bounds.** `MaxDepth` bounds the stack at which user code calls deeper: with 2
and 3 a handler runs inside a loop inside a callback, which is where the
interesting nestings start; every frame adds the same possibilities again.
`MaxHandlers` bounds the array that `then(Promise)` and coroutines grow; 2 is
enough for a slot behind the one being served.  Two or three promises give a
deferred, the coroutine that awaits it and a bystander.  For a stream, two
bytes in each buffer tell empty, partly drained and full apart and let a token
be first or second; two or three deferreds exceed what one slot can hold, so that
a deferred can lose its slot to another.

`StreamReads` has a dialed stream and one of a pair with two bytes of input and one of output; `StreamClosing` has one of input and two of output.  `Loop` has three timers, which nest two deep, and a time beyond one `Unit`, and two connections.  In `Objects` two
sequences, one with a release callback and one of a coroutine, are invoked twice and
six copies hold both trees; three moves subscribe, and subscribe or forget again in a release callback in the
middle of a copying (`PrototypesProofs` frees all these bounds); lists of none to five values against a pipe of ten places
let it be kept, doubled and overrun; three changes reach a header
that was replaced, extended and removed; two changes of a URI reach every pair of
parts, with ports at each number of digits and around 65536; two lookups of one
name let the second race the late answer of the first; a file of three
bytes is read, sent and cut in every order.  In `Endpoints` a stream has two bytes to flush; a message of
two bytes and an empty one, two sent by one end (the directions share only the life of the ends), let a piece end in every place of a frame and hold two
messages; `IpcProofs` frees the bounds.  The components of `Objects`, those of
`Endpoints` and those of `Loop` share no state; the variable `runs` names the one that moves in a
behaviour, so that one TLC run explores the sum and not the product.

**Fairness.** The C code is one thread that is never preempted by PHP, so it
runs on (`WF` of the machine steps).  Liveness also needs user code that
returns (`SF` of `Leave`: no endless recursion or endless `yield`), and, for a
stream, a peer that reads what was written again and again (`SF(Drain(out))`).
Neither is a promise of this code; both are what its documentation takes for
granted, and they are stated as such.  In `Processes` the handlers run on in the
same way, and the SIGCHLD event gets its turn beside a queue that is filled again
and again (`SF(Sigchld)`), because each turn of libevent's loop runs every event that
is active; nothing is assumed of the children, not even that they end.  `Timers` assumes
that handlers return and that the loop gets to a timer that is due (`SF`: libevent runs
every due timer of a turn, and turns where it is not due may come in between).  `Ipc` and `Listener` assume that the library
goes on and that handlers return (`WF` of `IpcMachine(e)` and `ListenerStep`).  No fairness is assumed of the program's
calls.

## Disagreements

Three runs end in a counterexample, each against a sentence of the documentation (PROJECT.json
"findings" quotes them): `StreamRefill`, `ProcessesOutput` and `TimersLong`.  Modelling
turned up more places where the code and what is said of it differ, or where it can
crash.  Those with a liberty, an origin or a constant were
seen as counterexamples of the models under it, and the others are what the named action does; a liberty
is there to keep such a program apart.

Promises:

* `recancel`: `cancel()` of a deferred that awaits settles the wait and leaves its
  registration with the awaited promise; when that one settles, the deferred is
  resumed again, in a later wait, with the wrong result (`ion_promisor.c:94`; docs/ru/promisor.md:255).
* `resettle`: `done()` in a resolvable promise's own callback followed by an exception
  leaves it both done and failed (`ion_promisor.c:257`); docs/ru/promisor.md:38
  says one of the two.
* `rechain`: `then(Promise)` on a settled promise stores a handler that is never
  called (`ion_promisor.c:743`); docs/ru/promisor.md:42.
* A canceler that returns a value makes the canceled deferred done
  (`ion_promisor.c:152`); docs/ru/promisor.md:75 says its chain gets a
  `CancelException` (a test sides with the code).
* A plain value yielded after a caught failure is thrown into the generator
  (`ion_promisor.c:212`); docs/ru/promisor.md:283 says it is returned at once.
* `ION::promise()` takes a generator object for the result (`ION.c:251`);
  docs/ru/promisor.md:353 says it is run.
* `spoiled`: a release callback that uses a sequence which is being copied changes the array that
  `ion_promisor_clone()` reads (`ion_promisor.c:702`); and one that invokes a sequence above it is
  heard by some of those who listen only.

Streams:

* origins `pair`, `named`: `closed()` of a stream without descriptor is never
  settled (`Stream.c:365`); stubs/classes/ION/Stream.php:247.
* The callbacks of a `pair` are put off to the loop while its bytes move on (`PutOff`).  The output callback
  then marks the stream flushed over what was written since (`FlushedIsEmpty`) and, after a
  `shutdown()`, closes it over that (`NothingCutOff`); and `incoming()` is invoked with nothing to take when the program has taken
  the bytes first (`IncomingHasData`).  These three properties leave pairs out.
* `late`: `read()` and `readLine()` after EOF return a deferred that nothing
  settles (`Stream.c:1018`); `readAll()` looks at the flag.
* `append`: `flush()` after `appendToInput()` waits for an output buffer that is
  empty (`Stream.c:1584`); stubs/classes/ION/Stream.php:223.

Timers:

* `unnamed`: `ION::interval(30)`, the example of docs/en/readme.md:182, reads a NULL
  string (`ION.c:200`).
* `numeric`: the entry of an interval with a numeric name cannot be deleted, against
  `ZEND_ASSERT(res == SUCCESS)` (`ION.c:85`).
* `duplicate`: the second interval of a name cannot be canceled (`ION.c:148`, with
  a todo at 142).
* `own`: after `cancelInterval()` in the interval's own callback the freed interval is read
  (`ION.c:104`).
* Timeouts of 2147.5 s and more overflow `int`: the timer is given other microseconds than were asked
  for, negative ones on x86 (`ION.c:140`; run `TimersLong`, docs/ru/promisor.md:55).

Processes and IPC:

* `twice`: the second process of a worker crashes its parent after the fork: `ipc_child`
  is NULL by then (`ChildProcess.c:56`; `SpawnAgain`).
* `stop`: a stop reported by `waitpid(WUNTRACED)` drops the worker from the table and
  settles `whenExit()` while the process lives, under a comment that says
  `// unreachable` (`ChildProcess.c:107`).
* `late`: `whenExit()` and `whenStarted()` asked for after the event are never settled
  (`ChildProcess.c:258`).
* A failed `fork()` drops the other queued workers with no word to them
  (`Skip`); stubs/classes/ION/Process/ChildProcess.php:92 says that their callbacks are
  called without fail.
* `cancel()` of a command's deferred sends no signal (`Cancel`): nothing reads the
  signal that docs/ru/process.md:64 says is sent.
* `EmptyMessage`: an empty IPC message allocates no body, and its end reads and
  releases the pointer of the message before, or NULL (`ion_process.c:73`).
* `Drop`: a handler that drops the last reference to the IPC object whose callback
  runs frees the parser under it.
* A message that arrives before `whenIncoming()` is lost (`MessageEnd`), and
  `whenDisconnected()` after the event is never told (`Notified`).
* A worker forked later inherits the parent's end of an earlier one's pair, so that the
  disconnection is seen only when both have ended (`held`).

Listener, DNS, files:

* An `accept()` that fails once, for instance because no descriptors are left, frees the
  listener for good; the program gets a warning and its sequence hears nothing more
  (`Listener.c:127`; `Failed`).  A sequence asked for after `shutdown()` is never invoked.
* When no bufferevent can be made, the accepted descriptor leaks (`Forget`).
* `Immediate`: a name that the library answers at once calls back before the deferred
  has its object, which crashes (`DNS.c:102`; `ResolveImmediate`).  A second
  `resolve()` of a name ignores the record types it asks for.
* A replaced file leaves a watcher of the old one in the table, and `watch()`
  returns its sequence, which stays silent (`Replace`).
* `readFile()` limits the length to the size of the file, not to what follows the
  offset, and then waits for bytes that are not there until the end of the file ends it (`ReadFile`).

HTTP and URI:

* A header with more values than one doubling of the array makes room for is written behind
  it (`ion_http.c:264`; `phase = "overrun"`).
* A header with an empty list of values prints a line that no parser reads; an unknown
  status without a reason has no text (`Printable`, `Unreadable`).
* `withStatus()` keeps a status modulo 256 (`Response.c:151`; history variable `odd`): `getStatusCode()` answers 148 for
  404; stubs/classes/ION/HTTP/Response.php:46 calls it a 3-digit code.
* `getReasonPhrase()` looks for the phrase of a status modulo 256 (`Response.c:185`; `Unphrased`): a
  response of `factory()` with the status 404 has an empty phrase, is sent with the right one, and has that
  when it was parsed; stubs/classes/ION/HTTP/Response.php:57.
* `getRequestTarget()` is empty without a target, also for a request that was parsed (`Request.c:190`;
  `GetRequestTarget`); stubs/classes/ION/HTTP/Request.php:44 says "/", a test expects the empty string.
* The option STATUS of `factory()` drops a REASON that was given before it (`Response.c:69`; `OptionStatus`).
* Responses forget
  their version when parsed; a request keeps a body only with a length or chunks, and the header of
  chunks stays on a body that is whole, so that the message cannot be sent on.
* `Anonymous`: parsing a URI with a host and no user loses the host (`URI.c:155`).

Read in the source and not modelled: the `result_type` of a wait survives the next
`yield` (`ion_promisor.c:212`); a coroutine that yields its own promise, or two that yield each other, wait for ever
(192); `handler_count` is an `unsigned short` (589); `resolve()` recurses once per link of a chain
(145); `_ion_interval_free()` writes to the promisor after it released it (`ION.c:89`);
deferreds of a stream keep a bare pointer to it in their destructor (`Stream.c:29`); `exit()` in a
callback of the queue makes `ion_deferred_clean()` release the served items again
(`ion_deferred_queue.c:74`); the child uses `ipc_child` after releasing it
(`ChildProcess.c:87`); `hasParentIPC()` is false in every child, because
`parent_ipc` is only set when it was set (`ChildProcess.c:82`); `IPC::create()` with fewer than two
arguments adds a reference to NULL (`IPC.c:109`); the destructor of a lookup releases the domain and then
uses it (`DNS.c:53`); `on_message_complete` is assigned twice (`ion_http.c:143`); `getURI()` of a request without a URI
uses a NULL pointer (`Request.c:139`); a `factory()` that throws leaves its object unreleased
(`Request.c:59`).

## Proofs

Each theorem holds for every value of the constants that satisfies the assumptions named
where they are declared.  Where a property does not survive something that a
program may do, the theorem excludes just that liberty, and says so in its `ASSUME`;
the liberties themselves are listed with the modules, and the counterexamples under
the disagreements.  All theorems follow the same line: an inductive invariant,
one lemma per action that keeps it, one step of temporal logic.

`HandlerArrayProofs` is about the array of handlers that `Promisor` and
`Prototypes` share.  `CleanedFacts` says what `ion_promisor_cleanup()` makes of an
array of any length: if no more slots are removed than are empty, what stays is
found again, no further from the start and in as many slots; if all of the empty
slots were removed, nothing else is in the new array.  It does not use recursion: a
handler's new place is the number of handlers that stay up to it.

`PromisorProofs` proves about `Promisor`, for every set of promises, every
values and every bound:

| theorem | states | excluded |
|---|---|---|
| `Typed` | `[]TypeOK` | nothing |
| `Discipline` | `[]StackDiscipline` | nothing |
| `WakeupsKept` | `[]NoLostWakeup` | reforget |
| `Notified` | `[]DrainedWhenSettled` | rechain |
| `InTurn` | `WokenByAwaited` (every step) | resettle, recancel, rechain |
| `Crashless` | `[]NoCrash` | these three and reforget |
| `Contracted` | `KeepsContract`: `Promisor` implements `Future` | resettle, recancel, rechain |

The invariant has layers.  `IInv` is `TypeOK`, `StackDiscipline` and `NoLostWakeup`
together, because none of the last two is inductive alone: a step of the loop keeps a wait
registered only if the slot just served belongs to a promise that no longer
waits, which needs that no other activation of the same loop is below; and that needs
that entering a finished promise returns at once.  `Drained` says that a settled
promise has no handlers or has its loop on the stack.  `Ordered` holds in programs
that settle, cancel and chain only what is idle (`Orderly`): what runs is pending and
runs in one activation; a handler that is still to be notified is pending and is in
one slot; a promise that is not made yet is pending.  From it every notification
comes to a handler that waits for just that promise.  `Intact` says that the slots
ahead of every loop hold promises, so that no step reads freed or unwritten
memory.  For `Contracted`, each action of `Promisor` maps to an action of `Future` or
to a stutter.

`PrototypesProofs` proves about `Prototypes`, for every set of sequences,
handlers, outsiders and copies:

* `Held`: `[]HeldOnce` - a plain promise put below a sequence is in one array at most, and what
  a coroutine awaits is the one that holds it;
* `ReleasedOnce`: `[]ReleasedWhenIdle` - no sequence stays without handlers and unreleased;
* `Heard`: `[]HeardOnce` - an invocation is heard by those who were listening, once each, and
  no loop reads or writes beside an array; this one is about the time before a release callback uses a sequence
  that is being copied.

The invariant of the first two (`Invariant`) is about the moment when an array is being copied, in which
callbacks may run: `Owned` says that a copy is in one activation, or asleep, or in one slot that
is still to be served (or, while it is being made, in the activation above the one that will
put it there); `Placed` that an outsider is in one slot
in all, and ahead of every loop over what it waits for; `Releasing` that a
sequence without handlers has been released or is being copied, past its first slot.  A move
empties a slot, and only the end of the copying closes the gaps: that what stays keeps its
order and comes no later (`CleanedFacts`) is what keeps `Ahead` true for the
loops further down the stack.

`Heard` adds `Sound`, in five parts.  `Forest`: every object is below one prototype at most and
none below itself, so what is below two handlers of a sequence has nothing in common; that there is no cycle
is said of sets (each has a member that no member handles), because a set can be
closed under a step without counting levels.  `Loops` and `Apart`: a loop of
`ion_promisor_clone()` has filled as many slots of the copy as it has read, counts the slots it has
emptied, finds none of those to come empty, and shares nothing it has still to copy with another loop of the
stack.  `Family`: each copy is in an activation, asleep or in a slot ahead of a copy of its own invocation,
and not in a ring of slots, so that an invocation with a copy left has something on the stack or
asleep.  `ReachedOnce`: two copies of one invocation that wait for their callback are of different
prototypes, and of none that a loop has still to copy.  `Exact` then says what `due` is: the prototypes whose copy
waits, the outsiders in slots ahead and what the loops have still to copy.  A turn of a loop
hands one handler and all below it from the loop to the new copy, and a callback that starts takes one
away; everything else leaves the three sets as they are.  A release callback that uses a
sequence being copied breaks `Loops`, which is why the theorem stops there.

`StreamProofs` proves about `Stream`, for buffers of any length and handlers nested to
any depth:

| theorem | states | excluded |
|---|---|---|
| `Typed` | `[]TypeOK` | nothing |
| `DataAtHand` | `[]IncomingHasData` | nothing (pairs) |
| `FlushedTrue` | `[]FlushedIsEmpty` | refill (pairs) |
| `AllWritten` | `[]NothingCutOff` | refill, force (pairs) |
| `SlotsTrue` | `[]NoOrphan` | refill, reconnect |
| `ReadsEnded` | `[]NoReadPastEOF` | late |
| `ReadsInTime` | `[]NoOverdueRead` | late, cancel, take, resize, append |
| `ClosingAnnounced` | `[]ClosedAnnounced` | nothing (named, pairs) |

In brackets: the streams that the property itself leaves out.

A callback of libevent leaves tasks on the stack: what it still has to do after the
handlers of the deferred it is settling.  Each part of the invariant says what
those tasks will find: that the output is empty when FLUSHED is still to be set, and when the
descriptor is to be closed; that the slot of the flush is free until it is
cleared once more; that after EOF or a close the read and the shutdown that are pending are among
the tasks left; that bytes that will be announced are there.  A pending
read is followed to the bytes: either it wants more than the buffer holds and the
low watermark says how much, or its search has been over every position that
is in the buffer.  For lines this needs that the search returns the least
position of the token, which is proved by the existence of least elements and not by
recursion.

`ServicesProofs` is about `Resolver`, `Files`, `Listener` and `Timers`, which share no state.  It proves `Shared`: `ResolverSpec => []LookupsShared`, for every set of domains
and lookups.  What has to be added is who holds references (`Referred`): the
library's request holds one exactly until its callback returns, and only the
program's own references can be dropped beside it.  A name that the library answers at once (`Immediate`) may set
`misused` to "inside"; nothing freed is used at any other time.

It proves `Exact`: `FilesSpec => []FilesExact`.  The part about `readFile()` needs
`Whole`: the sending end closes only after all of the file has left, or when
nobody reads.

It proves `Delivered`: `ListenerSpec => HandedOver`, the action part of `Welcomed`.  That a connection
is told once needs that the queue holds it once, and that all that is in the queue is queued.

About `Timers` it proves, for every set of timers, names and timeouts and
handlers nested to any depth:

* `Armed`: `Spec => []ArmedWhileLive`; `NeverCrashes`: `Spec => []NoCrash`;
  `Tabled`: `Spec => []TableExact`.

The invariant adds the shape of the stack (`Bottom`: only the lowest activation is
a tick; `Settled`: the deferred of an `await()` is done only under its tick;
`Fresh`) and what the table knows (`Entries`, `Numbers`, `Found`).  Without
`Bottom` a tick could free the timer of another tick below it, and the lower one would read
it.

`MessagesProofs` proves about `Uri` and `Http`, for every set of texts, ports, headers, values, bodies
and spellings and any number of calls:

* `Printed`: `~Anonymous => (UriSpec => []UriReadBack)`.  `Anonymous` stands for URIs with a host and no
  user, whose host `parse()` loses (see Disagreements);
* `Understood`: `HttpSpec => []HttpReadBack`;
* `Fitting`: `HttpSpec => []PipeFits`.

Both modules fold over texts, and a fold that is written as a recursive function can be reasoned about by
its values: `RecursionExists` and `RecursionUnique` say once that a function that follows from its
first value exists and is the only one, and `Totals`, `FlatIs`, `ReadIs` and `RepeatedIs` take the folds of the
models through them.  From there on a text is known by its elements (`Row`, `Joins`).

For URIs, `Strung` gives the text of an object token by token, `Marks` where a reader meets each separator,
and `ReadBack` follows: `Parse(Stringify(u, Parts)) = u` for every object that has a user if it has a host.
`DigitsCounted` shows that the comparisons count the digits of each unsigned short.

For messages, the invariant `HttpInv` says what the pipe holds while a message is built: a start line that
says what the message is (`Begins`), then text of which the callbacks have kept exactly the headers before the next
(`Collected`, `Upto`), of the length summed so far (`Sized`), with the array as large as what it holds (`Room`).
`Longer` adds a line, `Over` the end and the body, and `Parsed` shows that a text with such a start line and such
headers is read as a message whose getters answer the same, but for the
version, the target and the URI, of which `ParseBuilt` says what becomes of them.  The same lemmas serve for what a peer sends, whose lines repeat headers
in any spelling (`SentRead`).  The methods are one lemma each, from `EditVersion` to `EditHeaders`, and so is each option of
`factory()`: the answers of the changed message are the changed answers.  The phrase that a response is built with is looked up
by the whole status and the one it answers by a byte of it; `ReasonsAssumption`, that no code of three digits with a phrase ends in the
byte of another, says where they differ: in the default phrase of a status beyond a byte (`Unphrased`), which `HttpReadBack`
leaves out.  `Fitting` needs of all this only `Room`.

The assumptions are that `None` is no value and no URI (`NoneAssumption`), and the types of what the program and a peer
give: lists and bodies of atoms, codes of three digits, ports of an unsigned short (`InputsAssumption`).

`IpcProofs` proves `Implements`: `IpcSpec => IsChannel`, the refinement of
`Channel` by `Ipc`, for every set of messages, any sizes, any bounds and every way of
cutting the stream.  The invariant follows each byte on its way: the bytes that the
parser, the kernel and the peer's output buffer hold, in this order, have places (message, offset)
such that each byte is the one sent at its place, the first follows the cursor of the
parser, and, while the peer lives, the last is the end of the last message sent
(`Delivers`).  `Filled` says that the body under construction holds the bytes up
to the offset, so that `MessageEnd` takes exactly the next message; `Idle`, that
nothing is parsed outside of a callback.  "Each place is the successor of the one before" would need an
induction over the length of a piece to say where a piece ends; `Traced` states instead that
two places at most `Room` apart lie in the same message, which can be cut,
extended and shortened without induction.


`ProcessesProofs` proves about `Processes`, for every number of workers, commands
and forks, every assignment of liberties and every bound:

* `Typed`: `Spec => []TypeOK` (no run states it: the others rest on it);
* `Armed`: `Spec => []QueueArmed` - no item stays in the queue without a pending
  event;
* `Tracking`: `Spec => []Tracked` - the tables follow the operating system;
* `Single`: `Spec => []OneProcess`;
* `Telling`: `Spec => []Told` - `whenStarted()` and `whenExit()`, asked for in time, are settled by the
  event itself;
* `Truth`: `Spec => []Truthful` - what is announced as ended has been reaped.

The inductive invariant is the conjunction of six parts.  `QueueArmed` and `Tracked` are nearly
inductive: the first needs `delayed = armed` (in `TypeOK`), the second that a
worker that was not spawned has no process and that only a process that may be
stopped has a stop to report (`Fresh`).  `OneProcess` is not: that a
worker has one process needs `Once(w)`, which says that it has as many
processes as its STARTED flag says, and that it is in the part of the queue still
to be called (from `From` on) at most once and only before it is started.  That
a child adds none of its own is the lemma `ChildrenAlone`, from the assumption
that the main process is none of its children.  `Told` and `Truthful` are about workers that take
no liberty, and follow from `Promises`: once such a worker is started, or finished, the
deferred of that event is not pending, what is finished is gone for the
system too, and `whenExit()` is done only for what is finished.  `Fresh` is what excludes that
a stop is taken for an end.

## Limits

Only model-checked:

* liveness (`WaitEnds`, `OutputEnds`, `AwaitEnds`, `IntervalTicks`, `EveryChildReaped`,
  `EveryStartServed`, `Served`, and the liveness part of `Welcomed`): the proof system has no rule
  for ENABLED under fairness.  Every safety invariant and action property
  that a passing run checks is proved.

Left out of the modelled components: reference counts and destruction of PHP
objects (an object lives for ever); exceptions that escape to the top of the
loop; TLS; PHP's own memory limits; the width of `handler_count`; tokens longer than one
byte; what a lookup answers; the bits of a byte: bytes are known by their place in their message.

Not modelled, or in part:

* **Promise core** (partly). Every path of ion_promisor_resolve(), done/fail/cancel, then/onDone/onFail, then(Promise), forget, generators and the notification loop, with re-entrant user code. Prototype promises are in Prototypes; forget by name is not modelled.
* **Event loop and ION facade** (partly). ION::promise() is an action of Promisor; dispatch, stop and reinit are libevent's.
* **Deferred queue** (partly). push and dequeue with callbacks that push and fail; ion_deferred_clean() at the end of the request is not modelled.
* **Signals and child processes** (partly). SIGCHLD, fork(), start(), whenStarted(), whenExit() and the spawn in the parent; of the child only what it does with the inherited queue. signal(), clearSignal(), kill() and the user methods are not modelled.
* **Exec** (partly). exec(), its output against its exit, and cancel(); the user, cwd and environment options are not modelled.
* **IPC** (partly). Both ends of a pair with framing cut anywhere, the callbacks of the parser, disconnection, closing and inherited descriptors. getContext() and the message's fields only read; the object ION\HTTP\WebSocketParser is not modelled.
* **Stream** (partly). Every method that changes the stream and every libevent callback, with re-entrant handlers; encrypt(), priorities, names and object lifetime are left out.
* **Token search** (partly). ion_stream_search_token() with its offset and limit, for tokens of one byte (Found, Position, LimitReached, Resumed); libevent's search is external, and a longer token that arrives in two pieces is not modelled.
* **Events** (not modelled). Unfinished code: the constructors of TimerEvent and SignalEvent always throw (they check the event before creating it), so most of it is unreachable.
* **Filesystem** (partly). watch(), unwatchAll() and readFile() with inotify; the kqueue build is not modelled.
* **HTTP messages and WebSocket frames** (partly). Requests and responses: every method, build() and parse(), http_parser as an external. The WebSocket frame objects and HTTP::request() are not modelled.
* **Crypto** (not modelled). Configuration of OpenSSL contexts: the logic is OpenSSL's.
* **Debug** (not modelled). Diagnostics output.
* **PHP callbacks and Zend glue** (not modelled). Argument marshalling, object tables and module startup; Promisor models what a callback call may do.

## Plan

Done: `Promisor` with `Future`, `Stream`, `Timers`, `Processes`, `Prototypes`, `Ipc` with `Channel`,
`Listener`, `Resolver`, `Files`, `Uri`, `Http`; proofs of every safety property that a passing run checks.

To model next, in this order:

1. Tokens of several bytes in `Stream`: the offset at which a search goes on when a token arrives
   in two pieces (`ion_stream_search_token()`), against a reference definition.
2. Signals: `Process::signal()`, `clearSignal()`, `kill()` and the table of signals, in `Processes`; a
   worker's pair of IPC objects across its fork and exit, composing `Processes` and `Ipc`.
3. Ticks that invoke a sequence: `Timers` with `Prototypes`; `incoming()` and `whenAccepted()` likewise.
4. The kqueue build of `Files`; the WebSocket objects.

