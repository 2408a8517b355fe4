----------------------------- MODULE Processes -----------------------------
(***************************************************************************)
(* Child processes: the deferred queue (ion_deferred_queue.c), workers     *)
(* (ChildProcess.c), commands (Process::exec()), Process::fork() and the   *)
(* SIGCHLD handler (ion_process.c), with the operating system's side.      *)
(*                                                                         *)
(* The main process is single threaded: it is in the loop, in              *)
(* ion_deferred_dequeue() or in ion_process_sigchld(), or in user code     *)
(* that one of those has called.  Its children run beside it.  A process   *)
(* is named by the worker, command or fork() that made it: a worker with   *)
(* one process needs no numbers.                                           *)
(***************************************************************************)
EXTENDS Integers, Sequences, FiniteSets

CONSTANTS
  Workers,    \* the ChildProcess objects, constructed by the main process
  Execs,      \* the calls of Process::exec()
  Forks,      \* the calls of Process::fork()
  Main,       \* the main process
  Liberties,  \* what the program does to each of them: see LibertyNames
  MaxQueue,   \* bound: a queue of this length gets no worker a second time
  MaxOthers,  \* bound: how many calls of exec() and fork() are made
  PipeSize    \* units of output a pipe holds

LibertyNames == {
  "twice",    \* start() again on a worker that is in the queue
  "late",     \* whenStarted() or whenExit() after the event
  "stop"}     \* the process is stopped by a signal, once

Children == Workers \cup Execs \cup Forks

ASSUME ChildrenAssumption ==
  /\ Workers \cap Execs = {} /\ Workers \cap Forks = {} /\ Execs \cap Forks = {}
  /\ Main \notin Children
ASSUME LibertiesAssumption == Liberties \in [Children -> SUBSET LibertyNames]
ASSUME BoundsAssumption == MaxQueue \in Nat /\ MaxOthers \in Nat /\ PipeSize \in Nat

VARIABLES
  queue,        \* GION(queue)->queue, items before pos included
  pos,          \* the item being called, 0 when the queue is not dequeued
  delayed,      \* GION(queue)->delayed
  armed,        \* the event of the queue is pending in libevent
  exception,    \* EG(exception)
  at,           \* where the main process is
  given,        \* the workers with an on_start callback
  started,      \* the workers with the STARTED flag
  finished,     \* ... with a flag of ION_PROCESS_FINISHED
  ipc,          \* ... whose ipc_child is set
  whenStarted,  \* prom_started
  whenExit,     \* prom_exit
  lost,         \* the workers dropped from the queue without a process
  childs,       \* GION(proc_childs)
  execs,        \* GION(proc_execs)
  deferred,     \* the deferred of each command
  cut,          \* the commands whose result lacks some of the output
  os,           \* what the operating system knows of each child
  reports,      \* the stops waitpid() has not reported
  sigchld,      \* SIGCHLD has come and its event is active
  pipe,         \* the output of a command that its bufferevent has not read
  births,       \* how many processes each worker has got
  crashed       \* a NULL pointer has been used

queueVars == <<queue, pos, delayed, armed, exception>>
workerVars == <<given, started, finished, ipc, whenStarted, whenExit, lost>>
execVars == <<deferred, cut>>
tables == <<childs, execs>>
osVars == <<os, reports, sigchld, pipe, births>>
vars == <<queueVars, at, workerVars, tables, execVars, osVars, crashed>>

\*   loop       in the event loop, or in user code it has called
\*   dequeue    at the head of the loop of ion_deferred_dequeue()
\*   spawned    ... in the handlers of whenStarted()
\*   reap       at the head of the loop of ion_process_sigchld()
\*   announced  ... in the handlers of whenExit() or of exec()
Place == {"loop", "dequeue", "spawned", "reap", "announced"}
UserCode == at \in {"loop", "spawned", "announced"}
Dequeuing == at \in {"dequeue", "spawned"}

May(p, liberty) == liberty \in Liberties[p]
Alive(p) == os[p] \in {"running", "resumed"}
Queued(w) == \E i \in DOMAIN queue : i > pos /\ queue[i] = w
Unreaped(p) == os[p] \notin {"none", "gone"}
FewOthers == Cardinality({p \in Execs \cup Forks : os[p] # "none"}) < MaxOthers
-----------------------------------------------------------------------------
(***************************************************************************)
(* Methods, called from user code in the main process.                     *)
(***************************************************************************)
\* Mutant: the length of the queue does not grow.
PushOver(w) ==
  /\ queue' = IF queue = <<>> THEN <<w>> ELSE [queue EXCEPT ![Len(queue)] = w]
  /\ delayed' = TRUE
  /\ armed' = (armed \/ ~delayed)

\* ion_deferred_queue_push()
Push(w) ==
  /\ queue' = Append(queue, w)
  /\ delayed' = TRUE
  /\ armed' = (armed \/ ~delayed)

Start(w) ==
  /\ UserCode
  /\ \/ w \notin given
     \/ w \in lost \ started
     \/ May(w, "twice") /\ Queued(w) /\ Len(queue) < MaxQueue
  /\ given' = given \cup {w}
  /\ lost' = lost \ {w}
  /\ Push(w)
  /\ UNCHANGED <<pos, exception, at, started, finished, ipc, whenStarted, whenExit,
                 tables, execVars, osVars, crashed>>

WhenStarted(w) ==
  /\ UserCode
  /\ whenStarted[w] = "none"
  /\ w \in started => May(w, "late")
  /\ whenStarted' = [whenStarted EXCEPT ![w] = "pending"]
  /\ UNCHANGED <<queueVars, at, given, started, finished, ipc, whenExit, lost,
                 tables, execVars, osVars, crashed>>

WhenExit(w) ==
  /\ UserCode
  /\ whenExit[w] = "none"
  /\ w \in finished => May(w, "late")
  /\ whenExit' = [whenExit EXCEPT ![w] = "pending"]
  /\ UNCHANGED <<queueVars, at, given, started, finished, ipc, whenStarted, lost,
                 tables, execVars, osVars, crashed>>

\* exec(): the child becomes a shell.  When fork() fails nothing changes.
Exec(e) ==
  /\ UserCode
  /\ os[e] = "none" /\ FewOthers
  /\ os' = [os EXCEPT ![e] = "running"]
  /\ execs' = execs \cup {e}
  /\ deferred' = [deferred EXCEPT ![e] = "pending"]
  /\ UNCHANGED <<queueVars, at, workerVars, childs, cut,
                 reports, sigchld, pipe, births, crashed>>

\* cancel() of that deferred: it has no canceler, cancel_signal is never sent.
Cancel(e) ==
  /\ UserCode
  /\ deferred[e] = "pending"
  /\ deferred' = [deferred EXCEPT ![e] = "canceled"]
  /\ UNCHANGED <<queueVars, at, workerVars, tables, cut, osVars, crashed>>

\* Mutant: the workers of a parent are spawned in its children too.
Anyone(me) == TRUE

\* worker->ppid == getpid()
Own(me) == me = Main

\* A child forked now has a copy of the queue, and goes on with it: it calls
\* _spawn() on every item not called yet.  Nobody else sees when.
WithInherited(child, n) ==
  [w \in Workers |-> n[w] +
     IF Own(child) THEN Cardinality({i \in DOMAIN queue : i > pos /\ queue[i] = w}) ELSE 0]

Fork(f) ==
  /\ UserCode
  /\ os[f] = "none" /\ FewOthers
  /\ os' = [os EXCEPT ![f] = "running"]
  /\ births' = WithInherited(f, births)
  /\ UNCHANGED <<queueVars, at, workerVars, tables, execVars,
                 reports, sigchld, pipe, crashed>>
-----------------------------------------------------------------------------
(***************************************************************************)
(* The deferred queue and ion_process_child_spawn().                       *)
(***************************************************************************)
Dequeue ==
  /\ at = "loop" /\ armed
  /\ armed' = FALSE
  /\ delayed' = FALSE
  /\ IF queue = <<>> THEN UNCHANGED <<at, pos>> ELSE at' = "dequeue" /\ pos' = 1
  /\ UNCHANGED <<queue, exception, workerVars, tables, execVars, osVars, crashed>>

AtItem(w) == at = "dequeue" /\ pos \in DOMAIN queue /\ queue[pos] = w

\* Mutant: the child is not put into the table.
Unlisted(w) == childs

Listed(w) == childs \cup {w}

\* Mutant: a promise is left as it is.
Unsettled(promise, w) == promise

Settled(promise, w) ==
  IF promise[w] = "pending" THEN [promise EXCEPT ![w] = "done"] ELSE promise

Spawn(w) ==
  /\ AtItem(w)
  /\ ~exception /\ w \in ipc
  /\ os' = [os EXCEPT ![w] = "running"]
  /\ births' = WithInherited(w, [births EXCEPT ![w] = @ + 1])
  /\ started' = started \cup {w}
  /\ ipc' = ipc \ {w}
  /\ childs' = Listed(w)
  /\ whenStarted' = Settled(whenStarted, w)
  /\ IF whenStarted[w] = "pending"
     THEN at' = "spawned" /\ UNCHANGED pos
     ELSE pos' = pos + 1 /\ UNCHANGED at
  /\ UNCHANGED <<queue, delayed, armed, exception, given, finished, whenExit, lost,
                 execs, execVars, reports, sigchld, pipe, crashed>>

\* The second process of a worker: ipc_child, released with the first, is NULL.
SpawnAgain(w) ==
  /\ AtItem(w)
  /\ ~exception /\ w \notin ipc
  /\ births' = [births EXCEPT ![w] = @ + 1]
  /\ crashed' = TRUE
  /\ UNCHANGED <<queueVars, at, workerVars, tables, execVars,
                 os, reports, sigchld, pipe>>

SpawnFails(w) ==
  /\ AtItem(w)
  /\ ~exception
  /\ exception' = TRUE
  /\ lost' = lost \cup {w}
  /\ pos' = pos + 1
  /\ UNCHANGED <<queue, delayed, armed, at, given, started, finished, ipc,
                 whenStarted, whenExit, tables, execVars, osVars, crashed>>

\* zend_call_function() calls nothing while an exception is pending.
Skip(w) ==
  /\ AtItem(w)
  /\ exception
  /\ lost' = lost \cup {w}
  /\ pos' = pos + 1
  /\ UNCHANGED <<queue, delayed, armed, exception, at, given, started, finished, ipc,
                 whenStarted, whenExit, tables, execVars, osVars, crashed>>

SpawnReturns ==
  /\ at = "spawned"
  /\ at' = "dequeue"
  /\ pos' = pos + 1
  /\ UNCHANGED <<queue, delayed, armed, exception, workerVars, tables, execVars,
                 osVars, crashed>>

\* Mutant: the length of the queue is not reset.
DequeuedKept ==
  /\ at = "dequeue" /\ pos \notin DOMAIN queue
  /\ at' = "loop"
  /\ pos' = 0
  /\ exception' = FALSE
  /\ UNCHANGED <<queue, delayed, armed, workerVars, tables, execVars, osVars, crashed>>

\* The exception leaves dispatch(); the program catches it and dispatches again.
Dequeued ==
  /\ at = "dequeue" /\ pos \notin DOMAIN queue
  /\ at' = "loop"
  /\ queue' = <<>>
  /\ pos' = 0
  /\ exception' = FALSE
  /\ UNCHANGED <<delayed, armed, workerVars, tables, execVars, osVars, crashed>>
-----------------------------------------------------------------------------
(***************************************************************************)
(* ion_process_sigchld().                                                  *)
(***************************************************************************)
Sigchld ==
  /\ at = "loop" /\ sigchld
  /\ at' = "reap"
  /\ sigchld' = FALSE
  /\ UNCHANGED <<queueVars, workerVars, tables, execVars,
                 os, reports, pipe, births, crashed>>

\* waitpid() has p to report.
Waited(p) ==
  /\ at = "reap"
  /\ os[p] = "zombie" \/ p \in reports
  /\ os' = IF os[p] = "zombie" THEN [os EXCEPT ![p] = "gone"] ELSE os
  /\ reports' = reports \ {p}
  /\ UNCHANGED <<queueVars, given, started, ipc, whenStarted, lost,
                 sigchld, births, crashed>>

\* Mutant: one child per signal.
ReapOne(pending) == IF pending THEN "announced" ELSE "loop"

Reaping(pending) == IF pending THEN "announced" ELSE "reap"

\* Mutant: the flags are set for a stop, not for an exit.
FlaggedStopped(w) == IF os[w] = "zombie" THEN finished ELSE finished \cup {w}

Flagged(w) == IF os[w] = "zombie" THEN finished \cup {w} ELSE finished

\* ion_process_child_exit(): a stop sets no flag, but is announced as an exit.
ReapWorker(w) ==
  /\ Waited(w)
  /\ w \in childs
  /\ childs' = childs \ {w}
  /\ finished' = Flagged(w)
  /\ whenExit' = Settled(whenExit, w)
  /\ at' = Reaping(whenExit[w] = "pending")
  /\ UNCHANGED <<execs, deferred, cut, pipe>>

\* ion_process_exec_exit(): the result gets what the bufferevent has read.
ReapExec(e) ==
  /\ Waited(e)
  /\ e \in execs
  /\ execs' = execs \ {e}
  /\ cut' = IF pipe[e] > 0 THEN cut \cup {e} ELSE cut
  /\ pipe' = [pipe EXCEPT ![e] = 0]
  /\ deferred' = Settled(deferred, e)
  /\ at' = Reaping(deferred[e] = "pending")
  /\ UNCHANGED <<childs, finished, whenExit>>

ReapOther(p) ==
  /\ Waited(p)
  /\ p \notin childs \cup execs
  /\ at' = Reaping(FALSE)
  /\ UNCHANGED <<tables, finished, whenExit, deferred, cut, pipe>>

ReapReturns ==
  /\ at = "announced"
  /\ at' = "reap"
  /\ UNCHANGED <<queueVars, workerVars, tables, execVars, osVars, crashed>>

Reaped ==
  /\ at = "reap"
  /\ \A p \in Children : os[p] # "zombie" /\ p \notin reports
  /\ at' = "loop"
  /\ UNCHANGED <<queueVars, workerVars, tables, execVars, osVars, crashed>>

\* The bufferevent of a command reads a unit of its pipe.
ReadOutput(e) ==
  /\ at = "loop"
  /\ pipe[e] > 0
  /\ pipe' = [pipe EXCEPT ![e] = @ - 1]
  /\ UNCHANGED <<queueVars, at, workerVars, tables, execVars,
                 os, reports, sigchld, births, crashed>>
-----------------------------------------------------------------------------
(***************************************************************************)
(* The children.                                                           *)
(***************************************************************************)
Write(e) ==
  /\ Alive(e)
  /\ e \in execs /\ pipe[e] < PipeSize
  /\ pipe' = [pipe EXCEPT ![e] = @ + 1]
  /\ UNCHANGED <<queueVars, at, workerVars, tables, execVars,
                 os, reports, sigchld, births, crashed>>

Changes(p, state, stops) ==
  /\ os' = [os EXCEPT ![p] = state]
  /\ reports' = stops
  /\ sigchld' = TRUE
  /\ UNCHANGED <<queueVars, at, workerVars, tables, execVars, pipe, births, crashed>>

Ends(p) ==
  /\ Alive(p) \/ os[p] = "stopped"
  /\ Changes(p, "zombie", reports \ {p})

Stops(p) ==
  /\ os[p] = "running" /\ May(p, "stop")
  /\ Changes(p, "stopped", reports \cup {p})

Continues(p) ==
  /\ os[p] = "stopped"
  /\ Changes(p, "resumed", reports \ {p})
-----------------------------------------------------------------------------
Init ==
  /\ queue = <<>> /\ pos = 0
  /\ delayed = FALSE /\ armed = FALSE /\ exception = FALSE
  /\ at = "loop"
  /\ given = {} /\ started = {} /\ finished = {} /\ lost = {}
  /\ ipc = Workers
  /\ whenStarted = [w \in Workers |-> "none"]
  /\ whenExit = [w \in Workers |-> "none"]
  /\ childs = {} /\ execs = {}
  /\ deferred = [e \in Execs |-> "none"]
  /\ cut = {}
  /\ os = [p \in Children |-> "none"]
  /\ reports = {} /\ sigchld = FALSE
  /\ pipe = [e \in Execs |-> 0]
  /\ births = [w \in Workers |-> 0]
  /\ crashed = FALSE

Method ==
  \/ \E w \in Workers : Start(w) \/ WhenStarted(w) \/ WhenExit(w)
  \/ \E e \in Execs : Exec(e) \/ Cancel(e)
  \/ \E f \in Forks : Fork(f)

Handler ==
  \/ Dequeue \/ SpawnReturns \/ Dequeued
  \/ \E w \in Workers : Spawn(w) \/ SpawnAgain(w) \/ SpawnFails(w) \/ Skip(w)
  \/ Sigchld \/ ReapReturns \/ Reaped
  \/ \E w \in Workers : ReapWorker(w)
  \/ \E e \in Execs : ReapExec(e)
  \/ \E p \in Children : ReapOther(p)

System ==
  \/ \E p \in Children : Ends(p) \/ Stops(p) \/ Continues(p)
  \/ \E e \in Execs : Write(e) \/ ReadOutput(e)

Next == ~crashed /\ (Method \/ Handler \/ System)

Spec == Init /\ [][Next]_vars

(***************************************************************************)
(* Each turn of the loop runs every active event, so one that is active    *)
(* again and again gets its turn; user code called by the loop returns.    *)
(***************************************************************************)
FairSpec ==
  /\ Spec
  /\ WF_vars(~crashed /\ Handler)
  /\ SF_vars(~crashed /\ Sigchld)
-----------------------------------------------------------------------------
PromiseState == {"none", "pending", "done"}

\* The types of the fields, and how they go together: pos is an item of the queue
\* or just past it, delayed says whether the event is pending, a worker with a
\* flag has been started, and a stop is reported while the process is stopped.
TypeOK ==
  /\ queue \in Seq(Workers)
  /\ IF Dequeuing THEN pos \in 1 .. Len(queue) + 1 ELSE pos = 0
  /\ at = "spawned" => pos \in 1 .. Len(queue)
  /\ delayed = armed /\ started = Workers \ ipc /\ finished \subseteq started
  /\ \A p \in reports : os[p] = "stopped"
  /\ delayed \in BOOLEAN /\ armed \in BOOLEAN /\ exception \in BOOLEAN
  /\ at \in Place
  /\ given \subseteq Workers /\ started \subseteq Workers /\ finished \subseteq Workers
  /\ ipc \subseteq Workers /\ lost \subseteq Workers
  /\ whenStarted \in [Workers -> PromiseState] /\ whenExit \in [Workers -> PromiseState]
  /\ childs \subseteq Workers /\ execs \subseteq Execs
  /\ deferred \in [Execs -> PromiseState \cup {"canceled"}]
  /\ cut \subseteq Execs /\ pipe \in [Execs -> Nat]
  /\ os \in [Children -> {"none", "running", "stopped", "resumed", "zombie", "gone"}]
  /\ reports \subseteq Children /\ sigchld \in BOOLEAN
  /\ births \in [Workers -> Nat]
  /\ crashed \in BOOLEAN

\* Workers left in the queue are going to be called: whoever pushed them, and
\* whatever was being called then, the event of the queue is pending
\* (ion_deferred_queue_push() arms it only when delayed is not set).
QueueArmed == queue # <<>> /\ ~Dequeuing => armed

\* A worker started once gets one process, though every process forked while it
\* is queued inherits the queue (the test of ppid in ion_process_child_spawn()).
OneProcess == \A w \in Workers : ~May(w, "twice") => births[w] <= 1

\* hasChildProcess() and the SIGCHLD handler find a worker or a command as long
\* as the operating system has a process for it, zombies included, and no longer.
Tracked ==
  \A p \in Workers \cup Execs :
    ~May(p, "stop") => (p \in childs \cup execs <=> Unreaped(p))

\* No promise waits for an event that is over.
Told ==
  \A w \in Workers :
    Liberties[w] = {} =>
      /\ ~(whenStarted[w] = "pending" /\ w \in started)
      /\ ~(whenExit[w] = "pending" /\ w \in finished)

\* whenExit() speaks of a process that is over and reaped, whose start has been
\* announced to whoever asked, and which isFinished() reports.
Truthful ==
  \A w \in Workers :
    Liberties[w] = {} /\ whenExit[w] = "done" =>
      os[w] = "gone" /\ w \in finished /\ whenStarted[w] # "pending"

\* Every child is reaped, though the SIGCHLDs of several may be delivered as one.
EveryChildReaped ==
  \A p \in Children : os[p] = "zombie" ~> (os[p] = "gone" \/ crashed)

\* start() is never forgotten: a process is forked, or an exception was pending.
EveryStartServed ==
  \A w \in Workers : w \in given \ lost ~> (w \in started \cup lost \/ crashed)

\* docs/ru/process.md: the result of exec() holds the output of the command.
OutputComplete ==
  \A e \in Execs : deferred[e] = "done" => e \notin cut

============================================================================
