--------------------------- MODULE ProcessesProofs ---------------------------
(***************************************************************************)
(* For any number of workers, commands and forks: workers left in the      *)
(* queue are going to be called, the tables follow the operating system,   *)
(* and a worker started once gets one process.                             *)
(***************************************************************************)
EXTENDS Processes, TLAPS

\* A worker that has not been spawned has no process yet, and only those that
\* may be stopped have a stop to report.
Fresh == /\ \A w \in ipc : os[w] = "none"
         /\ \A p \in reports : May(p, "stop")

\* The first item of the queue that is yet to be called.
From == IF at = "dequeue" THEN pos ELSE pos + 1

\* A worker started once is queued at most once, and only before its process.
Once(w) ==
  /\ births[w] = IF w \in started THEN 1 ELSE 0
  /\ w \in started => w \in given
  /\ \A i \in DOMAIN queue : i >= From /\ queue[i] = w =>
       w \in given /\ w \notin started \cup lost
  /\ \A i, j \in DOMAIN queue :
       i >= From /\ j >= From /\ queue[i] = w /\ queue[j] = w => i = j

StartedOnce == \A w \in Workers : ~May(w, "twice") => Once(w)

-----------------------------------------------------------------------------
(* What the operations on the state do. *)

\* A forked child spawns no worker of the main process.
LEMMA ChildrenAlone ==
  ASSUME NEW child \in Children, NEW n \in [Workers -> Nat]
  PROVE  WithInherited(child, n) = n
<1>1. ~Own(child)
  BY ChildrenAssumption DEF Own
<1>2. WithInherited(child, n) = [w \in Workers |-> n[w] + 0]
  BY <1>1 DEF WithInherited
<1>3. \A w \in Workers : n[w] + 0 = n[w]
  OBVIOUS
<1> QED
  BY <1>2, <1>3

\* TypeOK in two parts: what is about the queue, and the rest.
QueueType ==
  /\ queue \in Seq(Workers)
  /\ IF Dequeuing THEN pos \in 1 .. Len(queue) + 1 ELSE pos = 0
  /\ at = "spawned" => pos \in 1 .. Len(queue)
  /\ delayed = armed /\ delayed \in BOOLEAN /\ armed \in BOOLEAN
  /\ exception \in BOOLEAN

OtherType ==
  /\ started = Workers \ ipc /\ finished \subseteq started
  /\ \A p \in reports : os[p] = "stopped"
  /\ at \in Place
  /\ given \subseteq Workers /\ started \subseteq Workers /\ finished \subseteq Workers
  /\ ipc \subseteq Workers /\ lost \subseteq Workers
  /\ whenStarted \in [Workers -> PromiseState] /\ whenExit \in [Workers -> PromiseState]
  /\ childs \subseteq Workers /\ execs \subseteq Execs
  /\ deferred \in [Execs -> PromiseState \cup {"canceled"}]
  /\ cut \subseteq Execs /\ pipe \in [Execs -> Nat]
  /\ os \in [Children -> {"none", "running", "stopped", "resumed", "zombie", "gone"}]
  /\ reports \subseteq Children /\ sigchld \in BOOLEAN
  /\ births \in [Workers -> Nat]
  /\ crashed \in BOOLEAN

LEMMA TypeParts == TypeOK <=> QueueType /\ OtherType
BY DEF TypeOK, QueueType, OtherType

\* What ion_deferred_queue_push() does to the array.
LEMMA PushFacts ==
  ASSUME NEW s \in Seq(Workers), NEW w \in Workers
  PROVE  /\ Append(s, w) \in Seq(Workers)
         /\ Len(s) \in Nat /\ Len(Append(s, w)) = Len(s) + 1
         /\ DOMAIN s = 1 .. Len(s) /\ DOMAIN Append(s, w) = 1 .. Len(s) + 1
         /\ \A i \in DOMAIN s : Append(s, w)[i] = s[i]
         /\ Append(s, w)[Len(s) + 1] = w
OBVIOUS

\* The item being called is in the array, the next one is in it or just past it.
LEMMA ItemFacts ==
  ASSUME TypeOK, NEW w \in Workers, AtItem(w)
  PROVE  /\ pos \in Nat /\ Len(queue) \in Nat /\ DOMAIN queue = 1 .. Len(queue)
         /\ pos \in 1 .. Len(queue) /\ pos + 1 \in 1 .. Len(queue) + 1
<1>1. queue \in Seq(Workers) /\ pos \in DOMAIN queue
  BY DEF TypeOK, AtItem
<1>2. DOMAIN queue = 1 .. Len(queue) /\ Len(queue) \in Nat
  BY <1>1
<1> QED
  BY <1>1, <1>2

\* Every action keeps the types, and what they say of the queue.
LEMMA TypeStep ==
  ASSUME TypeOK, Fresh, [Next]_vars
  PROVE  TypeOK' /\ Fresh'
<1> DEFINE Goal == TypeOK' /\ Fresh'
<1> USE ChildrenAssumption DEF Children
<1>0. CASE UNCHANGED vars
  BY <1>0 DEF vars, queueVars, workerVars, execVars, tables, osVars, TypeOK, Fresh, Dequeuing
<1>1. ASSUME NEW w \in Workers, Start(w)
      PROVE  TypeOK' /\ Fresh'
  <2>1. queue \in Seq(Workers) /\ armed \in BOOLEAN /\ delayed = armed
    BY DEF TypeOK
  <2>2. /\ queue' \in Seq(Workers) /\ pos' = pos /\ at' = at
        /\ Len(queue) \in Nat /\ Len(queue') = Len(queue) + 1
    BY <1>1, <2>1, PushFacts DEF Start, Push
  <2>3. armed' = TRUE /\ delayed' = TRUE
    BY <1>1, <2>1 DEF Start, Push
  <2>4. IF Dequeuing' THEN pos' \in 1 .. Len(queue') + 1 ELSE pos' = 0
    <3>1. Dequeuing' <=> Dequeuing
      BY <2>2 DEF Dequeuing
    <3>2. IF Dequeuing THEN pos \in 1 .. Len(queue) + 1 ELSE pos = 0
      BY DEF TypeOK
    <3> QED
      BY <2>2, <3>1, <3>2
  <2>5. QueueType'
    <3>1. exception' = exception /\ exception \in BOOLEAN
      BY <1>1 DEF Start, TypeOK
    <3>2. at' = "spawned" => pos' \in 1 .. Len(queue')
      BY <2>2 DEF TypeOK
    <3> QED
      BY <2>2, <2>3, <2>4, <3>1, <3>2 DEF QueueType
  <2>6. OtherType' /\ Fresh'
    BY <1>1 DEF Start, Push, TypeOK, OtherType, Fresh, workerVars, execVars, tables, osVars
  <2> QED
    BY <2>5, <2>6, TypeParts, PTL
<1>2. ASSUME NEW w \in Workers, WhenStarted(w)
      PROVE  TypeOK' /\ Fresh'
  BY <1>2 DEF WhenStarted, UserCode, queueVars, workerVars, execVars, tables, osVars,
     TypeOK, Fresh, Place, PromiseState, Dequeuing
<1>3. ASSUME NEW w \in Workers, WhenExit(w)
      PROVE  TypeOK' /\ Fresh'
  BY <1>3 DEF WhenExit, UserCode, queueVars, workerVars, execVars, tables, osVars, TypeOK,
     Fresh, Place, PromiseState, Dequeuing
<1>4. ASSUME NEW e \in Execs, Exec(e)
      PROVE  TypeOK' /\ Fresh'
  BY <1>4 DEF Exec, UserCode, queueVars, workerVars, execVars, tables, osVars, TypeOK,
     Fresh, Place, PromiseState, Dequeuing
<1>5. ASSUME NEW e \in Execs, Cancel(e)
      PROVE  TypeOK' /\ Fresh'
  BY <1>5 DEF Cancel, UserCode, queueVars, workerVars, execVars, tables, osVars, TypeOK,
     Fresh, Place, PromiseState, Dequeuing
<1>6. ASSUME NEW f \in Forks, Fork(f)
      PROVE  TypeOK' /\ Fresh'
  BY <1>6, ChildrenAlone DEF Fork, UserCode, queueVars, workerVars, execVars, tables,
     osVars, TypeOK, Fresh, Place, PromiseState, Dequeuing
<1>7. ASSUME Dequeue
      PROVE  TypeOK' /\ Fresh'
  <2>1. Len(queue) \in Nat /\ (queue # <<>> => Len(queue) > 0)
    BY DEF TypeOK
  <2>2. 1 \in 1 .. Len(queue) + 1
    BY <2>1
  <2>3. QueueType'
    BY <1>7, <2>1, <2>2 DEF Dequeue, TypeOK, QueueType, Dequeuing
  <2>4. OtherType' /\ Fresh'
    BY <1>7 DEF Dequeue, TypeOK, OtherType, Fresh, Place, queueVars, workerVars, execVars,
       tables, osVars
  <2> QED
    BY <2>3, <2>4, TypeParts, PTL
<1>8. ASSUME SpawnReturns
      PROVE  TypeOK' /\ Fresh'
  <2>1. pos \in 1 .. Len(queue) /\ Len(queue) \in Nat
    BY <1>8 DEF SpawnReturns, TypeOK
  <2>2. pos + 1 \in 1 .. Len(queue) + 1
    BY <2>1
  <2>3. QueueType'
    BY <1>8, <2>1, <2>2 DEF SpawnReturns, TypeOK, QueueType, Dequeuing
  <2>4. OtherType' /\ Fresh'
    BY <1>8 DEF SpawnReturns, TypeOK, OtherType, Fresh, Place, queueVars, workerVars,
       execVars, tables, osVars
  <2> QED
    BY <2>3, <2>4, TypeParts, PTL
<1>9. ASSUME Dequeued
      PROVE  TypeOK' /\ Fresh'
  <2>1. <<>> \in Seq(Workers)
    OBVIOUS
  <2>2. at' = "loop" /\ pos' = 0 /\ queue' = <<>>
    BY <1>9 DEF Dequeued
  <2>3. QueueType'
    BY <1>9, <2>1, <2>2 DEF Dequeued, TypeOK, QueueType, Dequeuing
  <2>4. OtherType' /\ Fresh'
    BY <1>9 DEF Dequeued, TypeOK, OtherType, Fresh, Place, queueVars, workerVars,
       execVars, tables, osVars
  <2> QED
    BY <2>3, <2>4, TypeParts, PTL
<1>10. ASSUME NEW w \in Workers, Spawn(w)
      PROVE  TypeOK' /\ Fresh'
  <2>1. /\ w \in ipc /\ at = "dequeue" /\ queue' = queue
        /\ delayed' = delayed /\ armed' = armed /\ exception' = exception
    BY <1>10 DEF Spawn, AtItem
  <2>2. \/ at' = "spawned" /\ pos' = pos
        \/ at' = at /\ pos' = pos + 1
    BY <1>10 DEF Spawn
  <2>3. pos' \in 1 .. Len(queue') + 1
    BY <1>10, <2>1, <2>2, ItemFacts DEF Spawn
  <2>4. QueueType'
    BY <1>10, <2>1, <2>2, <2>3, ItemFacts DEF TypeOK, QueueType, Dequeuing, Spawn
  <2>5. births' \in [Workers -> Nat]
    <3>1. [births EXCEPT ![w] = @ + 1] \in [Workers -> Nat]
      BY DEF TypeOK
    <3> QED
      BY <1>10, <3>1, ChildrenAlone DEF Spawn
  <2>6. whenStarted' \in [Workers -> PromiseState]
    BY <1>10 DEF Spawn, Settled, TypeOK, PromiseState
  <2>7. /\ started' = Workers \ ipc' /\ finished' \subseteq started' /\ childs' \subseteq Workers
        /\ started' \subseteq Workers /\ ipc' \subseteq Workers /\ at' \in Place
    BY <1>10, <2>2 DEF Spawn, Listed, TypeOK, Place
  <2>8. /\ os' \in [Children -> {"none", "running", "stopped", "resumed", "zombie", "gone"}]
        /\ \A p \in reports' : os'[p] = "stopped"
        /\ Fresh'
    BY <1>10, <2>1 DEF Spawn, TypeOK, Fresh
  <2>9. OtherType'
    BY <1>10, <2>5, <2>6, <2>7, <2>8 DEF Spawn, TypeOK, OtherType, execVars
  <2> QED
    BY <2>4, <2>8, <2>9, TypeParts, PTL
<1>11. ASSUME NEW w \in Workers, SpawnAgain(w)
      PROVE  TypeOK' /\ Fresh'
  <2>1. UNCHANGED <<queueVars, at, workerVars, tables, execVars, os, reports, sigchld, pipe>>
        /\ crashed' = TRUE /\ births' \in [Workers -> Nat]
    BY <1>11 DEF SpawnAgain, TypeOK
  <2> QED
    BY <2>1 DEF TypeOK, Fresh, Dequeuing, queueVars, workerVars, execVars, tables, osVars
<1>12. ASSUME NEW w \in Workers, SpawnFails(w)
      PROVE  TypeOK' /\ Fresh'
  <2>1. /\ at = "dequeue" /\ at' = at /\ queue' = queue /\ pos' = pos + 1
        /\ delayed' = delayed /\ armed' = armed
    BY <1>12 DEF SpawnFails, AtItem
  <2>2. pos' \in 1 .. Len(queue') + 1
    BY <1>12, <2>1, ItemFacts DEF SpawnFails
  <2>3. QueueType'
    BY <1>12, <2>1, <2>2 DEF SpawnFails, TypeOK, QueueType, Dequeuing
  <2>4. OtherType' /\ Fresh'
    BY <1>12, <2>1 DEF SpawnFails, TypeOK, OtherType, Fresh, queueVars, workerVars,
       execVars, tables, osVars
  <2> QED
    BY <2>3, <2>4, TypeParts, PTL
<1>13. ASSUME NEW w \in Workers, Skip(w)
      PROVE  TypeOK' /\ Fresh'
  <2>1. /\ at = "dequeue" /\ at' = at /\ queue' = queue /\ pos' = pos + 1
        /\ delayed' = delayed /\ armed' = armed
    BY <1>13 DEF Skip, AtItem
  <2>2. pos' \in 1 .. Len(queue') + 1
    BY <1>13, <2>1, ItemFacts DEF Skip
  <2>3. QueueType'
    BY <1>13, <2>1, <2>2 DEF Skip, TypeOK, QueueType, Dequeuing
  <2>4. OtherType' /\ Fresh'
    BY <1>13, <2>1 DEF Skip, TypeOK, OtherType, Fresh, queueVars, workerVars, execVars,
       tables, osVars
  <2> QED
    BY <2>3, <2>4, TypeParts, PTL
<1>14. ASSUME Sigchld
      PROVE  TypeOK' /\ Fresh'
  BY <1>14 DEF Sigchld, queueVars, workerVars, execVars, tables, osVars, TypeOK, Fresh,
     Place, PromiseState, Dequeuing
<1>15. ASSUME ReapReturns
      PROVE  TypeOK' /\ Fresh'
  BY <1>15 DEF ReapReturns, queueVars, workerVars, execVars, tables, osVars, TypeOK,
     Fresh, Place, PromiseState, Dequeuing
<1>16. ASSUME Reaped
      PROVE  TypeOK' /\ Fresh'
  BY <1>16 DEF Reaped, queueVars, workerVars, execVars, tables, osVars, TypeOK, Fresh,
     Place, PromiseState, Dequeuing
<1>17. ASSUME NEW w \in Workers, ReapWorker(w)
      PROVE  TypeOK' /\ Fresh'
  BY <1>17 DEF ReapWorker, Waited, Flagged, Settled, Reaping, queueVars, workerVars,
     execVars, tables, osVars, TypeOK, Fresh, Place, PromiseState, Dequeuing
<1>18. ASSUME NEW e \in Execs, ReapExec(e)
      PROVE  TypeOK' /\ Fresh'
  BY <1>18 DEF ReapExec, Waited, Settled, Reaping, queueVars, workerVars, execVars,
     tables, osVars, TypeOK, Fresh, Place, PromiseState, Dequeuing
<1>19. ASSUME NEW p \in Children, ReapOther(p)
      PROVE  TypeOK' /\ Fresh'
  BY <1>19 DEF ReapOther, Waited, Reaping, queueVars, workerVars, execVars, tables,
     osVars, TypeOK, Fresh, Place, PromiseState, Dequeuing
<1>20. ASSUME NEW p \in Children, Ends(p)
      PROVE  TypeOK' /\ Fresh'
  BY <1>20 DEF Ends, Changes, Alive, queueVars, workerVars, execVars, tables, osVars,
     TypeOK, Fresh, Place, PromiseState, Dequeuing
<1>21. ASSUME NEW p \in Children, Stops(p)
      PROVE  TypeOK' /\ Fresh'
  BY <1>21 DEF Stops, Changes, queueVars, workerVars, execVars, tables, osVars, TypeOK,
     Fresh, Place, PromiseState, Dequeuing
<1>22. ASSUME NEW p \in Children, Continues(p)
      PROVE  TypeOK' /\ Fresh'
  BY <1>22 DEF Continues, Changes, queueVars, workerVars, execVars, tables, osVars,
     TypeOK, Fresh, Place, PromiseState, Dequeuing
<1>23. ASSUME NEW e \in Execs, Write(e)
      PROVE  TypeOK' /\ Fresh'
  BY <1>23 DEF Write, Alive, queueVars, workerVars, execVars, tables, osVars, TypeOK,
     Fresh, Place, PromiseState, Dequeuing
<1>24. ASSUME NEW e \in Execs, ReadOutput(e)
      PROVE  TypeOK' /\ Fresh'
  BY <1>24 DEF ReadOutput, queueVars, workerVars, execVars, tables, osVars, TypeOK, Fresh,
     Place, PromiseState, Dequeuing
<1> QED
  BY <1>0, <1>1, <1>2, <1>3, <1>4, <1>5, <1>6, <1>7, <1>8, <1>9, <1>10, <1>11, <1>12,
     <1>13, <1>14, <1>15, <1>16, <1>17, <1>18, <1>19, <1>20, <1>21, <1>22, <1>23, <1>24
     DEF Next, Method, Handler, System


\* The event of the queue stays pending as long as an item waits for it.
LEMMA ArmedStep ==
  ASSUME TypeOK, QueueArmed, [Next]_vars
  PROVE  QueueArmed'
<1>0. CASE UNCHANGED vars
  BY <1>0 DEF vars, queueVars, QueueArmed, Dequeuing
<1>1. ASSUME NEW w \in Workers, Start(w)
      PROVE  QueueArmed'
  BY <1>1 DEF Start, Push, UserCode, queueVars, QueueArmed, Dequeuing, TypeOK
<1>2. ASSUME NEW w \in Workers, WhenStarted(w)
      PROVE  QueueArmed'
  BY <1>2 DEF WhenStarted, UserCode, queueVars, QueueArmed, Dequeuing, TypeOK
<1>3. ASSUME NEW w \in Workers, WhenExit(w)
      PROVE  QueueArmed'
  BY <1>3 DEF WhenExit, UserCode, queueVars, QueueArmed, Dequeuing, TypeOK
<1>4. ASSUME NEW e \in Execs, Exec(e)
      PROVE  QueueArmed'
  BY <1>4 DEF Exec, UserCode, queueVars, QueueArmed, Dequeuing, TypeOK
<1>5. ASSUME NEW e \in Execs, Cancel(e)
      PROVE  QueueArmed'
  BY <1>5 DEF Cancel, UserCode, queueVars, QueueArmed, Dequeuing, TypeOK
<1>6. ASSUME NEW f \in Forks, Fork(f)
      PROVE  QueueArmed'
  BY <1>6 DEF Fork, UserCode, queueVars, QueueArmed, Dequeuing, TypeOK
<1>7. ASSUME Dequeue
      PROVE  QueueArmed'
  BY <1>7 DEF Dequeue, queueVars, QueueArmed, Dequeuing, TypeOK
<1>8. ASSUME SpawnReturns
      PROVE  QueueArmed'
  BY <1>8 DEF SpawnReturns, queueVars, QueueArmed, Dequeuing, TypeOK
<1>9. ASSUME Dequeued
      PROVE  QueueArmed'
  BY <1>9 DEF Dequeued, queueVars, QueueArmed, Dequeuing, TypeOK
<1>10. ASSUME NEW w \in Workers, Spawn(w)
      PROVE  QueueArmed'
  BY <1>10 DEF Spawn, AtItem, Listed, queueVars, QueueArmed, Dequeuing, TypeOK
<1>11. ASSUME NEW w \in Workers, SpawnAgain(w)
      PROVE  QueueArmed'
  BY <1>11 DEF SpawnAgain, AtItem, queueVars, QueueArmed, Dequeuing, TypeOK
<1>12. ASSUME NEW w \in Workers, SpawnFails(w)
      PROVE  QueueArmed'
  BY <1>12 DEF SpawnFails, AtItem, queueVars, QueueArmed, Dequeuing, TypeOK
<1>13. ASSUME NEW w \in Workers, Skip(w)
      PROVE  QueueArmed'
  BY <1>13 DEF Skip, AtItem, queueVars, QueueArmed, Dequeuing, TypeOK
<1>14. ASSUME Sigchld
      PROVE  QueueArmed'
  BY <1>14 DEF Sigchld, queueVars, QueueArmed, Dequeuing, TypeOK
<1>15. ASSUME ReapReturns
      PROVE  QueueArmed'
  BY <1>15 DEF ReapReturns, queueVars, QueueArmed, Dequeuing, TypeOK
<1>16. ASSUME Reaped
      PROVE  QueueArmed'
  BY <1>16 DEF Reaped, queueVars, QueueArmed, Dequeuing, TypeOK
<1>17. ASSUME NEW w \in Workers, ReapWorker(w)
      PROVE  QueueArmed'
  BY <1>17 DEF ReapWorker, Waited, Reaping, queueVars, QueueArmed, Dequeuing, TypeOK
<1>18. ASSUME NEW e \in Execs, ReapExec(e)
      PROVE  QueueArmed'
  BY <1>18 DEF ReapExec, Waited, Reaping, queueVars, QueueArmed, Dequeuing, TypeOK
<1>19. ASSUME NEW p \in Children, ReapOther(p)
      PROVE  QueueArmed'
  BY <1>19 DEF ReapOther, Waited, Reaping, queueVars, QueueArmed, Dequeuing, TypeOK
<1>20. ASSUME NEW p \in Children, Ends(p)
      PROVE  QueueArmed'
  BY <1>20 DEF Ends, Changes, Alive, queueVars, QueueArmed, Dequeuing, TypeOK
<1>21. ASSUME NEW p \in Children, Stops(p)
      PROVE  QueueArmed'
  BY <1>21 DEF Stops, Changes, queueVars, QueueArmed, Dequeuing, TypeOK
<1>22. ASSUME NEW p \in Children, Continues(p)
      PROVE  QueueArmed'
  BY <1>22 DEF Continues, Changes, queueVars, QueueArmed, Dequeuing, TypeOK
<1>23. ASSUME NEW e \in Execs, Write(e)
      PROVE  QueueArmed'
  BY <1>23 DEF Write, queueVars, QueueArmed, Dequeuing, TypeOK
<1>24. ASSUME NEW e \in Execs, ReadOutput(e)
      PROVE  QueueArmed'
  BY <1>24 DEF ReadOutput, queueVars, QueueArmed, Dequeuing, TypeOK
<1> QED
  BY <1>0, <1>1, <1>2, <1>3, <1>4, <1>5, <1>6, <1>7, <1>8, <1>9, <1>10, <1>11, <1>12,
     <1>13, <1>14, <1>15, <1>16, <1>17, <1>18, <1>19, <1>20, <1>21, <1>22, <1>23, <1>24
     DEF Next, Method, Handler, System

\* A process enters its table when it is forked and leaves it when it is reaped.
LEMMA TrackedStep ==
  ASSUME TypeOK, Fresh, Tracked, [Next]_vars
  PROVE  Tracked'
<1> USE ChildrenAssumption DEF Children
<1>0. CASE UNCHANGED vars
  BY <1>0 DEF vars, tables, osVars, Tracked, Unreaped
<1>1. ASSUME NEW w \in Workers, Start(w)
      PROVE  Tracked'
  BY <1>1 DEF Start, Push, UserCode, tables, osVars, Tracked, Unreaped, Fresh, TypeOK
<1>2. ASSUME NEW w \in Workers, WhenStarted(w)
      PROVE  Tracked'
  BY <1>2 DEF WhenStarted, UserCode, tables, osVars, Tracked, Unreaped, Fresh, TypeOK
<1>3. ASSUME NEW w \in Workers, WhenExit(w)
      PROVE  Tracked'
  BY <1>3 DEF WhenExit, UserCode, tables, osVars, Tracked, Unreaped, Fresh, TypeOK
<1>4. ASSUME NEW e \in Execs, Exec(e)
      PROVE  Tracked'
  BY <1>4 DEF Exec, UserCode, tables, osVars, Tracked, Unreaped, Fresh, TypeOK
<1>5. ASSUME NEW e \in Execs, Cancel(e)
      PROVE  Tracked'
  BY <1>5 DEF Cancel, UserCode, tables, osVars, Tracked, Unreaped, Fresh, TypeOK
<1>6. ASSUME NEW f \in Forks, Fork(f)
      PROVE  Tracked'
  BY <1>6 DEF Fork, UserCode, tables, osVars, Tracked, Unreaped, Fresh, TypeOK
<1>7. ASSUME Dequeue
      PROVE  Tracked'
  BY <1>7 DEF Dequeue, tables, osVars, Tracked, Unreaped, Fresh, TypeOK
<1>8. ASSUME SpawnReturns
      PROVE  Tracked'
  BY <1>8 DEF SpawnReturns, tables, osVars, Tracked, Unreaped, Fresh, TypeOK
<1>9. ASSUME Dequeued
      PROVE  Tracked'
  BY <1>9 DEF Dequeued, tables, osVars, Tracked, Unreaped, Fresh, TypeOK
<1>10. ASSUME NEW w \in Workers, Spawn(w)
      PROVE  Tracked'
  BY <1>10 DEF Spawn, AtItem, Listed, tables, osVars, Tracked, Unreaped, Fresh, TypeOK
<1>11. ASSUME NEW w \in Workers, SpawnAgain(w)
      PROVE  Tracked'
  BY <1>11 DEF SpawnAgain, AtItem, tables, osVars, Tracked, Unreaped, Fresh, TypeOK
<1>12. ASSUME NEW w \in Workers, SpawnFails(w)
      PROVE  Tracked'
  BY <1>12 DEF SpawnFails, AtItem, tables, osVars, Tracked, Unreaped, Fresh, TypeOK
<1>13. ASSUME NEW w \in Workers, Skip(w)
      PROVE  Tracked'
  BY <1>13 DEF Skip, AtItem, tables, osVars, Tracked, Unreaped, Fresh, TypeOK
<1>14. ASSUME Sigchld
      PROVE  Tracked'
  BY <1>14 DEF Sigchld, tables, osVars, Tracked, Unreaped, Fresh, TypeOK
<1>15. ASSUME ReapReturns
      PROVE  Tracked'
  BY <1>15 DEF ReapReturns, tables, osVars, Tracked, Unreaped, Fresh, TypeOK
<1>16. ASSUME Reaped
      PROVE  Tracked'
  BY <1>16 DEF Reaped, tables, osVars, Tracked, Unreaped, Fresh, TypeOK
<1>17. ASSUME NEW w \in Workers, ReapWorker(w)
      PROVE  Tracked'
  BY <1>17 DEF ReapWorker, Waited, Reaping, tables, osVars, Tracked, Unreaped, Fresh, TypeOK
<1>18. ASSUME NEW e \in Execs, ReapExec(e)
      PROVE  Tracked'
  BY <1>18 DEF ReapExec, Waited, Reaping, tables, osVars, Tracked, Unreaped, Fresh, TypeOK
<1>19. ASSUME NEW p \in Children, ReapOther(p)
      PROVE  Tracked'
  BY <1>19 DEF ReapOther, Waited, Reaping, tables, osVars, Tracked, Unreaped, Fresh, TypeOK
<1>20. ASSUME NEW p \in Children, Ends(p)
      PROVE  Tracked'
  BY <1>20 DEF Ends, Changes, Alive, tables, osVars, Tracked, Unreaped, Fresh, TypeOK
<1>21. ASSUME NEW p \in Children, Stops(p)
      PROVE  Tracked'
  BY <1>21 DEF Stops, Changes, tables, osVars, Tracked, Unreaped, Fresh, TypeOK
<1>22. ASSUME NEW p \in Children, Continues(p)
      PROVE  Tracked'
  BY <1>22 DEF Continues, Changes, tables, osVars, Tracked, Unreaped, Fresh, TypeOK
<1>23. ASSUME NEW e \in Execs, Write(e)
      PROVE  Tracked'
  BY <1>23 DEF Write, tables, osVars, Tracked, Unreaped, Fresh, TypeOK
<1>24. ASSUME NEW e \in Execs, ReadOutput(e)
      PROVE  Tracked'
  BY <1>24 DEF ReadOutput, tables, osVars, Tracked, Unreaped, Fresh, TypeOK
<1> QED
  BY <1>0, <1>1, <1>2, <1>3, <1>4, <1>5, <1>6, <1>7, <1>8, <1>9, <1>10, <1>11, <1>12,
     <1>13, <1>14, <1>15, <1>16, <1>17, <1>18, <1>19, <1>20, <1>21, <1>22, <1>23, <1>24
     DEF Next, Method, Handler, System

\* What Once says of u is not disturbed when nothing is pushed, no item gets
\* pending again, and u is neither spawned nor dropped.
LEMMA OnceKept ==
  ASSUME TypeOK, NEW u \in Workers, Once(u),
         queue' = queue, From' \in Nat, From' >= From,
         births'[u] = births[u], u \in started' <=> u \in started,
         u \in given => u \in given', u \in lost' => u \in lost
  PROVE  Once(u)'
<1>1. From \in Nat /\ DOMAIN queue = 1 .. Len(queue)
  BY DEF TypeOK, From, Dequeuing
<1>2. \A i \in DOMAIN queue' : i >= From' => i \in DOMAIN queue /\ i >= From
  BY <1>1
<1>3. births'[u] = IF u \in started' THEN 1 ELSE 0
  BY DEF Once
<1>4. u \in started' => u \in given'
  BY DEF Once
<1>5. \A i \in DOMAIN queue' : i >= From' /\ queue'[i] = u =>
        u \in given' /\ u \notin started' \cup lost'
  BY <1>2 DEF Once
<1>6. \A i, j \in DOMAIN queue' :
        i >= From' /\ j >= From' /\ queue'[i] = u /\ queue'[j] = u => i = j
  BY <1>2 DEF Once
<1> QED
  BY <1>3, <1>4, <1>5, <1>6 DEF Once

\* A worker started once stays so: what is appended to the queue is not in it.
LEMMA OnceStep ==
  ASSUME TypeOK, TypeOK', Fresh, NEW u \in Workers, ~May(u, "twice"), Once(u), [Next]_vars
  PROVE  Once(u)'
<1> USE ChildrenAssumption DEF Children
<1>t. /\ queue \in Seq(Workers) /\ Len(queue) \in Nat /\ DOMAIN queue = 1 .. Len(queue)
      /\ pos \in Nat /\ From \in Nat /\ births \in [Workers -> Nat]
      /\ started = Workers \ ipc /\ at \in Place /\ (~Dequeuing => pos = 0)
  BY DEF TypeOK, From, Dequeuing
<1>0. CASE UNCHANGED vars
  <2>1. From' = From
    BY <1>0 DEF vars, queueVars, From
  <2> QED
    BY <1>0, <1>t, <2>1, OnceKept DEF vars, queueVars, workerVars, osVars
<1>1. ASSUME NEW w \in Workers, Start(w)
      PROVE  Once(u)'
  <2>1. /\ queue' = Append(queue, w) /\ pos' = pos /\ at' = at /\ births' = births
        /\ started' = started /\ given' = given \cup {w} /\ lost' = lost \ {w}
        /\ at # "dequeue"
    BY <1>1 DEF Start, Push, osVars, UserCode
  <2>2. /\ From' = From /\ DOMAIN queue' = 1 .. Len(queue) + 1
        /\ \A i \in 1 .. Len(queue) : queue'[i] = queue[i]
        /\ queue'[Len(queue) + 1] = w
    BY <1>t, <2>1, PushFacts DEF From
  <2>3. CASE w # u
    BY <1>t, <2>1, <2>2, <2>3 DEF Once
  <2>4. CASE w = u
    <3>1. w \notin given \/ w \in lost \ started
      BY <1>1, <2>4 DEF Start
    <3>2. \A i \in 1 .. Len(queue) : i >= From => queue[i] # u
      BY <1>t, <2>4, <3>1 DEF Once
    <3>3. u \notin started /\ u \in given' /\ u \notin lost'
      BY <2>1, <2>4, <3>1 DEF Once
    <3>4. \A i \in DOMAIN queue' : i >= From' /\ queue'[i] = u => i = Len(queue) + 1
      BY <1>t, <2>2, <3>2
    <3> QED
      BY <2>1, <3>3, <3>4 DEF Once
  <2> QED
    BY <2>3, <2>4
<1>2. ASSUME NEW w \in Workers, WhenStarted(w)
      PROVE  Once(u)'
  <2>1. queue' = queue /\ pos' = pos /\ births' = births
        /\ started' = started /\ given' = given /\ lost' = lost
    BY <1>2 DEF WhenStarted, queueVars, workerVars, osVars
  <2>2. (at # "dequeue" /\ at' # "dequeue") \/ at' = at
    BY <1>2 DEF WhenStarted
  <2>3. From' = From
    BY <2>1, <2>2 DEF From
  <2> QED
    BY <1>t, <2>1, <2>3, OnceKept
<1>3. ASSUME NEW w \in Workers, WhenExit(w)
      PROVE  Once(u)'
  <2>1. queue' = queue /\ pos' = pos /\ births' = births
        /\ started' = started /\ given' = given /\ lost' = lost
    BY <1>3 DEF WhenExit, queueVars, workerVars, osVars
  <2>2. (at # "dequeue" /\ at' # "dequeue") \/ at' = at
    BY <1>3 DEF WhenExit
  <2>3. From' = From
    BY <2>1, <2>2 DEF From
  <2> QED
    BY <1>t, <2>1, <2>3, OnceKept
<1>4. ASSUME NEW e \in Execs, Exec(e)
      PROVE  Once(u)'
  <2>1. queue' = queue /\ pos' = pos /\ births' = births
        /\ started' = started /\ given' = given /\ lost' = lost
    BY <1>4 DEF Exec, queueVars, workerVars, osVars
  <2>2. (at # "dequeue" /\ at' # "dequeue") \/ at' = at
    BY <1>4 DEF Exec
  <2>3. From' = From
    BY <2>1, <2>2 DEF From
  <2> QED
    BY <1>t, <2>1, <2>3, OnceKept
<1>5. ASSUME NEW e \in Execs, Cancel(e)
      PROVE  Once(u)'
  <2>1. queue' = queue /\ pos' = pos /\ births' = births
        /\ started' = started /\ given' = given /\ lost' = lost
    BY <1>5 DEF Cancel, queueVars, workerVars, osVars
  <2>2. (at # "dequeue" /\ at' # "dequeue") \/ at' = at
    BY <1>5 DEF Cancel
  <2>3. From' = From
    BY <2>1, <2>2 DEF From
  <2> QED
    BY <1>t, <2>1, <2>3, OnceKept
<1>6. ASSUME NEW f \in Forks, Fork(f)
      PROVE  Once(u)'
  <2>1. queue' = queue /\ pos' = pos /\ births' = births
        /\ started' = started /\ given' = given /\ lost' = lost
    BY <1>6, ChildrenAlone, <1>t DEF Fork, queueVars, workerVars, osVars
  <2>2. (at # "dequeue" /\ at' # "dequeue") \/ at' = at
    BY <1>6 DEF Fork
  <2>3. From' = From
    BY <2>1, <2>2 DEF From
  <2> QED
    BY <1>t, <2>1, <2>3, OnceKept
<1>7. ASSUME Dequeue
      PROVE  Once(u)'
  <2>1. /\ queue' = queue /\ births' = births /\ pos = 0 /\ at = "loop"
        /\ started' = started /\ given' = given /\ lost' = lost
        /\ (at' = at /\ pos' = pos) \/ (at' = "dequeue" /\ pos' = 1)
    BY <1>7, <1>t DEF Dequeue, workerVars, osVars, Dequeuing
  <2>2. From' = From
    BY <2>1 DEF From
  <2> QED
    BY <1>t, <2>1, <2>2, OnceKept
<1>8. ASSUME SpawnReturns
      PROVE  Once(u)'
  <2>1. /\ queue' = queue /\ births' = births /\ at = "spawned" /\ at' = "dequeue"
        /\ started' = started /\ given' = given /\ lost' = lost /\ pos' = pos + 1
    BY <1>8 DEF SpawnReturns, workerVars, osVars
  <2>2. From' = From
    BY <2>1 DEF From
  <2> QED
    BY <1>t, <2>1, <2>2, OnceKept
<1>9. ASSUME Dequeued
      PROVE  Once(u)'
  <2>1. /\ queue' = <<>> /\ births' = births
        /\ started' = started /\ given' = given
    BY <1>9 DEF Dequeued, workerVars, osVars
  <2>2. DOMAIN queue' = {}
    BY <2>1
  <2> QED
    BY <2>1, <2>2 DEF Once
<1>10. ASSUME NEW w \in Workers, Spawn(w)
      PROVE  Once(u)'
  <2>1. /\ queue' = queue /\ at = "dequeue" /\ started' = started \cup {w}
        /\ given' = given /\ lost' = lost /\ pos \in DOMAIN queue /\ queue[pos] = w
        /\ (at' = "spawned" /\ pos' = pos) \/ (at' = at /\ pos' = pos + 1)
    BY <1>10 DEF Spawn, AtItem
  <2>2. From = pos /\ From' = pos + 1
    BY <2>1 DEF From
  <2>3. births' = [births EXCEPT ![w] = @ + 1]
    <3>1. [births EXCEPT ![w] = @ + 1] \in [Workers -> Nat]
      BY <1>t
    <3> QED
      BY <1>10, <3>1, ChildrenAlone DEF Spawn
  <2>4. CASE w # u
    BY <1>t, <2>1, <2>2, <2>3, <2>4, OnceKept
  <2>5. CASE w = u
    <3>1. \A i \in DOMAIN queue' : i >= From' => queue'[i] # u
      BY <1>t, <2>1, <2>2, <2>5 DEF Once
    <3>2. u \in given /\ births[u] = 0
      BY <1>t, <2>1, <2>2, <2>5 DEF Once
    <3>3. births'[u] = 1
      BY <1>t, <2>3, <2>5, <3>2
    <3> QED
      BY <2>1, <2>5, <3>1, <3>2, <3>3 DEF Once
  <2> QED
    BY <2>4, <2>5
<1>11. ASSUME NEW w \in Workers, SpawnAgain(w)
      PROVE  Once(u)'
  <2>1. /\ queue' = queue /\ pos' = pos /\ at' = at /\ at = "dequeue"
        /\ births' = [births EXCEPT ![w] = @ + 1]
        /\ started' = started /\ given' = given /\ lost' = lost
        /\ w \notin ipc /\ pos \in DOMAIN queue /\ queue[pos] = w
    BY <1>11 DEF SpawnAgain, AtItem, queueVars, workerVars
  <2>2. From = pos /\ From' = From
    BY <2>1 DEF From
  <2>3. w # u
    BY <1>t, <2>1, <2>2 DEF Once
  <2> QED
    BY <1>t, <2>1, <2>2, <2>3, OnceKept
<1>12. ASSUME NEW w \in Workers, SpawnFails(w)
      PROVE  Once(u)'
  <2>1. /\ queue' = queue /\ births' = births /\ at = "dequeue" /\ at' = at /\ pos' = pos + 1
        /\ started' = started /\ given' = given /\ lost' = lost \cup {w}
        /\ pos \in DOMAIN queue /\ queue[pos] = w
    BY <1>12 DEF SpawnFails, AtItem, osVars
  <2>2. From = pos /\ From' = pos + 1
    BY <2>1 DEF From
  <2>3. CASE w # u
    BY <1>t, <2>1, <2>2, <2>3, OnceKept
  <2>4. CASE w = u
    <3>1. \A i \in DOMAIN queue' : i >= From' => queue'[i] # u
      BY <1>t, <2>1, <2>2, <2>4 DEF Once
    <3> QED
      BY <2>1, <3>1 DEF Once
  <2> QED
    BY <2>3, <2>4
<1>13. ASSUME NEW w \in Workers, Skip(w)
      PROVE  Once(u)'
  <2>1. /\ queue' = queue /\ births' = births /\ at = "dequeue" /\ at' = at /\ pos' = pos + 1
        /\ started' = started /\ given' = given /\ lost' = lost \cup {w}
        /\ pos \in DOMAIN queue /\ queue[pos] = w
    BY <1>13 DEF Skip, AtItem, osVars
  <2>2. From = pos /\ From' = pos + 1
    BY <2>1 DEF From
  <2>3. CASE w # u
    BY <1>t, <2>1, <2>2, <2>3, OnceKept
  <2>4. CASE w = u
    <3>1. \A i \in DOMAIN queue' : i >= From' => queue'[i] # u
      BY <1>t, <2>1, <2>2, <2>4 DEF Once
    <3> QED
      BY <2>1, <3>1 DEF Once
  <2> QED
    BY <2>3, <2>4
<1>14. ASSUME Sigchld
      PROVE  Once(u)'
  <2>1. queue' = queue /\ pos' = pos /\ births' = births
        /\ started' = started /\ given' = given /\ lost' = lost
    BY <1>14 DEF Sigchld, queueVars, workerVars, osVars
  <2>2. (at # "dequeue" /\ at' # "dequeue") \/ at' = at
    BY <1>14 DEF Sigchld
  <2>3. From' = From
    BY <2>1, <2>2 DEF From
  <2> QED
    BY <1>t, <2>1, <2>3, OnceKept
<1>15. ASSUME ReapReturns
      PROVE  Once(u)'
  <2>1. queue' = queue /\ pos' = pos /\ births' = births
        /\ started' = started /\ given' = given /\ lost' = lost
    BY <1>15 DEF ReapReturns, queueVars, workerVars, osVars
  <2>2. (at # "dequeue" /\ at' # "dequeue") \/ at' = at
    BY <1>15 DEF ReapReturns
  <2>3. From' = From
    BY <2>1, <2>2 DEF From
  <2> QED
    BY <1>t, <2>1, <2>3, OnceKept
<1>16. ASSUME Reaped
      PROVE  Once(u)'
  <2>1. queue' = queue /\ pos' = pos /\ births' = births
        /\ started' = started /\ given' = given /\ lost' = lost
    BY <1>16 DEF Reaped, queueVars, workerVars, osVars
  <2>2. (at # "dequeue" /\ at' # "dequeue") \/ at' = at
    BY <1>16 DEF Reaped
  <2>3. From' = From
    BY <2>1, <2>2 DEF From
  <2> QED
    BY <1>t, <2>1, <2>3, OnceKept
<1>17. ASSUME NEW w \in Workers, ReapWorker(w)
      PROVE  Once(u)'
  <2>1. queue' = queue /\ pos' = pos /\ births' = births
        /\ started' = started /\ given' = given /\ lost' = lost
    BY <1>17 DEF ReapWorker, queueVars, workerVars, osVars, Waited, Reaping
  <2>2. (at # "dequeue" /\ at' # "dequeue") \/ at' = at
    BY <1>17 DEF ReapWorker, Waited, Reaping
  <2>3. From' = From
    BY <2>1, <2>2 DEF From
  <2> QED
    BY <1>t, <2>1, <2>3, OnceKept
<1>18. ASSUME NEW e \in Execs, ReapExec(e)
      PROVE  Once(u)'
  <2>1. queue' = queue /\ pos' = pos /\ births' = births
        /\ started' = started /\ given' = given /\ lost' = lost
    BY <1>18 DEF ReapExec, queueVars, workerVars, osVars, Waited, Reaping
  <2>2. (at # "dequeue" /\ at' # "dequeue") \/ at' = at
    BY <1>18 DEF ReapExec, Waited, Reaping
  <2>3. From' = From
    BY <2>1, <2>2 DEF From
  <2> QED
    BY <1>t, <2>1, <2>3, OnceKept
<1>19. ASSUME NEW p \in Children, ReapOther(p)
      PROVE  Once(u)'
  <2>1. queue' = queue /\ pos' = pos /\ births' = births
        /\ started' = started /\ given' = given /\ lost' = lost
    BY <1>19 DEF ReapOther, queueVars, workerVars, osVars, Waited, Reaping
  <2>2. (at # "dequeue" /\ at' # "dequeue") \/ at' = at
    BY <1>19 DEF ReapOther, Waited, Reaping
  <2>3. From' = From
    BY <2>1, <2>2 DEF From
  <2> QED
    BY <1>t, <2>1, <2>3, OnceKept
<1>20. ASSUME NEW p \in Children, Ends(p)
      PROVE  Once(u)'
  <2>1. queue' = queue /\ pos' = pos /\ births' = births
        /\ started' = started /\ given' = given /\ lost' = lost
    BY <1>20 DEF Ends, queueVars, workerVars, osVars, Changes
  <2>2. (at # "dequeue" /\ at' # "dequeue") \/ at' = at
    BY <1>20 DEF Ends, Changes
  <2>3. From' = From
    BY <2>1, <2>2 DEF From
  <2> QED
    BY <1>t, <2>1, <2>3, OnceKept
<1>21. ASSUME NEW p \in Children, Stops(p)
      PROVE  Once(u)'
  <2>1. queue' = queue /\ pos' = pos /\ births' = births
        /\ started' = started /\ given' = given /\ lost' = lost
    BY <1>21 DEF Stops, queueVars, workerVars, osVars, Changes
  <2>2. (at # "dequeue" /\ at' # "dequeue") \/ at' = at
    BY <1>21 DEF Stops, Changes
  <2>3. From' = From
    BY <2>1, <2>2 DEF From
  <2> QED
    BY <1>t, <2>1, <2>3, OnceKept
<1>22. ASSUME NEW p \in Children, Continues(p)
      PROVE  Once(u)'
  <2>1. queue' = queue /\ pos' = pos /\ births' = births
        /\ started' = started /\ given' = given /\ lost' = lost
    BY <1>22 DEF Continues, queueVars, workerVars, osVars, Changes
  <2>2. (at # "dequeue" /\ at' # "dequeue") \/ at' = at
    BY <1>22 DEF Continues, Changes
  <2>3. From' = From
    BY <2>1, <2>2 DEF From
  <2> QED
    BY <1>t, <2>1, <2>3, OnceKept
<1>23. ASSUME NEW e \in Execs, Write(e)
      PROVE  Once(u)'
  <2>1. queue' = queue /\ pos' = pos /\ births' = births
        /\ started' = started /\ given' = given /\ lost' = lost
    BY <1>23 DEF Write, queueVars, workerVars, osVars
  <2>2. (at # "dequeue" /\ at' # "dequeue") \/ at' = at
    BY <1>23 DEF Write
  <2>3. From' = From
    BY <2>1, <2>2 DEF From
  <2> QED
    BY <1>t, <2>1, <2>3, OnceKept
<1>24. ASSUME NEW e \in Execs, ReadOutput(e)
      PROVE  Once(u)'
  <2>1. queue' = queue /\ pos' = pos /\ births' = births
        /\ started' = started /\ given' = given /\ lost' = lost
    BY <1>24 DEF ReadOutput, queueVars, workerVars, osVars
  <2>2. (at # "dequeue" /\ at' # "dequeue") \/ at' = at
    BY <1>24 DEF ReadOutput
  <2>3. From' = From
    BY <2>1, <2>2 DEF From
  <2> QED
    BY <1>t, <2>1, <2>3, OnceKept
<1> QED
  BY <1>0, <1>1, <1>2, <1>3, <1>4, <1>5, <1>6, <1>7, <1>8, <1>9, <1>10, <1>11, <1>12,
     <1>13, <1>14, <1>15, <1>16, <1>17, <1>18, <1>19, <1>20, <1>21, <1>22, <1>23, <1>24
     DEF Next, Method, Handler, System

\* The promises of a worker that does nothing unusual: none waits for what is
\* over, and the exit is announced of a process that has been reaped.
Announced(w) ==
  /\ w \in started => whenStarted[w] # "pending"
  /\ w \in finished => whenExit[w] # "pending" /\ os[w] = "gone"
  /\ whenExit[w] = "done" => w \in finished

Promises == \A w \in Workers : Liberties[w] = {} => Announced(w)

\* Every action keeps the promises of such a worker: the process settles whenStarted(),
\* and only the end of it, never a stop, reaches ion_process_child_exit().
LEMMA AnnouncedStep ==
  ASSUME TypeOK, Fresh, NEW u \in Workers, Liberties[u] = {}, Announced(u), [Next]_vars
  PROVE  Announced(u)'
<1> USE ChildrenAssumption DEF Children
<1>t. /\ whenStarted \in [Workers -> PromiseState] /\ whenExit \in [Workers -> PromiseState]
      /\ os \in [Children -> {"none", "running", "stopped", "resumed", "zombie", "gone"}]
      /\ started = Workers \ ipc /\ finished \subseteq started
      /\ u \notin reports /\ ~May(u, "late")
      /\ u \in ipc => os[u] = "none"
  BY DEF TypeOK, Fresh, May
<1>0. CASE UNCHANGED vars
  BY <1>0 DEF vars, workerVars, osVars, Announced
<1>1. ASSUME NEW w \in Workers, Start(w)
      PROVE  Announced(u)'
  BY <1>1, <1>t DEF Start, Push, UserCode, workerVars, osVars, Announced, PromiseState
<1>2. ASSUME NEW w \in Workers, WhenStarted(w)
      PROVE  Announced(u)'
  BY <1>2, <1>t DEF WhenStarted, workerVars, osVars, Announced, PromiseState
<1>3. ASSUME NEW w \in Workers, WhenExit(w)
      PROVE  Announced(u)'
  BY <1>3, <1>t DEF WhenExit, workerVars, osVars, Announced, PromiseState
<1>4. ASSUME NEW e \in Execs, Exec(e)
      PROVE  Announced(u)'
  BY <1>4, <1>t DEF Exec, workerVars, osVars, Announced, PromiseState
<1>5. ASSUME NEW e \in Execs, Cancel(e)
      PROVE  Announced(u)'
  BY <1>5, <1>t DEF Cancel, workerVars, osVars, Announced, PromiseState
<1>6. ASSUME NEW f \in Forks, Fork(f)
      PROVE  Announced(u)'
  BY <1>6, <1>t DEF Fork, workerVars, osVars, Announced, PromiseState
<1>7. ASSUME Dequeue
      PROVE  Announced(u)'
  BY <1>7, <1>t DEF Dequeue, workerVars, osVars, Announced, PromiseState
<1>8. ASSUME SpawnReturns
      PROVE  Announced(u)'
  BY <1>8, <1>t DEF SpawnReturns, workerVars, osVars, Announced, PromiseState
<1>9. ASSUME Dequeued
      PROVE  Announced(u)'
  BY <1>9, <1>t DEF Dequeued, workerVars, osVars, Announced, PromiseState
<1>10. ASSUME NEW w \in Workers, Spawn(w)
      PROVE  Announced(u)'
  BY <1>10, <1>t DEF Spawn, Settled, workerVars, osVars, Announced, PromiseState
<1>11. ASSUME NEW w \in Workers, SpawnAgain(w)
      PROVE  Announced(u)'
  BY <1>11, <1>t DEF SpawnAgain, workerVars, osVars, Announced, PromiseState
<1>12. ASSUME NEW w \in Workers, SpawnFails(w)
      PROVE  Announced(u)'
  BY <1>12, <1>t DEF SpawnFails, workerVars, osVars, Announced, PromiseState
<1>13. ASSUME NEW w \in Workers, Skip(w)
      PROVE  Announced(u)'
  BY <1>13, <1>t DEF Skip, workerVars, osVars, Announced, PromiseState
<1>14. ASSUME Sigchld
      PROVE  Announced(u)'
  BY <1>14, <1>t DEF Sigchld, workerVars, osVars, Announced, PromiseState
<1>15. ASSUME ReapReturns
      PROVE  Announced(u)'
  BY <1>15, <1>t DEF ReapReturns, workerVars, osVars, Announced, PromiseState
<1>16. ASSUME Reaped
      PROVE  Announced(u)'
  BY <1>16, <1>t DEF Reaped, workerVars, osVars, Announced, PromiseState
<1>17. ASSUME NEW w \in Workers, ReapWorker(w)
      PROVE  Announced(u)'
  BY <1>17, <1>t DEF ReapWorker, Waited, Flagged, Settled, workerVars, osVars, Announced, PromiseState
<1>18. ASSUME NEW e \in Execs, ReapExec(e)
      PROVE  Announced(u)'
  BY <1>18, <1>t DEF ReapExec, Waited, workerVars, osVars, Announced, PromiseState
<1>19. ASSUME NEW p \in Children, ReapOther(p)
      PROVE  Announced(u)'
  BY <1>19, <1>t DEF ReapOther, Waited, workerVars, osVars, Announced, PromiseState
<1>20. ASSUME NEW p \in Children, Ends(p)
      PROVE  Announced(u)'
  BY <1>20, <1>t DEF Ends, Changes, Alive, workerVars, osVars, Announced, PromiseState
<1>21. ASSUME NEW p \in Children, Stops(p)
      PROVE  Announced(u)'
  BY <1>21, <1>t DEF Stops, Changes, workerVars, osVars, Announced, PromiseState
<1>22. ASSUME NEW p \in Children, Continues(p)
      PROVE  Announced(u)'
  BY <1>22, <1>t DEF Continues, Changes, workerVars, osVars, Announced, PromiseState
<1>23. ASSUME NEW e \in Execs, Write(e)
      PROVE  Announced(u)'
  BY <1>23, <1>t DEF Write, workerVars, osVars, Announced, PromiseState
<1>24. ASSUME NEW e \in Execs, ReadOutput(e)
      PROVE  Announced(u)'
  BY <1>24, <1>t DEF ReadOutput, workerVars, osVars, Announced, PromiseState
<1> QED
  BY <1>0, <1>1, <1>2, <1>3, <1>4, <1>5, <1>6, <1>7, <1>8, <1>9, <1>10, <1>11, <1>12, <1>13, <1>14, <1>15, <1>16, <1>17, <1>18, <1>19, <1>20, <1>21, <1>22, <1>23, <1>24
     DEF Next, Method, Handler, System

-----------------------------------------------------------------------------
IInv == TypeOK /\ Fresh /\ QueueArmed /\ Tracked /\ StartedOnce /\ Promises

\* The inductive invariant holds when the request starts.
LEMMA InitHolds == Init => IInv
<1> USE ChildrenAssumption DEF Children
<1>1. ASSUME Init
      PROVE  TypeOK /\ Fresh /\ QueueArmed /\ Tracked
  <2>1. queue \in Seq(Workers) /\ 0 \in Nat
    BY <1>1 DEF Init
  <2> QED
    BY <1>1, <2>1 DEF Init, TypeOK, Fresh, QueueArmed, Tracked, Dequeuing, Place,
       PromiseState, Unreaped
<1>2. ASSUME Init
      PROVE  StartedOnce /\ Promises
  <2>1. DOMAIN queue = {}
    BY <1>2 DEF Init
  <2> QED
    BY <1>2, <2>1 DEF Init, StartedOnce, Once, Promises, Announced
<1> QED
  BY <1>1, <1>2 DEF IInv

\* ... and every step of the processes and of the system keeps it.
LEMMA NextPreserves == IInv /\ [Next]_vars => IInv'
<1> SUFFICES ASSUME IInv, [Next]_vars
             PROVE  IInv'
  OBVIOUS
<1>1. TypeOK' /\ Fresh'
  BY TypeStep DEF IInv
<1>2. QueueArmed' /\ Tracked'
  BY ArmedStep, TrackedStep DEF IInv
<1>3. StartedOnce'
  <2>1. \A u \in Workers : ~May(u, "twice") => Once(u)'
    BY <1>1, OnceStep DEF IInv, StartedOnce
  <2> QED
    BY <2>1 DEF StartedOnce, May
<1>4. Promises'
  BY AnnouncedStep DEF IInv, Promises
<1> QED
  BY <1>1, <1>2, <1>3, <1>4 DEF IInv

\* The inductive invariant holds always.
LEMMA Invariant == Spec => []IInv
BY InitHolds, NextPreserves, PTL DEF Spec

\* Every field keeps its type, and the fields go together.
THEOREM Typed == Spec => []TypeOK
<1>1. IInv => TypeOK
  BY DEF IInv
<1> QED
  BY <1>1, Invariant, PTL

\* ion_deferred_queue_push() leaves no item without a pending event.
THEOREM Armed == Spec => []QueueArmed
<1>1. IInv => QueueArmed
  BY DEF IInv
<1> QED
  BY <1>1, Invariant, PTL

\* proc_childs and proc_execs hold exactly the processes the system still has.
THEOREM Tracking == Spec => []Tracked
<1>1. IInv => Tracked
  BY DEF IInv
<1> QED
  BY <1>1, Invariant, PTL

\* No fork, by whoever and whenever, gives a worker a second process.
THEOREM Single == Spec => []OneProcess
<1>1. IInv => OneProcess
  <2>1. ASSUME IInv, NEW w \in Workers, ~May(w, "twice")
        PROVE  births[w] <= 1
    <3>1. Once(w)
      BY <2>1 DEF IInv, StartedOnce
    <3>2. births[w] = 0 \/ births[w] = 1
      BY <3>1 DEF Once
    <3> QED
      BY <3>2
  <2> QED
    BY <2>1 DEF OneProcess
<1> QED
  BY <1>1, Invariant, PTL

\* prom_started and prom_exit, asked for in time, are settled by the event itself.
THEOREM Telling == Spec => []Told
<1>1. IInv => Told
  BY DEF IInv, Promises, Announced, Told
<1> QED
  BY <1>1, Invariant, PTL

\* ion_process_child_exit() announces only processes that have been reaped.
THEOREM Truth == Spec => []Truthful
<1>1. IInv => Truthful
  BY DEF IInv, TypeOK, Promises, Announced, Truthful
<1> QED
  BY <1>1, Invariant, PTL
=============================================================================
