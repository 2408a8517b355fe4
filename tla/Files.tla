------------------------------- MODULE Files -------------------------------
(***************************************************************************)
(* ION\FS: src/src/classes/ION/FS.c and src/src/ion/ion_fs.c, the build    *)
(* with inotify.                                                           *)
(*                                                                         *)
(* watch() gives the sequence of a watcher, one for each path: the table   *)
(* GION(watchers) holds a reference to it, the program others, and the     *)
(* last one frees the watcher.  inotify watches the file that the path     *)
(* led to.  readFile() sends the file into one end of a socket pair and    *)
(* settles its deferred with what has come out of the other at its end.    *)
(***************************************************************************)
EXTENDS Integers, FiniteSets

CONSTANTS
  Paths,
  Watchers,   \* the watcher objects; memory is not reused
  NoWatcher,  \* a key that is not in the table
  Reads,      \* the calls of readFile()
  MaxSize,    \* bound: bytes of a file
  MaxFiles    \* bound: how often the file at a path is replaced

ASSUME WatchersAssumption == NoWatcher \notin Watchers
ASSUME SizesAssumption == MaxSize \in Nat /\ MaxFiles \in Nat

VARIABLES
  file,      \* file[p]: the file at the path, a number; a replaced one never returns
  watchers,  \* GION(watchers)
  watched,   \* of a watcher: its path and the file
  life,      \* "unused", "live" or "freed"
  kept,      \* how often the program holds the sequence of a watcher
  changes,   \* the watchers with events to be read
  speaking,  \* the watchers whose handlers run
  read       \* what has become of each call of readFile()

watching == <<file, watchers, watched, life, kept, changes, speaking>>
filesVars == <<watching, read>>

Listed == {w \in Watchers : \E p \in Paths : watchers[p] = w}
Live == {w \in Watchers : life[w] = "live"}

\* ion_fs_watcher_remove(), for those whose last reference is gone: the
\* descriptor is closed.
Release(ws) ==
  /\ life' = [w \in Watchers |-> IF w \in ws THEN "freed" ELSE life[w]]
  /\ changes' = changes \ ws
-----------------------------------------------------------------------------
(***************************************************************************)
(* FS::watch(), FS::unwatchAll().  A path that leads nowhere throws.       *)
(***************************************************************************)
WatchAgain(p) ==
  LET w == watchers[p]
  IN /\ w # NoWatcher /\ kept[w] < 2
     /\ kept' = [kept EXCEPT ![w] = @ + 1]
     /\ UNCHANGED <<file, watchers, watched, life, changes, speaking, read>>

\* ion_fs_watcher_add() creates the watcher; when event_add() or inotify
\* refuses it is released again.
Watch(p, w) ==
  /\ watchers[p] = NoWatcher /\ life[w] = "unused"
  /\ watched' = [watched EXCEPT ![w] = [path |-> p, file |-> file[p]]]
  /\ \/ /\ life' = [life EXCEPT ![w] = "live"]
        /\ watchers' = [watchers EXCEPT ![p] = w]
        /\ kept' = [kept EXCEPT ![w] = 1]
     \/ life' = [life EXCEPT ![w] = "freed"] /\ UNCHANGED <<watchers, kept>>
  /\ UNCHANGED <<file, changes, speaking, read>>

\* Mutant: the watchers go whoever holds them.
UnwatchForced ==
  /\ Listed # {}
  /\ watchers' = [p \in Paths |-> NoWatcher]
  /\ Release(Listed)
  /\ UNCHANGED <<file, watched, kept, speaking, read>>

UnwatchAll ==
  /\ Listed # {}
  /\ watchers' = [p \in Paths |-> NoWatcher]
  /\ Release({w \in Listed : kept[w] = 0})
  /\ UNCHANGED <<file, watched, kept, speaking, read>>

\* The program drops a sequence.
ForgetSequence(w) ==
  /\ kept[w] > 0
  /\ kept' = [kept EXCEPT ![w] = @ - 1]
  /\ Release({x \in {w} : kept[w] = 1 /\ w \notin Listed})
  /\ UNCHANGED <<file, watchers, watched, speaking, read>>
-----------------------------------------------------------------------------
(***************************************************************************)
(* The file system and the loop.                                           *)
(***************************************************************************)
Concerned(p) == {w \in Live : watched[w] = [path |-> p, file |-> file[p]]}

Change(p) ==
  /\ changes' = changes \cup Concerned(p)
  /\ UNCHANGED <<file, watchers, watched, life, kept, speaking, read>>

\* The file is deleted, and another created in its place.
Replace(p) ==
  /\ file[p] < MaxFiles
  /\ file' = [file EXCEPT ![p] = @ + 1]
  /\ changes' = changes \cup Concerned(p)
  /\ UNCHANGED <<watchers, watched, life, kept, speaking, read>>

\* ion_fs_watch_cb(): every event there is is read, then a copy of the
\* sequence is resolved; its handlers run.
WatchCallback(w) ==
  /\ speaking = {} /\ w \in changes
  /\ changes' = changes \ {w}
  /\ speaking' = {w}
  /\ UNCHANGED <<file, watchers, watched, life, kept, read>>

\* The handlers return; the callback does not use the watcher any more.
Spoken ==
  /\ speaking # {}
  /\ speaking' = {}
  /\ UNCHANGED <<file, watchers, watched, life, kept, changes, read>>
-----------------------------------------------------------------------------
(***************************************************************************)
(* readFile().  part: the bytes asked for, and there, when it is called;   *)
(* size: what the file still has of them; sent: what has been written to   *)
(* the pair; got: what has come out; one, two: the ends of the pair.       *)
(***************************************************************************)
Unread == [state |-> "unused", asked |-> 0, part |-> 0, size |-> 0, sent |-> 0, got |-> 0,
           one |-> FALSE, two |-> FALSE, cut |-> FALSE]

Least(a, b) == IF a < b THEN a ELSE b
Set(r, x) == read' = [read EXCEPT ![r] = x] /\ UNCHANGED watching

\* The length is limited to the size of the file, not to what follows the
\* offset; a failure of open(), fstat(), socketpair() or evbuffer_add_file()
\* throws.
ReadFile(r, size, offset, length) ==
  /\ read[r].state = "unused" /\ offset <= size
  /\ LET n == IF length < 0 \/ length > size THEN size ELSE length
     IN Set(r, [Unread EXCEPT !.state = "pending", !.asked = n, !.part = Least(n, size - offset),
                  !.size = Least(n, size - offset), !.one = TRUE, !.two = TRUE])

\* Another process makes the file shorter.
Truncate(r) ==
  /\ read[r].one /\ read[r].size > read[r].sent
  /\ Set(r, [read[r] EXCEPT !.size = @ - 1, !.cut = TRUE])

SendFile(r, k) ==
  /\ read[r].one /\ read[r].two
  /\ k \in 1 .. read[r].size - read[r].sent
  /\ Set(r, [read[r] EXCEPT !.sent = @ + k])

\* ion_fs_file_sent_one(): all that was asked for is written.
\* ion_fs_pair_close_one(): the file has ended before, or two is gone.
SendEnds(r) ==
  /\ read[r].one
  /\ \/ read[r].sent = read[r].asked
     \/ read[r].sent = read[r].size
     \/ ~read[r].two
  /\ Set(r, [read[r] EXCEPT !.one = FALSE])

Receive(r, k) ==
  /\ read[r].two
  /\ k \in 1 .. read[r].sent - read[r].got
  /\ Set(r, [read[r] EXCEPT !.got = @ + k])

\* ion_fs_pair_close_two(): at the end of the stream the input is the result.
\* On an error it fails; either way the destructor frees two.
ReceiveEnds(r) ==
  /\ read[r].two
  /\ \/ /\ ~read[r].one /\ read[r].got = read[r].sent
        /\ Set(r, [read[r] EXCEPT !.state = "done", !.two = FALSE])
     \/ Set(r, [read[r] EXCEPT !.state = "failed", !.two = FALSE])

\* cancel(): the destructor frees two, nothing calls back any more.
CancelRead(r) ==
  /\ read[r].state = "pending"
  /\ Set(r, [read[r] EXCEPT !.state = "canceled", !.two = FALSE])
-----------------------------------------------------------------------------
FilesInit ==
  /\ file = [p \in Paths |-> 0]
  /\ watchers = [p \in Paths |-> NoWatcher]
  /\ watched = [w \in Watchers |-> [path |-> NoWatcher, file |-> 0]]
  /\ life = [w \in Watchers |-> "unused"]
  /\ kept = [w \in Watchers |-> 0]
  /\ changes = {} /\ speaking = {}
  /\ read = [r \in Reads |-> Unread]

FilesStep ==
  \/ (\E w \in Watchers : WatchCallback(w)) \/ Spoken
  \/ \E r \in Reads : SendEnds(r) \/ ReceiveEnds(r)
                      \/ \E k \in 1 .. MaxSize : SendFile(r, k) \/ Receive(r, k)

FilesNext ==
  \/ \E p \in Paths : WatchAgain(p) \/ Change(p) \/ Replace(p) \/ \E w \in Watchers : Watch(p, w)
  \/ UnwatchAll \/ \E w \in Watchers : ForgetSequence(w)
  \/ \E r \in Reads : Truncate(r) \/ CancelRead(r)
                      \/ \E size \in 0 .. MaxSize, offset \in 0 .. MaxSize, length \in -1 .. MaxSize :
                           ReadFile(r, size, offset, length)
  \/ FilesStep

FilesSpec == FilesInit /\ [][FilesNext]_filesVars
-----------------------------------------------------------------------------
(***************************************************************************)
(* Properties.                                                             *)
(***************************************************************************)

\* A watcher that someone may still hear lives, whatever unwatchAll() and
\* others have dropped, and no other does; the loop has no event of a watcher
\* that is freed; and readFile() gives all of the part asked for, unless the
\* file was cut meanwhile.
FilesExact ==
  /\ Live = Listed \cup {w \in Watchers : kept[w] > 0}
  /\ \A p \in Paths : watchers[p] # NoWatcher => watched[watchers[p]].path = p
  /\ changes \subseteq Live
  /\ \A r \in Reads : read[r].state = "done" /\ ~read[r].cut => read[r].got = read[r].part
=============================================================================
