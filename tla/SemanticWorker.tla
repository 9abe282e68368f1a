---------------------------- MODULE SemanticWorker ----------------------------
(***************************************************************************)
(* The class SemanticWorker (runtime/semantic.py): the threads of the MCP  *)
(* server share one lazily spawned search process, spoken to over pipes,   *)
(* one line for each request and one for each response, with no request    *)
(* ids.  It is stopped when a query times out, when it has been idle for   *)
(* a while, and when the server closes.                                    *)
(*                                                                         *)
(* A block under self._lock is one step, since nothing it waits for needs  *)
(* the lock; self._request_lock is held across steps.  Searches and spawns *)
(* are numbered in order, and at most MaxSearches searches are made.       *)
(*                                                                         *)
(* An operator marked "Defect" is no part of the specification: it is the  *)
(* definition below it with a plausible bug, which a property must catch.  *)
(***************************************************************************)
EXTENDS Naturals, Sequences, FiniteSets

CONSTANTS
  Thread,       \* server threads that run semantic searches
  None,         \* no thread, process, timer or response
  Exited,       \* the reader thread's end-of-stream mark on the queue
  MaxSearches   \* bound on the searches made, and so on the spawns

ASSUME WorkerAssumption ==
  /\ MaxSearches \in Nat
  /\ None \notin Thread \cup Nat
  /\ Exited # None

Id == 1 .. MaxSearches
Response == [to : Id, ok : BOOLEAN]
Timer == [id : Id, process : Id]

ASSUME ResponseAssumption == Exited \notin Response /\ None \notin Response \cup Timer

VARIABLES
  closed,       \* self._closed
  process,      \* self._process, by the number of its spawn, or None
  timer,        \* self._idle_timer, or None
  requestLock,  \* the thread that holds self._request_lock, or None
  spawned,      \* processes spawned so far
  running,      \* those the operating system still runs
  stopped,      \* those _stop_process has reaped: their pipes are closed
  stdin,        \* process -> requests written and not yet read
  responses,    \* process -> the queue its reader thread fills
  reading,      \* processes whose reader thread has not ended
  armed,        \* timers that are still counting
  firing,       \* timers that expired, on their way to self._lock
  searches,     \* searches made so far
  pc, request, worker, response,  \* locals of search(), by thread
  closer, closing                 \* the thread in close() and its process

os == <<spawned, running, stopped, stdin, responses, reading>>
timers == <<timer, armed, firing>>
locals == <<request, worker, response>>
closers == <<closer, closing>>
vars == <<closed, process, timers, requestLock, os, searches, pc, locals, closers>>

Init ==
  /\ closed = FALSE
  /\ process = None
  /\ timer = None
  /\ requestLock = None
  /\ spawned = 0
  /\ running = {}
  /\ stopped = {}
  /\ stdin = [k \in Id |-> <<>>]
  /\ responses = [k \in Id |-> <<>>]
  /\ reading = {}
  /\ armed = {}
  /\ firing = {}
  /\ searches = 0
  /\ pc = [t \in Thread |-> "idle"]
  /\ request = [t \in Thread |-> None]
  /\ worker = [t \in Thread |-> None]
  /\ response = [t \in Thread |-> None]
  /\ closer = "open"
  /\ closing = None

Goto(t, from, to) ==
  /\ pc[t] = from
  /\ pc' = [pc EXCEPT ![t] = to]

(* search() returns or raises, and releases the request lock. *)
Leave(t, from) ==
  /\ Goto(t, from, "idle")
  /\ requestLock' = None
  /\ request' = [request EXCEPT ![t] = None]
  /\ worker' = [worker EXCEPT ![t] = None]
  /\ response' = [response EXCEPT ![t] = None]

(* terminate() or kill(), wait(), and close the pipes.  A process that is  *)
(* killed is taken to exit within the five seconds wait() allows it.       *)
Stop(k) ==
  /\ running' = running \ {k}
  /\ stopped' = stopped \cup {k}
  /\ UNCHANGED <<spawned, stdin, responses, reading>>

(* A timer that has already expired is past cancelling. *)
CancelTimer ==
  /\ timer' = None
  /\ armed' = armed \ {timer}
  /\ UNCHANGED firing
-----------------------------------------------------------------------------
(* search(), one thread at a time past Enter. *)

Ask(t) ==
  /\ Goto(t, "idle", "enter")
  /\ searches < MaxSearches
  /\ searches' = searches + 1
  /\ request' = [request EXCEPT ![t] = searches + 1]
  /\ UNCHANGED <<closed, process, timers, requestLock, os, worker, response, closers>>

Enter(t) ==
  /\ Goto(t, "enter", "send")
  /\ requestLock = None
  /\ requestLock' = t
  /\ UNCHANGED <<closed, process, timers, os, searches, locals, closers>>

(* The first locked block: cancel the idle timer, spawn a process unless   *)
(* one is running, and write the request to it.                            *)
Usable == process # None /\ process \in running

Write(t, k) ==
  /\ Goto(t, "send", "await")
  /\ stdin' = [stdin EXCEPT ![k] = Append(@, request[t])]
  /\ worker' = [worker EXCEPT ![t] = k]
  /\ UNCHANGED <<requestLock, request, response, stopped, responses>>

SendToRunning(t) ==
  /\ ~closed /\ Usable
  /\ CancelTimer
  /\ Write(t, process)
  /\ UNCHANGED <<closed, process, spawned, running, reading, searches, closers>>

Spawn(t) ==
  LET k == spawned + 1 IN
  /\ ~closed /\ ~Usable
  /\ CancelTimer
  /\ spawned' = k
  /\ running' = running \cup {k}
  /\ reading' = reading \cup {k}
  /\ process' = k
  /\ Write(t, k)
  /\ UNCHANGED <<closed, searches, closers>>

(* The worker is closed, the spawn fails, or the process, polled or just   *)
(* spawned, is dead when it is written to and its pipe is broken: search   *)
(* raises, with the timer cancelled.                                       *)
SendFails(t) ==
  LET k == spawned + 1 IN
  /\ CancelTimer
  /\ Leave(t, "send")
  /\ \/ /\ closed \/ ~Usable
        /\ UNCHANGED <<process, spawned, running, reading>>
     \/ /\ ~closed /\ Usable
        /\ running' = running \ {process}
        /\ UNCHANGED <<process, spawned, reading>>
     \/ /\ ~closed /\ ~Usable
        /\ process' = k
        /\ spawned' = k
        /\ reading' = reading \cup {k}
        /\ UNCHANGED running
  /\ UNCHANGED <<closed, stopped, stdin, responses, searches, closers>>

(* Waiting for the response, outside self._lock: the queue delivers, or    *)
(* the query times out with the queue still empty.                         *)
Receive(t) ==
  LET k == worker[t] IN
  /\ Goto(t, "await", "settle")
  /\ responses[k] # <<>>
  /\ response' = [response EXCEPT ![t] = Head(responses[k])]
  /\ responses' = [responses EXCEPT ![k] = Tail(@)]
  /\ UNCHANGED <<closed, process, timers, requestLock, spawned, running, stopped,
                 stdin, reading, searches, request, worker, closers>>

(* Defect: the queue is read without a timeout. *)
NoTimeOut(t) == FALSE

TimeOut(t) ==
  /\ Goto(t, "await", "expired")
  /\ responses[worker[t]] = <<>>
  /\ UNCHANGED <<closed, process, timers, requestLock, os, searches, locals, closers>>

(* Defects: the process is left to serve the next search; it is forgotten  *)
(* but not stopped.                                                        *)
ReapKeeps(t) ==
  /\ Leave(t, "expired")
  /\ UNCHANGED <<closed, process, os, timers, searches, closers>>

ReapForgets(t) ==
  /\ Leave(t, "expired")
  /\ process' = IF process = worker[t] THEN None ELSE process
  /\ UNCHANGED <<closed, os, timers, searches, closers>>

(* The locked block of the TimeoutError path. *)
Reap(t) ==
  /\ Leave(t, "expired")
  /\ IF process = worker[t]
     THEN Stop(process) /\ process' = None
     ELSE UNCHANGED <<process, os>>
  /\ UNCHANGED <<closed, timers, searches, closers>>

(* Defect: an error response is raised before the teardown is scheduled. *)
SettleResults(t) ==
  LET new == [id |-> request[t], process |-> worker[t]] IN
  /\ Leave(t, "settle")
  /\ IF /\ ~closed /\ process = worker[t]
        /\ response[t] # Exited /\ response[t].ok
     THEN /\ timer' = new
          /\ armed' = (armed \ {timer}) \cup {new}
          /\ UNCHANGED firing
     ELSE UNCHANGED timers
  /\ UNCHANGED <<closed, process, os, searches, closers>>

(* The last locked block: schedule the idle teardown, whatever the         *)
(* response, and then return its results or raise its error.               *)
Settle(t) ==
  LET new == [id |-> request[t], process |-> worker[t]] IN
  /\ Leave(t, "settle")
  /\ IF ~closed /\ process = worker[t]
     THEN /\ timer' = new
          /\ armed' = (armed \ {timer}) \cup {new}
          /\ UNCHANGED firing
     ELSE UNCHANGED timers
  /\ UNCHANGED <<closed, process, os, searches, closers>>
-----------------------------------------------------------------------------
(* The timer threads and close(). *)

Expire(i) ==
  /\ i \in armed
  /\ armed' = armed \ {i}
  /\ firing' = firing \cup {i}
  /\ UNCHANGED <<closed, process, timer, requestLock, os, searches, pc, locals, closers>>

(* Defect: the timer does not check that it is still the current one. *)
RetireStale(i) ==
  /\ i \in firing
  /\ firing' = firing \ {i}
  /\ IF ~closed /\ process = i.process
     THEN timer' = None /\ process' = None /\ Stop(i.process)
     ELSE UNCHANGED <<timer, process, os>>
  /\ UNCHANGED <<closed, armed, requestLock, searches, pc, locals, closers>>

(* _retire_idle_worker, unless the timer was cancelled too late to stop it *)
(* or the worker has been closed or replaced since.                        *)
Retire(i) ==
  /\ i \in firing
  /\ firing' = firing \ {i}
  /\ IF timer = i /\ ~closed /\ process = i.process
     THEN timer' = None /\ process' = None /\ Stop(i.process)
     ELSE UNCHANGED <<timer, process, os>>
  /\ UNCHANGED <<closed, armed, requestLock, searches, pc, locals, closers>>

Close ==
  /\ closer = "open"
  /\ closed' = TRUE
  /\ CancelTimer
  /\ closing' = process
  /\ process' = None
  /\ closer' = IF process = None THEN "closed" ELSE "stopping"
  /\ UNCHANGED <<requestLock, os, searches, pc, locals>>

(* close() stops the process after it has released self._lock. *)
CloseStops ==
  /\ closer = "stopping"
  /\ Stop(closing)
  /\ closer' = "closed"
  /\ UNCHANGED <<closed, process, timers, requestLock, searches, pc, locals, closing>>
-----------------------------------------------------------------------------
(* The worker process (_worker_main) and the thread that reads its output. *)

(* A process answers its requests in order; what it has written reaches    *)
(* the queue.  Any exception of the search becomes an error response.      *)
Answer(k) ==
  /\ k \in running /\ k \in reading
  /\ stdin[k] # <<>>
  /\ stdin' = [stdin EXCEPT ![k] = Tail(@)]
  /\ \E ok \in BOOLEAN :
       responses' = [responses EXCEPT ![k] = Append(@, [to |-> Head(stdin[k]), ok |-> ok])]
  /\ UNCHANGED <<closed, process, timers, requestLock, spawned, running, stopped,
                 reading, searches, pc, locals, closers>>

Die(k) ==
  /\ k \in running
  /\ running' = running \ {k}
  /\ UNCHANGED <<closed, process, timers, requestLock, spawned, stopped, stdin,
                 responses, reading, searches, pc, locals, closers>>

(* At the end of the output the reader marks the queue; if _stop_process   *)
(* has closed the pipe under it, it may end in an exception instead.       *)
ReaderEnds(k) ==
  /\ k \in reading \ running
  /\ reading' = reading \ {k}
  /\ \/ responses' = [responses EXCEPT ![k] = Append(@, Exited)]
     \/ k \in stopped /\ UNCHANGED responses
  /\ UNCHANGED <<closed, process, timers, requestLock, spawned, running, stopped,
                 stdin, searches, pc, locals, closers>>

Search(t) ==
  \/ Enter(t) \/ SendToRunning(t) \/ Spawn(t) \/ SendFails(t)
  \/ Receive(t) \/ TimeOut(t) \/ Reap(t) \/ Settle(t)

Next ==
  \/ \E t \in Thread : Ask(t) \/ Search(t)
  \/ \E i \in Timer : Expire(i) \/ Retire(i)
  \/ Close \/ CloseStops
  \/ \E k \in Id : Answer(k) \/ Die(k) \/ ReaderEnds(k)

(* A thread in search() or close() runs on, a timeout and a timer that are *)
(* due come, a reader sees the end of its stream.  A process need never    *)
(* answer, and nobody need search or close.                                *)
Fairness ==
  /\ \A t \in Thread : WF_vars(Search(t))
  /\ \A i \in Timer : WF_vars(Expire(i)) /\ WF_vars(Retire(i))
  /\ WF_vars(CloseStops)
  /\ \A k \in Id : WF_vars(ReaderEnds(k))

Spec == Init /\ [][Next]_vars
FairSpec == Spec /\ Fairness
-----------------------------------------------------------------------------
TypeOK ==
  /\ closed \in BOOLEAN
  /\ process \in Id \cup {None}
  /\ timer \in Timer \cup {None}
  /\ requestLock \in Thread \cup {None}
  /\ spawned \in 0 .. searches
  /\ running \subseteq 1 .. spawned
  /\ stopped \subseteq 1 .. spawned
  /\ stdin \in [Id -> Seq(Id)]
  /\ responses \in [Id -> Seq(Response \cup {Exited})]
  /\ reading \subseteq 1 .. spawned
  /\ armed \subseteq Timer
  /\ firing \subseteq Timer
  /\ searches \in 0 .. MaxSearches
  /\ pc \in [Thread -> {"idle", "enter", "send", "await", "expired", "settle"}]
  /\ request \in [Thread -> Id \cup {None}]
  /\ worker \in [Thread -> Id \cup {None}]
  /\ response \in [Thread -> Response \cup {Exited, None}]
  /\ closer \in {"open", "stopping", "closed"}
  /\ closing \in Id \cup {None}

(* Responses carry no request id, so a search must never find an earlier   *)
(* one's late response on the queue: what a search receives, results or    *)
(* error, is the response to its own request.                              *)
OwnResponse ==
  \A t \in Thread : response[t] \in Response => response[t].to = request[t]

(* "Own exactly one lazily-created worker process per MCP server process": *)
(* whatever times out, dies, retires or closes, no two run at once.        *)
OneProcess == \A j, k \in running : j = k

(* After close() has returned no worker process is running, and none is    *)
(* ever started again, even by a search that was under way.                *)
ClosedForGood == closer = "closed" => running = {}

(* The types of the variables, and the processes: one at most, and none    *)
(* after close().                                                          *)
WorkersSound == TypeOK /\ OneProcess /\ ClosedForGood

(* An idle timer that expires just as a search begins never stops the      *)
(* process that search is waiting for.                                     *)
RetiresOnlyIdle ==
  [][ \A i \in Timer : Retire(i) /\ i.process \in running \ running' =>
        \A t \in Thread : pc[t] \in {"await", "settle"} => worker[t] # i.process ]_vars

(* Every search returns or raises: a worker that hangs, dies or is stopped *)
(* under it does not leave the caller waiting, nor those behind it.        *)
SearchesEnd == \A t \in Thread : pc[t] # "idle" ~> pc[t] = "idle"

(* A worker process nobody uses is given up in the end: however the        *)
(* searches before went, one that still runs has a timer to stop it.       *)
IdleReclaimed == <>[](\A t \in Thread : pc[t] = "idle") => <>[](running = {})
-----------------------------------------------------------------------------
(* What keeps these invariant; the steps preserve IInv.                    *)

Served(t) == pc[t] \in {"await", "expired", "settle"}

(* One thread at a time is between Enter and its return.                   *)
LockHeld == \A t \in Thread : pc[t] = "send" \/ Served(t) => requestLock = t

(* What search() has in its locals, and whom the requests belong to.       *)
LocalsDefined ==
  /\ \A t \in Thread :
       /\ pc[t] # "idle" => request[t] \in 1 .. searches
       /\ Served(t) => worker[t] \in 1 .. spawned
       /\ pc[t] # "settle" => response[t] = None
       /\ pc[t] = "settle" => response[t] # None
  /\ \A t, u \in Thread : pc[t] # "idle" /\ pc[u] # "idle" /\ request[t] = request[u] => t = u

(* A search spawns one process at most: no more were spawned than there    *)
(* are searches past their first locked block.                             *)
Past == {i \in 1 .. searches : \A t \in Thread : pc[t] \in {"enter", "send"} => request[t] # i}
SpawnsCounted == spawned <= Cardinality(Past)

(* The process that runs is the worker's own, or the one close() stops.    *)
ClosedKnown == closed <=> closer # "open"

RunningKnown ==
  /\ closer = "open" => running \subseteq {process}
  /\ closer = "stopping" => closing \in 1 .. spawned /\ running \subseteq {closing}
  /\ closer = "closed" => running = {}
  /\ process # None => closer = "open" /\ process \in 1 .. spawned

(* While a search waits there is no timer that could still retire anything. *)
NoTimerWhileServed == \A t \in Thread : Served(t) => timer = None

(* The pipes of a process that was never spawned are empty, and its reader *)
(* marks the end of the output only after the process is dead.             *)
PipesFresh ==
  /\ \A k \in Id : k > spawned => stdin[k] = <<>> /\ responses[k] = <<>>
  /\ running \subseteq reading
  /\ \A k \in reading : \A i \in DOMAIN responses[k] : responses[k][i] # Exited

(* One request of the caller is under way, or its response, and nothing    *)
(* else; once it has been received, or with nobody waiting, nothing is.    *)
Asked(t) ==
  LET k == worker[t] IN
  \/ stdin[k] = <<request[t]>> /\ responses[k] \in {<<>>, <<Exited>>}
  \/ /\ stdin[k] = <<>>
     /\ \E r \in Response : r.to = request[t] /\ responses[k] \in {<<r>>, <<r, Exited>>}

Received(t) ==
  LET k == worker[t] IN
  /\ response[t] = Exited => k \notin running
  /\ response[t] # Exited => /\ response[t].to = request[t]
                             /\ stdin[k] = <<>>
                             /\ responses[k] \in {<<>>, <<Exited>>}

PipesPaired ==
  /\ \A t \in Thread : pc[t] \in {"await", "expired"} => Asked(t)
  /\ \A t \in Thread : pc[t] = "settle" => Received(t)
  /\ process \in running /\ (\A t \in Thread : Served(t) => worker[t] # process) =>
       stdin[process] = <<>> /\ responses[process] = <<>>

IInv ==
  /\ TypeOK
  /\ LockHeld
  /\ LocalsDefined
  /\ SpawnsCounted
  /\ ClosedKnown
  /\ RunningKnown
  /\ NoTimerWhileServed
  /\ PipesFresh
  /\ PipesPaired
=============================================================================
