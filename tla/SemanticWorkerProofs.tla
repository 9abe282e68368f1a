------------------------- MODULE SemanticWorkerProofs -------------------------
(***************************************************************************)
(* The safety of the shared search process, for every set of threads and   *)
(* any number of searches.                                                 *)
(***************************************************************************)
EXTENDS SemanticWorker, FiniteSetTheorems, SequenceTheorems, TLAPS

USE DEF Goto, os, timers, locals, closers, Id
-----------------------------------------------------------------------------
(* The queues and pipes hold two elements at most. *)
LEMMA AppendToOne ==
  ASSUME NEW x, NEW y
  PROVE  Append(<<x>>, y) = <<x, y>>
<1> DEFINE S == {x, y}
<1>1. <<x>> \in Seq(S) /\ <<x, y>> \in Seq(S) /\ Append(<<x>>, y) \in Seq(S)
  OBVIOUS
<1>2. Len(Append(<<x>>, y)) = Len(<<x, y>>)
  OBVIOUS
<1>3. \A i \in 1 .. 2 : Append(<<x>>, y)[i] = <<x, y>>[i]
  OBVIOUS
<1>4. QED
  BY <1>1, <1>2, <1>3, SeqEqual

(* What a step of the timers, of close() or of a process leaves alone. *)
LEMMA NextSplit ==
  ASSUME [Next]_vars
  PROVE  \/ \E t \in Thread : Ask(t) \/ Search(t)
         \/ UNCHANGED <<requestLock, searches, pc, locals>>
BY DEF Next, vars, Expire, Retire, Close, CloseStops, Answer, Die, ReaderEnds

LEMMA InitIInv == Init => IInv
<1> SUFFICES ASSUME Init PROVE IInv
  OBVIOUS
<1>1. TypeOK
  <2>1. stdin \in [Id -> Seq(Id)]
    BY DEF Init
  <2>2. responses \in [Id -> Seq(Response \cup {Exited})]
    BY DEF Init
  <2>3. /\ pc \in [Thread -> {"idle", "enter", "send", "await", "expired", "settle"}]
        /\ request \in [Thread -> Id \cup {None}]
        /\ worker \in [Thread -> Id \cup {None}]
        /\ response \in [Thread -> Response \cup {Exited, None}]
    BY DEF Init
  <2>4. spawned \in 0 .. searches /\ searches \in 0 .. MaxSearches
    BY WorkerAssumption DEF Init
  <2>5. closed \in BOOLEAN
    BY DEF Init
  <2>6. QED
    BY <2>1, <2>2, <2>3, <2>4, <2>5 DEF Init, TypeOK
<1>2. Past = {}
  BY DEF Init, Past
<1>3. SpawnsCounted
  BY <1>2, FS_EmptySet DEF Init, SpawnsCounted
<1>4. LockHeld /\ LocalsDefined /\ ClosedKnown /\ RunningKnown /\ NoTimerWhileServed
  BY DEF Init, LockHeld, LocalsDefined, ClosedKnown, RunningKnown, NoTimerWhileServed, Served
<1>5. PipesFresh /\ PipesPaired
  BY DEF Init, PipesFresh, PipesPaired, Served
<1>6. QED
  BY <1>1, <1>3, <1>4, <1>5 DEF IInv
-----------------------------------------------------------------------------
LEMMA LockStep == IInv /\ [Next]_vars => LockHeld'
<1> SUFFICES ASSUME IInv, [Next]_vars PROVE LockHeld'
  OBVIOUS
<1> USE WorkerAssumption DEF IInv, TypeOK, LockHeld, Served
<1>1. ASSUME NEW t \in Thread, Ask(t) PROVE LockHeld'
  BY <1>1 DEF Ask
<1>2. ASSUME NEW t \in Thread, Enter(t) PROVE LockHeld'
  BY <1>2 DEF Enter
<1>3. ASSUME NEW t \in Thread, SendToRunning(t) \/ Spawn(t) PROVE LockHeld'
  BY <1>3 DEF SendToRunning, Spawn, Write
<1>4. ASSUME NEW t \in Thread, NEW step \in {"send", "expired", "settle"}, Leave(t, step)
      PROVE  LockHeld'
  BY <1>4 DEF Leave
<1>5. ASSUME NEW t \in Thread, Receive(t) PROVE LockHeld'
  BY <1>5 DEF Receive
<1>6. ASSUME NEW t \in Thread, TimeOut(t) PROVE LockHeld'
  BY <1>6 DEF TimeOut
<1>7. CASE UNCHANGED <<requestLock, searches, pc, locals>>
  BY <1>7
<1>8. QED
  BY <1>1, <1>2, <1>3, <1>4, <1>5, <1>6, <1>7, NextSplit
  DEF Search, SendFails, Reap, Settle

(* A thread that is served is the only one, and no other is to send.       *)
LEMMA Alone ==
  ASSUME IInv, NEW t \in Thread, NEW u \in Thread,
         pc[t] = "send" \/ Served(t), pc[u] = "send" \/ Served(u)
  PROVE  t = u
BY DEF IInv, LockHeld

LEMMA LocalsStep == IInv /\ [Next]_vars => LocalsDefined'
<1> SUFFICES ASSUME IInv, [Next]_vars PROVE LocalsDefined'
  OBVIOUS
<1> USE WorkerAssumption, ResponseAssumption DEF IInv, TypeOK, LocalsDefined, Served
<1>1. ASSUME NEW t \in Thread, Ask(t) PROVE LocalsDefined'
  BY <1>1 DEF Ask
<1>2. ASSUME NEW t \in Thread, Enter(t) PROVE LocalsDefined'
  BY <1>2 DEF Enter
<1>3. ASSUME NEW t \in Thread, SendToRunning(t) PROVE LocalsDefined'
  BY <1>3 DEF SendToRunning, Write, Usable, RunningKnown
<1>4. ASSUME NEW t \in Thread, Spawn(t) PROVE LocalsDefined'
  BY <1>4 DEF Spawn, Write
<1>5. ASSUME NEW t \in Thread, NEW step \in {"send", "expired", "settle"}, Leave(t, step),
             searches' = searches, spawned' \in {spawned, spawned + 1}
      PROVE  LocalsDefined'
  BY <1>5 DEF Leave
<1>6. ASSUME NEW t \in Thread, Receive(t) PROVE LocalsDefined'
  <2>1. worker[t] \in Id /\ responses[worker[t]] \in Seq(Response \cup {Exited})
    BY <1>6 DEF Receive
  <2>2. Head(responses[worker[t]]) \in Response \cup {Exited}
    BY <1>6, <2>1 DEF Receive
  <2>3. QED
    BY <1>6, <2>2 DEF Receive
<1>7. ASSUME NEW t \in Thread, TimeOut(t) PROVE LocalsDefined'
  BY <1>7 DEF TimeOut
<1>8. CASE UNCHANGED <<requestLock, searches, pc, locals>>
  <2>1. spawned' = spawned \/ \E t \in Thread : Ask(t) \/ Search(t)
    BY DEF Next, vars, Expire, Retire, Close, CloseStops, Stop, Answer, Die, ReaderEnds
  <2>2. ASSUME NEW t \in Thread, Ask(t) \/ Search(t) PROVE FALSE
    BY <1>8, <2>2 DEF Ask, Search, Enter, SendToRunning, Spawn, Write, SendFails, Leave,
                      Receive, TimeOut, Reap, Settle
  <2>3. QED
    BY <1>8, <2>1, <2>2
<1>9. QED
  BY <1>1, <1>2, <1>3, <1>4, <1>5, <1>6, <1>7, <1>8, NextSplit
  DEF Search, SendFails, Reap, Settle, Stop
-----------------------------------------------------------------------------
LEMMA PastTyped ==
  ASSUME searches \in Nat
  PROVE  IsFiniteSet(Past) /\ Cardinality(Past) \in Nat /\ Cardinality(Past) <= searches
<1>1. IsFiniteSet(1 .. searches) /\ Cardinality(1 .. searches) = searches
  BY FS_Interval
<1>2. Past \in SUBSET (1 .. searches)
  BY DEF Past
<1>3. QED
  BY <1>1, <1>2, FS_Subset, FS_CardinalityType

(* A search that leaves its first locked block is one more that is past.   *)
LEMMA OneMorePast ==
  ASSUME IInv, NEW t \in Thread, pc[t] = "send", searches' = searches,
         pc' \in {[pc EXCEPT ![t] = "await"], [pc EXCEPT ![t] = "idle"]},
         \A u \in Thread : u # t => request'[u] = request[u]
  PROVE  Cardinality(Past)' = Cardinality(Past) + 1
<1> USE DEF IInv, TypeOK
<1>1. request[t] \in (1 .. searches) \ Past
  BY DEF LocalsDefined, Past
<1>2. \A u \in Thread : u # t /\ pc[u] \in {"enter", "send"} => request[u] # request[t]
  BY DEF LocalsDefined
<1>3. \A u \in Thread : pc'[u] \in {"enter", "send"} <=> u # t /\ pc[u] \in {"enter", "send"}
  OBVIOUS
<1>4. Past' = {i \in 1 .. searches : \A u \in Thread :
                 u # t /\ pc[u] \in {"enter", "send"} => request[u] # i}
  BY <1>3 DEF Past
<1>5. Past' = Past \cup {request[t]}
  <2> HIDE DEF IInv, TypeOK
  <2>1. \A i \in Past : i \in Past'
    BY <1>4 DEF Past
  <2>2. request[t] \in Past'
    BY <1>1, <1>2, <1>4
  <2>3. ASSUME NEW i \in Past', i # request[t] PROVE i \in Past
    BY <1>4, <2>3 DEF Past
  <2>4. QED
    BY <2>1, <2>2, <2>3
<1>6. IsFiniteSet(Past)
  BY PastTyped
<1>7. QED
  BY <1>1, <1>5, <1>6, FS_AddElement

LEMMA SpawnsStep == IInv /\ [Next]_vars => SpawnsCounted'
<1> SUFFICES ASSUME IInv, [Next]_vars PROVE SpawnsCounted'
  OBVIOUS
<1>1. /\ spawned \in Nat /\ searches \in Nat /\ Cardinality(Past) \in Nat
      /\ spawned <= Cardinality(Past)
  BY WorkerAssumption, PastTyped DEF IInv, TypeOK, SpawnsCounted
<1>2. ASSUME NEW t \in Thread, pc[t] = "send", searches' = searches,
             spawned' \in {spawned, spawned + 1},
             pc' \in {[pc EXCEPT ![t] = "await"], [pc EXCEPT ![t] = "idle"]},
             \A u \in Thread : u # t => request'[u] = request[u]
      PROVE  SpawnsCounted'
  <2>1. Cardinality(Past)' = Cardinality(Past) + 1
    BY <1>2, OneMorePast
  <2>2. QED
    BY <1>1, <1>2, <2>1 DEF SpawnsCounted
<1>3. ASSUME spawned' = spawned, Past' = Past PROVE SpawnsCounted'
  BY <1>1, <1>3 DEF SpawnsCounted
<1> USE DEF IInv, TypeOK
<1>4. ASSUME NEW t \in Thread, Ask(t) PROVE SpawnsCounted'
  <2>1. \A u \in Thread : pc'[u] \in {"enter", "send"} <=> u = t \/ pc[u] \in {"enter", "send"}
    BY <1>4 DEF Ask
  <2>2. \A i \in 1 .. searches + 1 : i \in 1 .. searches \/ i = searches + 1
    BY <1>1
  <2>3. Past' = Past
    BY <1>1, <1>4, <2>1, <2>2 DEF Ask, Past, LocalsDefined
  <2>4. QED
    BY <1>3, <1>4, <2>3 DEF Ask
<1>5. ASSUME NEW t \in Thread, Enter(t) PROVE SpawnsCounted'
  <2>1. \A u \in Thread : pc'[u] \in {"enter", "send"} <=> pc[u] \in {"enter", "send"}
    BY <1>5 DEF Enter
  <2>2. QED
    BY <1>3, <1>5, <2>1 DEF Enter, Past
<1>6. ASSUME NEW t \in Thread, SendToRunning(t) \/ Spawn(t) PROVE SpawnsCounted'
  BY <1>2, <1>6 DEF SendToRunning, Spawn, Write
<1>7. ASSUME NEW t \in Thread, SendFails(t) PROVE SpawnsCounted'
  BY <1>2, <1>7 DEF SendFails, Leave
<1>8. ASSUME NEW t \in Thread, Receive(t) \/ TimeOut(t) \/ Reap(t) \/ Settle(t)
      PROVE  SpawnsCounted'
  <2>1. \A u \in Thread : pc'[u] \in {"enter", "send"} <=> pc[u] \in {"enter", "send"}
    BY <1>8 DEF Receive, TimeOut, Reap, Settle, Leave
  <2>2. /\ spawned' = spawned /\ searches' = searches
        /\ \A u \in Thread : pc[u] \in {"enter", "send"} => request'[u] = request[u]
    BY <1>8 DEF Receive, TimeOut, Reap, Settle, Leave, Stop
  <2>3. QED
    BY <1>3, <2>1, <2>2 DEF Past
<1>9. CASE UNCHANGED <<requestLock, searches, pc, locals>>
  <2>1. Past' = Past
    BY <1>9 DEF Past
  <2>2. spawned' = spawned \/ \E t \in Thread : Ask(t) \/ Search(t)
    BY DEF Next, vars, Expire, Retire, Close, CloseStops, Stop, Answer, Die, ReaderEnds
  <2>3. QED
    BY <1>3, <1>4, <1>5, <1>6, <1>7, <1>8, <2>1, <2>2 DEF Search
<1>10. QED
  BY <1>4, <1>5, <1>6, <1>7, <1>8, <1>9, NextSplit DEF Search
-----------------------------------------------------------------------------
LEMMA SpawnsBounded ==
  ASSUME IInv, [Next]_vars, searches' \in Nat, spawned' \in Nat
  PROVE  spawned' <= searches'
<1>1. (searches \in Nat => Cardinality(Past) \in Nat /\ Cardinality(Past) <= searches)'
  BY PastTyped, PTL
<1>2. spawned' <= Cardinality(Past)'
  BY SpawnsStep DEF SpawnsCounted
<1>3. QED
  BY <1>1, <1>2

LEMMA CountsStep ==
  ASSUME IInv, [Next]_vars
  PROVE  /\ searches' \in 0 .. MaxSearches /\ spawned' \in 0 .. searches'
         /\ searches \in Nat /\ spawned \in Nat
         /\ searches <= searches' /\ spawned <= spawned'
         /\ \A k \in 1 .. spawned' : k \in Id
<1>1. searches \in 0 .. MaxSearches /\ MaxSearches \in Nat /\ spawned \in Nat
  BY WorkerAssumption DEF IInv, TypeOK
<1>2. searches' = searches \/ (searches < MaxSearches /\ searches' = searches + 1)
  BY DEF Next, vars, Search, Ask, Enter, SendToRunning, Spawn, SendFails, Receive, TimeOut,
         Reap, Settle, Expire, Retire, Close, CloseStops, Answer, Die, ReaderEnds
<1>3. spawned' \in {spawned, spawned + 1}
  BY DEF Next, vars, Search, Ask, Enter, SendToRunning, Spawn, Write, SendFails, Receive,
         TimeOut, Reap, Settle, Stop, Expire, Retire, Close, CloseStops, Answer, Die, ReaderEnds
<1>4. searches' \in 0 .. MaxSearches /\ spawned' \in Nat
  BY <1>1, <1>2, <1>3
<1>5. spawned' <= searches'
  BY <1>4, SpawnsBounded
<1>6. QED
  BY <1>1, <1>2, <1>3, <1>4, <1>5

(* Which process runs: only a search spawns, and close() is the last word. *)
LEMMA ClosedStep == IInv /\ [Next]_vars => ClosedKnown'
<1> SUFFICES ASSUME IInv, [Next]_vars PROVE ClosedKnown'
  OBVIOUS
<1>1. UNCHANGED <<closed, closer>> \/ Close \/ CloseStops
  BY DEF Next, vars, Search, Ask, Enter, SendToRunning, Spawn, SendFails, Receive, TimeOut,
         Reap, Settle, Expire, Retire, Answer, Die, ReaderEnds
<1>2. QED
  BY <1>1 DEF IInv, ClosedKnown, Close, CloseStops

LEMMA RunningStep == IInv /\ [Next]_vars => RunningKnown'
<1> SUFFICES ASSUME IInv, [Next]_vars PROVE RunningKnown'
  OBVIOUS
<1>1. /\ None \notin Nat /\ spawned \in Nat /\ running \subseteq 1 .. spawned
      /\ spawned' \in Nat /\ spawned <= spawned'
  <2>1. /\ spawned \in Nat /\ spawned' \in 0 .. searches' /\ searches' \in 0 .. MaxSearches
        /\ spawned <= spawned'
    BY CountsStep
  <2>2. None \notin Nat
    BY WorkerAssumption
  <2>3. running \subseteq 1 .. spawned
    BY DEF IInv, TypeOK
  <2>4. spawned' \in Nat
    BY <2>1
  <2>5. QED
    BY <2>1, <2>2, <2>3, <2>4
<1>2. RunningKnown /\ closer \in {"open", "stopping", "closed"}
  BY DEF IInv, TypeOK
<1>3. ASSUME UNCHANGED <<process, closer, closing>>, running' \subseteq running
      PROVE  RunningKnown'
  BY <1>1, <1>2, <1>3 DEF RunningKnown
<1>4. ASSUME NEW t \in Thread, Spawn(t) PROVE RunningKnown'
  <2>1. closer = "open" /\ UNCHANGED closer
    BY <1>4 DEF Spawn, IInv, ClosedKnown
  <2>2. running = {}
    BY <1>1, <1>2, <1>4, <2>1 DEF Spawn, Usable, RunningKnown
  <2>3. process' = spawned + 1 /\ running' = {spawned + 1} /\ spawned' = spawned + 1
    BY <1>4, <2>2 DEF Spawn
  <2>4. QED
    BY <1>1, <2>1, <2>3 DEF RunningKnown
<1>5. ASSUME NEW t \in Thread, SendFails(t) PROVE RunningKnown'
  <2>1. CASE process' = process
    BY <1>3, <1>5, <2>1 DEF SendFails
  <2>2. CASE ~closed /\ ~Usable /\ process' = spawned + 1 /\ spawned' = spawned + 1
             /\ UNCHANGED <<running, closer>>
    <3>1. closer = "open"
      BY <2>2 DEF IInv, ClosedKnown
    <3>2. running = {}
      BY <1>1, <1>2, <2>2, <3>1 DEF Usable, RunningKnown
    <3>3. QED
      BY <1>1, <2>2, <3>1, <3>2 DEF RunningKnown
  <2>3. QED
    BY <1>5, <2>1, <2>2 DEF SendFails
<1>6. ASSUME running' = running \ {process}, process' = None, process # None,
             UNCHANGED <<closer, closing>>
      PROVE  RunningKnown'
  BY <1>1, <1>2, <1>6 DEF RunningKnown
<1>7. ASSUME NEW t \in Thread, Reap(t) PROVE RunningKnown'
  <2>1. worker[t] # None
    BY <1>1, <1>7 DEF Reap, Leave, IInv, LocalsDefined, Served
  <2>2. QED
    BY <1>3, <1>6, <1>7, <2>1 DEF Reap, Stop
<1>8. ASSUME NEW i \in Timer, Retire(i) PROVE RunningKnown'
  <2>1. i.process # None
    BY WorkerAssumption DEF Timer
  <2>2. QED
    BY <1>3, <1>6, <1>8, <2>1 DEF Retire, Stop
<1>9. CASE Close
  BY <1>1, <1>2, <1>9 DEF Close, RunningKnown
<1>10. CASE CloseStops
  BY <1>1, <1>2, <1>10 DEF CloseStops, Stop, RunningKnown
<1>11. QED
  BY <1>3, <1>4, <1>5, <1>7, <1>8, <1>9, <1>10
  DEF Next, vars, Search, Ask, Enter, SendToRunning, Write, Receive, TimeOut, Settle, Expire,
      Answer, Die, ReaderEnds

LEMMA TimerStep == IInv /\ [Next]_vars => NoTimerWhileServed'
<1> SUFFICES ASSUME IInv, [Next]_vars PROVE NoTimerWhileServed'
  OBVIOUS
<1> USE DEF IInv, TypeOK, NoTimerWhileServed, Served
<1>1. ASSUME NEW t \in Thread, Ask(t) \/ Enter(t) \/ SendToRunning(t) \/ Spawn(t) \/ SendFails(t)
                                 \/ Receive(t) \/ TimeOut(t) \/ Reap(t)
      PROVE  NoTimerWhileServed'
  BY <1>1 DEF Ask, Enter, SendToRunning, Spawn, Write, SendFails, Leave, CancelTimer, Receive,
              TimeOut, Reap
<1>2. ASSUME NEW t \in Thread, Settle(t) PROVE NoTimerWhileServed'
  <2>1. \A u \in Thread : Served(u) => u = t
    BY <1>2, Alone DEF Settle, Leave
  <2>2. QED
    BY <1>2, <2>1 DEF Settle, Leave
<1>3. ASSUME pc' = pc, timer' \in {timer, None} PROVE NoTimerWhileServed'
  BY <1>3
<1>4. QED
  BY <1>1, <1>2, <1>3 DEF Next, Search, vars, Expire, Retire, Close, CloseStops, CancelTimer,
                           Answer, Die, ReaderEnds
-----------------------------------------------------------------------------
(* The types of the variables, a few at a time. *)
LEMMA LocalsTyped ==
  ASSUME IInv, [Next]_vars
  PROVE  /\ pc' \in [Thread -> {"idle", "enter", "send", "await", "expired", "settle"}]
         /\ requestLock' \in Thread \cup {None}
         /\ request' \in [Thread -> Id \cup {None}]
         /\ worker' \in [Thread -> Id \cup {None}]
         /\ response' \in [Thread -> Response \cup {Exited, None}]
<1> DEFINE Typed == /\ pc \in [Thread -> {"idle", "enter", "send", "await", "expired", "settle"}]
                    /\ requestLock \in Thread \cup {None}
                    /\ request \in [Thread -> Id \cup {None}]
                    /\ worker \in [Thread -> Id \cup {None}]
                    /\ response \in [Thread -> Response \cup {Exited, None}]
<1>1. Typed /\ responses \in [Id -> Seq(Response \cup {Exited})]
  BY DEF IInv, TypeOK
<1>2. /\ \A k \in 1 .. spawned : k \in Id
      /\ searches' \in 0 .. MaxSearches /\ searches \in Nat /\ MaxSearches \in Nat
  BY CountsStep, WorkerAssumption DEF IInv, TypeOK
<1>3. ASSUME NEW t \in Thread, Ask(t) PROVE Typed'
  BY <1>1, <1>2, <1>3 DEF Ask
<1>4. ASSUME NEW t \in Thread, Enter(t) \/ TimeOut(t) PROVE Typed'
  BY <1>1, <1>4 DEF Enter, TimeOut
<1>5. ASSUME NEW t \in Thread, NEW k \in Id, Write(t, k) PROVE Typed'
  BY <1>1, <1>5 DEF Write
<1>6. ASSUME NEW t \in Thread, NEW step, Leave(t, step) PROVE Typed'
  BY <1>1, <1>6 DEF Leave
<1>7. ASSUME NEW t \in Thread, Receive(t) PROVE Typed'
  <2>1. worker[t] \in Id
    BY <1>2, <1>7 DEF Receive, IInv, LocalsDefined, Served
  <2>2. Head(responses[worker[t]]) \in Response \cup {Exited}
    BY <1>1, <1>7, <2>1 DEF Receive
  <2>3. QED
    BY <1>1, <1>7, <2>2 DEF Receive
<1>8. CASE UNCHANGED <<requestLock, searches, pc, locals>>
  BY <1>1, <1>8
<1>9. ASSUME NEW t \in Thread, SendToRunning(t) PROVE process \in Id /\ Write(t, process)
  BY <1>2, <1>9 DEF SendToRunning, Usable, IInv, RunningKnown
<1>10. ASSUME NEW t \in Thread, Spawn(t) PROVE spawned + 1 \in Id /\ Write(t, spawned + 1)
  <2>1. spawned' = spawned + 1
    BY <1>10 DEF Spawn
  <2>2. QED
    BY <1>10, <2>1, CountsStep DEF Spawn
<1>11. Typed'
  BY <1>3, <1>4, <1>5, <1>6, <1>7, <1>8, <1>9, <1>10, NextSplit
  DEF Search, SendFails, Reap, Settle
<1>12. QED
  BY <1>11

LEMMA PipesTyped ==
  ASSUME IInv, [Next]_vars
  PROVE  /\ stdin' \in [Id -> Seq(Id)]
         /\ responses' \in [Id -> Seq(Response \cup {Exited})]
<1> HIDE DEF Id
<1>1. /\ stdin \in [Id -> Seq(Id)] /\ responses \in [Id -> Seq(Response \cup {Exited})]
      /\ searches \in 0 .. MaxSearches /\ MaxSearches \in Nat
  BY WorkerAssumption DEF IInv, TypeOK
<1>2. ASSUME NEW t \in Thread, NEW k, Write(t, k) PROVE stdin' \in [Id -> Seq(Id)] /\ responses' = responses
  <2>1. request[t] \in Id
    BY <1>1, <1>2 DEF Write, IInv, LocalsDefined, Id
  <2>2. k \in Id => Append(stdin[k], request[t]) \in Seq(Id)
    BY <1>1, <2>1
  <2>3. QED
    BY <1>1, <1>2, <2>2 DEF Write
<1>3. ASSUME NEW t \in Thread, Receive(t) PROVE responses' \in [Id -> Seq(Response \cup {Exited})]
  <2>1. ASSUME worker[t] \in Id
        PROVE  Tail(responses[worker[t]]) \in Seq(Response \cup {Exited})
    BY <1>1, <1>3, <2>1 DEF Receive
  <2>2. QED
    BY <1>1, <1>3, <2>1 DEF Receive
<1>4. ASSUME NEW k \in Id, Answer(k) PROVE /\ stdin' \in [Id -> Seq(Id)]
                                           /\ responses' \in [Id -> Seq(Response \cup {Exited})]
  <2>1. stdin[k] \in Seq(Id) /\ stdin[k] # <<>>
    BY <1>1, <1>4 DEF Answer
  <2>2. Head(stdin[k]) \in Id /\ Tail(stdin[k]) \in Seq(Id)
    BY <2>1
  <2>3. PICK ok \in BOOLEAN :
          responses' = [responses EXCEPT ![k] = Append(@, [to |-> Head(stdin[k]), ok |-> ok])]
    BY <1>4 DEF Answer
  <2>4. [to |-> Head(stdin[k]), ok |-> ok] \in Response
    BY <2>2 DEF Response
  <2>5. responses' \in [Id -> Seq(Response \cup {Exited})]
    BY <1>1, <2>3, <2>4
  <2>6. stdin' = [stdin EXCEPT ![k] = Tail(@)]
    BY <1>4 DEF Answer
  <2>7. QED
    BY <1>1, <2>2, <2>5, <2>6
<1>5. ASSUME NEW k \in Id, ReaderEnds(k)
      PROVE  responses' \in [Id -> Seq(Response \cup {Exited})] /\ stdin' = stdin
  <2>1. Append(responses[k], Exited) \in Seq(Response \cup {Exited})
    BY <1>1
  <2>2. QED
    BY <1>1, <1>5, <2>1 DEF ReaderEnds
<1>6. QED
  BY <1>1, <1>2, <1>3, <1>4, <1>5
  DEF Next, vars, Search, Ask, Enter, SendToRunning, Spawn, SendFails, Receive, TimeOut,
      Reap, Settle, Stop, Expire, Retire, Close, CloseStops, Die

LEMMA TimersTyped ==
  ASSUME IInv, [Next]_vars
  PROVE  timer' \in Timer \cup {None} /\ armed' \subseteq Timer /\ firing' \subseteq Timer
<1>1. timer \in Timer \cup {None} /\ armed \subseteq Timer /\ firing \subseteq Timer
  BY DEF IInv, TypeOK
<1>2. ASSUME NEW t \in Thread, Settle(t) PROVE [id |-> request[t], process |-> worker[t]] \in Timer
  <2>1. searches \in 0 .. MaxSearches /\ spawned \in 0 .. searches /\ MaxSearches \in Nat
    BY WorkerAssumption DEF IInv, TypeOK
  <2>2. request[t] \in 1 .. searches /\ worker[t] \in 1 .. spawned
    BY <1>2 DEF Settle, Leave, IInv, LocalsDefined, Served
  <2>3. QED
    BY <2>1, <2>2 DEF Timer
<1>3. QED
  BY <1>1, <1>2
  DEF Next, vars, Search, Ask, Enter, SendToRunning, Spawn, SendFails, Receive, TimeOut, CancelTimer,
      Reap, Settle, Stop, Expire, Retire, Close, CloseStops, Die, Answer, ReaderEnds, Write

LEMMA ProcessesTyped ==
  ASSUME IInv, [Next]_vars
  PROVE  /\ running' \subseteq 1 .. spawned' /\ stopped' \subseteq 1 .. spawned'
         /\ reading' \subseteq 1 .. spawned'
<1>1. /\ running \subseteq 1 .. spawned /\ stopped \subseteq 1 .. spawned
      /\ reading \subseteq 1 .. spawned /\ spawned \in Nat /\ None \notin Nat
  BY CountsStep, WorkerAssumption DEF IInv, TypeOK
<1>2. /\ process # None => process \in 1 .. spawned
      /\ closer = "stopping" => closing \in 1 .. spawned
  BY DEF IInv, RunningKnown
<1>3. ASSUME NEW t \in Thread, Spawn(t) \/ SendFails(t)
      PROVE  /\ running' \subseteq 1 .. spawned' /\ stopped' \subseteq 1 .. spawned'
             /\ reading' \subseteq 1 .. spawned'
  <2>1. /\ spawned' \in {spawned, spawned + 1} /\ stopped' = stopped
        /\ running' \subseteq running \cup {spawned'}
        /\ reading' \subseteq reading \cup {spawned'}
        /\ spawned' = spawned => running' \subseteq running /\ reading' = reading
    BY <1>1, <1>3 DEF Spawn, SendFails, Write
  <2>2. QED
    BY <1>1, <2>1
<1>4. ASSUME NEW t \in Thread, Reap(t) PROVE stopped' \subseteq 1 .. spawned'
  <2>1. worker[t] # None
    BY <1>1, <1>4 DEF Reap, Leave, IInv, LocalsDefined, Served
  <2>2. /\ spawned' = spawned
        /\ stopped' \in {stopped, stopped \cup {worker[t]}}
        /\ stopped' # stopped => process = worker[t]
    BY <1>4 DEF Reap, Stop
  <2>3. QED
    BY <1>1, <1>2, <2>1, <2>2
<1>5. ASSUME NEW i \in Timer, Retire(i) PROVE stopped' \subseteq 1 .. spawned'
  <2>1. i.process # None
    BY WorkerAssumption DEF Timer
  <2>2. /\ spawned' = spawned
        /\ stopped' \in {stopped, stopped \cup {i.process}}
        /\ stopped' # stopped => process = i.process
    BY <1>5 DEF Retire, Stop
  <2>3. QED
    BY <1>1, <1>2, <2>1, <2>2
<1>6. CASE CloseStops
  BY <1>1, <1>2, <1>6 DEF CloseStops, Stop
<1>7. QED
  BY <1>1, <1>3, <1>4, <1>5, <1>6
  DEF Next, vars, Search, Ask, Enter, SendToRunning, Receive, TimeOut, Reap, Settle, Stop, Expire,
      Retire, Close, Die, Answer, ReaderEnds, Write

LEMMA TypeStep == IInv /\ [Next]_vars => TypeOK'
<1> SUFFICES ASSUME IInv, [Next]_vars PROVE TypeOK'
  OBVIOUS
<1>1. closed' \in BOOLEAN
  BY DEF IInv, TypeOK, Next, vars, Search, Ask, Enter, SendToRunning, Spawn, SendFails, Receive,
         TimeOut, Reap, Settle, Expire, Retire, Close, CloseStops, Die, Answer, ReaderEnds
<1>2. closer' \in {"open", "stopping", "closed"} /\ closing' \in {closing, process}
  BY DEF IInv, TypeOK, Next, vars, Search, Ask, Enter, SendToRunning, Spawn, SendFails, Receive,
         TimeOut, Reap, Settle, Expire, Retire, Close, CloseStops, Die, Answer, ReaderEnds
<1>3. process' \in Id \cup {None}
  BY RunningStep, CountsStep DEF RunningKnown
<1>4. closing' \in Id \cup {None}
  BY <1>2 DEF IInv, TypeOK
<1>5. QED
  BY <1>1, <1>2, <1>3, <1>4, CountsStep, LocalsTyped, PipesTyped, TimersTyped, ProcessesTyped
  DEF TypeOK
-----------------------------------------------------------------------------
LEMMA FreshStep == IInv /\ [Next]_vars => PipesFresh'
<1> SUFFICES ASSUME IInv, [Next]_vars PROVE PipesFresh'
  OBVIOUS
<1>1. /\ PipesFresh /\ running \subseteq reading
      /\ stdin \in [Id -> Seq(Id)] /\ responses \in [Id -> Seq(Response \cup {Exited})]
      /\ spawned \in Nat /\ reading \subseteq 1 .. spawned
      /\ \A k \in 1 .. spawned : k \in Id
  <2>1. TypeOK /\ PipesFresh
    BY DEF IInv
  <2>2. /\ stdin \in [Id -> Seq(Id)] /\ responses \in [Id -> Seq(Response \cup {Exited})]
        /\ spawned \in 0 .. searches /\ searches \in 0 .. MaxSearches
        /\ reading \subseteq 1 .. spawned
    BY <2>1 DEF TypeOK
  <2>3. spawned \in Nat /\ MaxSearches \in Nat
    BY CountsStep, WorkerAssumption
  <2>4. \A k \in 1 .. spawned : k \in Id
    BY <2>2, <2>3 DEF Id
  <2>5. running \subseteq reading
    BY <2>1 DEF PipesFresh
  <2>6. QED
    BY <2>1, <2>2, <2>3, <2>4, <2>5
<1> HIDE DEF Id
<1>2. ASSUME NEW t \in Thread, NEW k, Write(t, k), k \in 1 .. spawned',
             \/ UNCHANGED <<spawned, running, reading>>
             \/ /\ spawned' = spawned + 1 /\ k = spawned + 1 /\ k \in Id
                /\ running' = running \cup {k} /\ reading' = reading \cup {k}
      PROVE  PipesFresh'
  <2>1. responses' = responses /\ \A j \in Id : j # k => stdin'[j] = stdin[j]
    BY <1>1, <1>2 DEF Write
  <2>2. k \in Id => (k > spawned => responses[k] = <<>>)
    BY <1>1 DEF PipesFresh
  <2>3. \A j \in Id : j > spawned' => j # k /\ j > spawned
    BY <1>1, <1>2 DEF Id
  <2>4. spawned + 1 > spawned
    BY <1>1
  <2>5. \A j \in Id : j > spawned' => stdin'[j] = <<>> /\ responses'[j] = <<>>
    BY <1>1, <2>1, <2>3 DEF PipesFresh
  <2>6. running' \subseteq reading'
    BY <1>1, <1>2
  <2>7. ASSUME NEW j \in reading', NEW i \in DOMAIN responses[j] PROVE responses[j][i] # Exited
    <3>1. CASE j \in reading
      BY <1>1, <3>1 DEF PipesFresh
    <3>2. CASE j = k /\ k = spawned + 1 /\ k \in Id
      BY <2>2, <2>4, <3>2
    <3>3. QED
      BY <1>2, <3>1, <3>2
  <2>8. QED
    BY <2>1, <2>5, <2>6, <2>7 DEF PipesFresh
<1>3. ASSUME NEW t \in Thread, SendToRunning(t) PROVE PipesFresh'
  <2>1. process \in 1 .. spawned /\ Write(t, process) /\ UNCHANGED <<spawned, running, reading>>
    BY <1>3 DEF SendToRunning, Usable, IInv, RunningKnown
  <2>2. QED
    BY <1>2, <2>1
<1>4. ASSUME NEW t \in Thread, Spawn(t) PROVE PipesFresh'
  <2>1. /\ Write(t, spawned + 1) /\ spawned' = spawned + 1
        /\ running' = running \cup {spawned + 1} /\ reading' = reading \cup {spawned + 1}
    BY <1>4 DEF Spawn
  <2>2. spawned + 1 \in 1 .. spawned' /\ spawned + 1 \in Id
    BY <1>1, <2>1, CountsStep
  <2>3. QED
    BY <1>2, <2>1, <2>2
<1>5. ASSUME NEW t \in Thread, SendFails(t) PROVE PipesFresh'
  <2>1. /\ UNCHANGED <<stdin, responses>> /\ spawned' \in {spawned, spawned + 1}
        /\ running' \subseteq running
        /\ reading' \in {reading, reading \cup {spawned + 1}}
        /\ reading' # reading => spawned' = spawned + 1
    BY <1>5 DEF SendFails
  <2>2. spawned' = spawned + 1 => spawned + 1 \in Id
    BY <1>1, CountsStep
  <2>3. spawned + 1 \in Id => responses[spawned + 1] = <<>>
    BY <1>1 DEF PipesFresh
  <2>4. \A j \in Id : j > spawned' => j > spawned
    BY <1>1, <2>1 DEF Id
  <2>5. QED
    BY <1>1, <2>1, <2>2, <2>3, <2>4 DEF PipesFresh
<1>6. ASSUME NEW t \in Thread, Receive(t) PROVE PipesFresh'
  <2>1. worker[t] \in 1 .. spawned /\ worker[t] \in Id
    BY <1>1, <1>6 DEF Receive, IInv, LocalsDefined, Served
  <2> DEFINE q == responses[worker[t]]
  <2>2. q \in Seq(Response \cup {Exited}) /\ q # <<>>
    BY <1>1, <1>6, <2>1 DEF Receive
  <2>3. \A i \in DOMAIN Tail(q) : i + 1 \in DOMAIN q /\ Tail(q)[i] = q[i + 1]
    BY <2>2
  <2>4. \A k \in Id : k > spawned => k # worker[t]
    BY <1>1, <2>1 DEF Id
  <2>5. responses' = [responses EXCEPT ![worker[t]] = Tail(q)]
    BY <1>6 DEF Receive
  <2>6. UNCHANGED <<spawned, running, reading, stdin>>
    BY <1>6 DEF Receive
  <2> HIDE DEF q
  <2>7. ASSUME NEW k \in reading, NEW i \in DOMAIN responses'[k] PROVE responses'[k][i] # Exited
    <3>1. CASE k = worker[t]
      <4>1. i \in DOMAIN Tail(q) /\ responses'[k][i] = Tail(q)[i]
        BY <1>1, <2>1, <2>5, <3>1
      <4>2. \A j \in DOMAIN q : q[j] # Exited
        BY <1>1, <3>1 DEF PipesFresh, q
      <4>3. QED
        BY <2>3, <4>1, <4>2
    <3>2. CASE k # worker[t]
      BY <1>1, <2>1, <2>5, <3>2 DEF PipesFresh
    <3>3. QED
      BY <3>1, <3>2
  <2>8. QED
    BY <1>1, <2>1, <2>4, <2>5, <2>6, <2>7 DEF PipesFresh
<1>7. ASSUME NEW k \in Id, Answer(k) PROVE PipesFresh'
  <2>1. k \in reading /\ UNCHANGED <<spawned, running, reading>>
    BY <1>7 DEF Answer
  <2>2. k \in 1 .. spawned /\ \A j \in Id : j > spawned => j # k
    BY <1>1, <2>1 DEF Id
  <2>3. PICK r \in Response : responses' = [responses EXCEPT ![k] = Append(@, r)]
    <3>1. PICK ok \in BOOLEAN :
            responses' = [responses EXCEPT ![k] = Append(@, [to |-> Head(stdin[k]), ok |-> ok])]
      BY <1>7 DEF Answer
    <3>2. stdin[k] \in Seq(Id) /\ stdin[k] # <<>>
      BY <1>1, <1>7 DEF Answer
    <3>3. [to |-> Head(stdin[k]), ok |-> ok] \in Response
      BY <3>2 DEF Response
    <3>4. QED
      BY <3>1, <3>3
  <2>4. responses[k] \in Seq(Response \cup {Exited}) /\ r # Exited
    BY <1>1, ResponseAssumption
  <2>5. \A i \in DOMAIN Append(responses[k], r) :
          \/ i \in DOMAIN responses[k] /\ Append(responses[k], r)[i] = responses[k][i]
          \/ Append(responses[k], r)[i] = r
    BY <2>4
  <2>6. \A j \in Id : j # k => stdin'[j] = stdin[j] /\ responses'[j] = responses[j]
    BY <1>1, <1>7, <2>3 DEF Answer
  <2>7. responses'[k] = Append(responses[k], r)
    BY <1>1, <2>3
  <2>8. \A i \in DOMAIN responses'[k] : responses'[k][i] # Exited
    BY <1>1, <2>1, <2>4, <2>5, <2>7 DEF PipesFresh
  <2>9. \A j \in Id : j > spawned' => stdin'[j] = <<>> /\ responses'[j] = <<>>
    BY <1>1, <2>1, <2>2, <2>6 DEF PipesFresh
  <2>10. \A j \in reading : j \in Id
    BY <1>1
  <2>11. \A j \in reading' : \A i \in DOMAIN responses'[j] : responses'[j][i] # Exited
    BY <1>1, <2>1, <2>6, <2>8, <2>10 DEF PipesFresh
  <2>12. QED
    BY <1>1, <2>1, <2>9, <2>11 DEF PipesFresh
<1>8. ASSUME NEW k \in Id, ReaderEnds(k) PROVE PipesFresh'
  <2>1. /\ k \in reading \ running /\ reading' = reading \ {k} /\ UNCHANGED <<spawned, running, stdin>>
        /\ \A j \in Id : j # k => responses'[j] = responses[j]
    BY <1>1, <1>8 DEF ReaderEnds
  <2>2. \A j \in Id : j > spawned => j # k
    BY <1>1, <2>1 DEF Id
  <2>3. QED
    BY <1>1, <2>1, <2>2 DEF PipesFresh
<1>9. ASSUME UNCHANGED <<spawned, reading, stdin, responses>>, running' \subseteq running
      PROVE  PipesFresh'
  BY <1>1, <1>9 DEF PipesFresh
<1>10. QED
  BY <1>3, <1>4, <1>5, <1>6, <1>7, <1>8, <1>9
  DEF Next, vars, Search, Ask, Enter, TimeOut, Reap, Settle, Stop, Expire, Retire, Close,
      CloseStops, Die

(* No end-of-stream mark is on the queue while the reader still reads.     *)
LEMMA NoMark ==
  ASSUME IInv, NEW k \in Id, k \in reading
  PROVE  /\ responses[k] # <<Exited>>
         /\ \A r \in Response : responses[k] # <<r, Exited>>
<1>1. ASSUME responses[k] = <<Exited>> PROVE FALSE
  <2>1. 1 \in DOMAIN responses[k] /\ responses[k][1] = Exited
    BY <1>1
  <2>2. QED
    BY <2>1 DEF IInv, PipesFresh
<1>2. ASSUME NEW r \in Response, responses[k] = <<r, Exited>> PROVE FALSE
  <2>1. 2 \in DOMAIN responses[k] /\ responses[k][2] = Exited
    BY <1>2
  <2>2. QED
    BY <2>1 DEF IInv, PipesFresh
<1>3. QED
  BY <1>1, <1>2

LEMMA Numbered ==
  ASSUME IInv
  PROVE  None \notin running /\ \A k \in running : k \in Id /\ k <= spawned
<1>1. /\ running \subseteq 1 .. spawned /\ spawned \in 0 .. searches
      /\ searches \in 0 .. MaxSearches
  BY DEF IInv, TypeOK
<1>2. spawned \in Nat /\ searches \in Nat /\ MaxSearches \in Nat /\ None \notin Nat
  BY <1>1, WorkerAssumption
<1>3. \A k \in 1 .. spawned : k \in Nat /\ k \in Id /\ k <= spawned
  BY <1>1, <1>2
<1>4. QED
  BY <1>1, <1>2, <1>3

(* A step that leaves the pipes and the served searches as they are.       *)
LEMMA PairedFrame ==
  ASSUME IInv, UNCHANGED <<stdin, responses, worker, response>>, running' \subseteq running,
         process' \in {process, None},
         \A u \in Thread : /\ Served(u) => request'[u] = request[u]
                           /\ pc'[u] \in {"await", "expired"} <=> pc[u] \in {"await", "expired"}
                           /\ pc'[u] = "settle" <=> pc[u] = "settle"
  PROVE  PipesPaired'
<1>1. PipesPaired
  BY DEF IInv
<1>2. None \notin running
  BY Numbered
<1>3. ASSUME NEW u \in Thread, pc'[u] \in {"await", "expired"} PROVE Asked(u)'
  BY <1>1, <1>3 DEF PipesPaired, Asked, Served
<1>4. ASSUME NEW u \in Thread, pc'[u] = "settle" PROVE Received(u)'
  BY <1>1, <1>4 DEF PipesPaired, Received, Served
<1>5. \A u \in Thread : Served(u)' <=> Served(u)
  BY DEF Served
<1>6. ASSUME process' \in running', \A u \in Thread : Served(u)' => worker'[u] # process'
      PROVE  stdin'[process'] = <<>> /\ responses'[process'] = <<>>
  BY <1>1, <1>2, <1>5, <1>6 DEF PipesPaired
<1>7. QED
  BY <1>3, <1>4, <1>6 DEF PipesPaired

(* The first request on a process whose pipes are empty.                   *)
LEMMA PairedWrite ==
  ASSUME IInv, NEW t \in Thread, NEW k \in Id, Write(t, k), process' = k,
         stdin[k] = <<>>, responses[k] = <<>>
  PROVE  PipesPaired'
<1>1. /\ pc \in [Thread -> {"idle", "enter", "send", "await", "expired", "settle"}]
      /\ worker \in [Thread -> Id \cup {None}] /\ stdin \in [Id -> Seq(Id)]
  BY DEF IInv, TypeOK
<1>2. pc[t] = "send" /\ pc'[t] = "await" /\ worker'[t] = k /\ UNCHANGED <<responses, request>>
  BY <1>1 DEF Write
<1>3. \A u \in Thread : u # t => ~Served(u) /\ pc'[u] = pc[u]
  BY <1>1, <1>2, Alone DEF Write
<1>4. stdin'[k] = <<request[t]>>
  BY <1>1 DEF Write
<1>5. Asked(t)'
  BY <1>2, <1>4 DEF Asked
<1>6. \A u \in Thread : Served(u)' => u = t
  BY <1>3 DEF Served
<1>7. Served(t)'
  BY <1>2 DEF Served
<1>8. QED
  BY <1>2, <1>5, <1>6, <1>7 DEF PipesPaired, Served

LEMMA PairedReceive ==
  ASSUME IInv, NEW t \in Thread, Receive(t)
  PROVE  PipesPaired'
<1> DEFINE k == worker[t]
<1> HIDE DEF Id
<1>1. /\ pc \in [Thread -> {"idle", "enter", "send", "await", "expired", "settle"}]
      /\ response \in [Thread -> Response \cup {Exited, None}]
      /\ responses \in [Id -> Seq(Response \cup {Exited})]
      /\ running \subseteq reading
  BY DEF IInv, TypeOK, PipesFresh
<1>2. k \in Id
  BY CountsStep DEF Receive, IInv, LocalsDefined, Served, Next, Search
<1>3. /\ pc[t] = "await" /\ pc'[t] = "settle" /\ responses[k] # <<>>
      /\ response'[t] = Head(responses[k]) /\ responses'[k] = Tail(responses[k])
      /\ \A j \in Id : j # k => responses'[j] = responses[j]
      /\ UNCHANGED <<process, running, stdin, request, worker>>
  BY <1>1, <1>2 DEF Receive
<1>4. \A u \in Thread : u # t => ~Served(u) /\ ~Served(u)'
  BY <1>1, <1>3, Alone DEF Receive, Served
<1>5. Asked(t)
  BY <1>3 DEF IInv, PipesPaired
<1>6. Received(t)'
  <2>1. CASE responses[k] = <<Exited>>
    <3>1. response'[t] = Exited
      BY <1>3, <2>1
    <3>2. k \notin running
      BY <1>1, <1>2, <2>1, NoMark
    <3>3. QED
      BY <1>3, <3>1, <3>2 DEF Received
  <2>2. ASSUME stdin[k] = <<>>, NEW r \in Response, r.to = request[t],
               responses[k] \in {<<r>>, <<r, Exited>>}
        PROVE  Received(t)'
    <3>1. response'[t] = r /\ responses'[k] \in {<<>>, <<Exited>>}
      <4>1. CASE responses[k] = <<r>>
        BY <1>3, <4>1
      <4>2. CASE responses[k] = <<r, Exited>>
        <5>1. Head(<<r, Exited>>) = r /\ Tail(<<r, Exited>>) = <<Exited>>
          OBVIOUS
        <5>2. QED
          BY <1>3, <4>2, <5>1
      <4>3. QED
        BY <2>2, <4>1, <4>2
    <3>2. r # Exited
      BY ResponseAssumption
    <3>3. QED
      BY <1>3, <2>2, <3>1, <3>2 DEF Received
  <2>3. QED
    BY <1>3, <1>5, <2>1, <2>2 DEF Asked
<1>7. Served(t) /\ Served(t)'
  BY <1>3 DEF Served
<1>8. ASSUME process' \in running', \A u \in Thread : Served(u)' => worker'[u] # process'
      PROVE  stdin'[process'] = <<>> /\ responses'[process'] = <<>>
  <2>1. process # k /\ process \in running /\ \A u \in Thread : Served(u) => worker[u] # process
    BY <1>3, <1>4, <1>7, <1>8
  <2>2. stdin[process] = <<>> /\ responses[process] = <<>> /\ process \in Id
    BY <2>1, WorkerAssumption DEF IInv, PipesPaired, TypeOK
  <2>3. QED
    BY <1>3, <2>1, <2>2
<1>9. QED
  BY <1>3, <1>4, <1>6, <1>8 DEF PipesPaired, Served

LEMMA PairedAnswer ==
  ASSUME IInv, NEW k \in Id, Answer(k)
  PROVE  PipesPaired'
<1> HIDE DEF Id
<1>1. /\ responses \in [Id -> Seq(Response \cup {Exited})] /\ stdin \in [Id -> Seq(Id)]
      /\ worker \in [Thread -> Id \cup {None}]
  BY DEF IInv, TypeOK
<1>2. /\ k \in running /\ k \in reading /\ stdin[k] # <<>>
      /\ \A j \in Id : j # k => stdin'[j] = stdin[j] /\ responses'[j] = responses[j]
      /\ UNCHANGED <<process, running, pc, request, worker, response>>
  BY <1>1 DEF Answer
<1>3. PICK ok \in BOOLEAN :
        responses'[k] = Append(responses[k], [to |-> Head(stdin[k]), ok |-> ok])
  BY <1>1 DEF Answer
<1>4. stdin'[k] = Tail(stdin[k])
  BY <1>1 DEF Answer
<1> DEFINE r == [to |-> Head(stdin[k]), ok |-> ok]
<1>5. Head(stdin[k]) \in Id
  BY <1>1, <1>2
<1>6. r \in Response /\ r.to = Head(stdin[k])
  BY <1>5 DEF Response
<1> HIDE DEF r
<1>7. \A u \in Thread : Served(u) => worker[u] \in Id
  BY CountsStep DEF IInv, LocalsDefined, Next
<1>8. ASSUME NEW u \in Thread, pc[u] \in {"await", "expired"} PROVE Asked(u)'
  <2>1. Asked(u)
    BY <1>8 DEF IInv, PipesPaired
  <2>2. CASE worker[u] # k
    BY <1>2, <1>7, <1>8, <2>1, <2>2 DEF Asked, Served
  <2>3. CASE worker[u] = k
    <3>1. stdin[k] = <<request[u]>> /\ responses[k] = <<>>
      BY <1>2, <2>1, <2>3, NoMark DEF Asked
    <3>2. Head(stdin[k]) = request[u] /\ Tail(stdin[k]) = <<>>
      BY <3>1
    <3>3. responses'[k] = <<r>>
      BY <1>3, <3>1 DEF r
    <3>4. QED
      BY <1>2, <1>4, <1>6, <2>3, <3>2, <3>3 DEF Asked
  <2>4. QED
    BY <2>2, <2>3
<1>9. ASSUME NEW u \in Thread, pc[u] = "settle" PROVE Received(u)'
  <2>1. Received(u)
    BY <1>9 DEF IInv, PipesPaired
  <2>2. worker[u] # k
    BY <1>2, <2>1 DEF Received
  <2>3. QED
    BY <1>2, <1>7, <1>9, <2>1, <2>2 DEF Received, Served
<1>10. ASSUME process \in running, \A u \in Thread : Served(u) => worker[u] # process
       PROVE  stdin'[process] = <<>> /\ responses'[process] = <<>>
  <2>1. stdin[process] = <<>> /\ responses[process] = <<>>
    BY <1>10 DEF IInv, PipesPaired
  <2>2. process # k /\ process \in Id
    BY <1>2, <1>10, <2>1, Numbered
  <2>3. QED
    BY <1>2, <2>1, <2>2
<1>11. QED
  BY <1>2, <1>8, <1>9, <1>10 DEF PipesPaired, Served

LEMMA PairedReaderEnds ==
  ASSUME IInv, NEW k \in Id, ReaderEnds(k)
  PROVE  PipesPaired'
<1> HIDE DEF Id
<1>1. responses \in [Id -> Seq(Response \cup {Exited})]
  BY DEF IInv, TypeOK
<1>2. /\ k \notin running /\ k \in reading
      /\ \A j \in Id : j # k => responses'[j] = responses[j]
      /\ responses'[k] \in {responses[k], Append(responses[k], Exited)}
      /\ UNCHANGED <<stdin, process, running, pc, request, worker, response>>
  BY <1>1 DEF ReaderEnds
<1>3. \A u \in Thread : Served(u) => worker[u] \in Id
  BY CountsStep DEF IInv, LocalsDefined, Next
<1>4. ASSUME NEW u \in Thread, pc[u] \in {"await", "expired"} PROVE Asked(u)'
  <2>1. Asked(u)
    BY <1>4 DEF IInv, PipesPaired
  <2>2. CASE worker[u] # k
    BY <1>2, <1>3, <1>4, <2>1, <2>2 DEF Asked, Served
  <2>3. CASE worker[u] = k /\ stdin[k] = <<request[u]>> /\ responses[k] = <<>>
    BY <1>2, <2>3 DEF Asked
  <2>4. ASSUME worker[u] = k, stdin[k] = <<>>, NEW r \in Response, r.to = request[u],
               responses[k] = <<r>>
        PROVE  Asked(u)'
    <3>1. Append(responses[k], Exited) = <<r, Exited>>
      BY <2>4, AppendToOne
    <3>2. QED
      BY <1>2, <2>4, <3>1 DEF Asked
  <2>5. QED
    BY <1>2, <2>1, <2>2, <2>3, <2>4, NoMark DEF Asked
<1>5. ASSUME NEW u \in Thread, pc[u] = "settle" PROVE Received(u)'
  <2>1. Received(u)
    BY <1>5 DEF IInv, PipesPaired
  <2>2. CASE worker[u] # k
    BY <1>2, <1>3, <1>5, <2>1, <2>2 DEF Received, Served
  <2>3. CASE worker[u] = k
    <3>1. responses[k] # <<Exited>> /\ Append(<<>>, Exited) = <<Exited>>
      BY <1>2, NoMark
    <3>2. responses[k] = <<>> => responses'[k] \in {<<>>, <<Exited>>}
      BY <1>2, <3>1
    <3>3. QED
      BY <1>2, <2>1, <2>3, <3>1, <3>2 DEF Received
  <2>4. QED
    BY <2>2, <2>3
<1>6. ASSUME process \in running, \A u \in Thread : Served(u) => worker[u] # process
      PROVE  stdin'[process] = <<>> /\ responses'[process] = <<>>
  BY <1>2, <1>6, Numbered DEF IInv, PipesPaired
<1>7. QED
  BY <1>2, <1>4, <1>5, <1>6 DEF PipesPaired, Served

(* A search leaves nothing behind on a process that still runs.            *)
LEMMA PairedLeave ==
  ASSUME IInv, NEW t \in Thread, NEW step \in {"send", "expired", "settle"}, Leave(t, step),
         UNCHANGED <<stdin, responses>>, running' \subseteq running,
         process' \in running' =>
           /\ process' = process
           /\ step # "send" /\ worker[t] = process => step = "settle"
  PROVE  PipesPaired'
<1>1. /\ pc \in [Thread -> {"idle", "enter", "send", "await", "expired", "settle"}]
      /\ pc[t] = step /\ pc'[t] = "idle" /\ \A u \in Thread : u # t => pc'[u] = pc[u]
  BY DEF IInv, TypeOK, Leave
<1>2. \A u \in Thread : Served(u) => u = t
  BY <1>1, Alone DEF Served
<1>3. \A u \in Thread : ~Served(u)'
  BY <1>1, <1>2 DEF Served
<1>4. ASSUME process' \in running' PROVE stdin[process'] = <<>> /\ responses[process'] = <<>>
  <2>1. process' = process /\ process \in running /\ process \in reading /\ process \in Id
    BY <1>4, Numbered DEF IInv, PipesFresh
  <2>2. CASE \A u \in Thread : Served(u) => worker[u] # process
    BY <2>1, <2>2 DEF IInv, PipesPaired
  <2>3. CASE pc[t] = "settle" /\ worker[t] = process
    <3>1. Received(t)
      BY <2>3 DEF IInv, PipesPaired
    <3>2. QED
      BY <2>1, <2>3, <3>1, NoMark DEF Received
  <2>4. QED
    BY <1>1, <1>2, <1>4, <2>1, <2>2, <2>3 DEF Served
<1>5. QED
  BY <1>3, <1>4 DEF PipesPaired, Served

LEMMA PairedStep == IInv /\ [Next]_vars => PipesPaired'
<1> SUFFICES ASSUME IInv, [Next]_vars PROVE PipesPaired'
  OBVIOUS
<1> HIDE DEF Id
<1>1. pc \in [Thread -> {"idle", "enter", "send", "await", "expired", "settle"}]
  BY DEF IInv, TypeOK
<1>2. ASSUME NEW t \in Thread, Ask(t) \/ Enter(t) \/ TimeOut(t) PROVE PipesPaired'
  <2>1. \A u \in Thread : /\ Served(u) => request'[u] = request[u]
                          /\ pc'[u] \in {"await", "expired"} <=> pc[u] \in {"await", "expired"}
                          /\ pc'[u] = "settle" <=> pc[u] = "settle"
    BY <1>1, <1>2 DEF Ask, Enter, TimeOut, Served, IInv, TypeOK
  <2>2. QED
    BY <1>2, <2>1, PairedFrame DEF Ask, Enter, TimeOut
<1>3. ASSUME NEW t \in Thread, SendToRunning(t) PROVE PipesPaired'
  <2>1. process \in running /\ process \in Id /\ process' = process /\ Write(t, process)
    BY <1>3, Numbered DEF SendToRunning, Usable
  <2>2. \A u \in Thread : ~Served(u)
    BY <2>1, Alone DEF Write, Served
  <2>3. stdin[process] = <<>> /\ responses[process] = <<>>
    BY <2>1, <2>2 DEF IInv, PipesPaired
  <2>4. QED
    BY <2>1, <2>3, PairedWrite
<1>4. ASSUME NEW t \in Thread, Spawn(t) PROVE PipesPaired'
  <2>1. process' = spawned + 1 /\ spawned' = spawned + 1 /\ Write(t, spawned + 1)
    BY <1>4 DEF Spawn
  <2>2. spawned + 1 \in Id /\ spawned + 1 > spawned
    BY <2>1, CountsStep
  <2>3. stdin[spawned + 1] = <<>> /\ responses[spawned + 1] = <<>>
    BY <2>2 DEF IInv, PipesFresh
  <2>4. QED
    BY <2>1, <2>2, <2>3, PairedWrite
<1>5. ASSUME NEW t \in Thread, SendFails(t) PROVE PipesPaired'
  <2>1. spawned + 1 \notin running
    BY Numbered, CountsStep
  <2>2. process' \in running' => process' = process
    BY <1>5, <2>1 DEF SendFails
  <2>3. QED
    BY <1>5, <2>2, PairedLeave DEF SendFails
<1>6. ASSUME NEW t \in Thread, Reap(t) PROVE PipesPaired'
  <2>1. process' \in running' => process' = process /\ worker[t] # process
    BY <1>6, Numbered DEF Reap, Stop
  <2>2. Leave(t, "expired") /\ UNCHANGED <<stdin, responses>> /\ running' \subseteq running
    BY <1>6 DEF Reap, Stop
  <2>3. QED
    BY <2>1, <2>2, PairedLeave
<1>7. ASSUME NEW t \in Thread, Settle(t) PROVE PipesPaired'
  BY <1>7, PairedLeave DEF Settle
<1>8. ASSUME UNCHANGED <<stdin, responses, worker, response, request, pc>>,
             running' \subseteq running, process' \in {process, None}
      PROVE  PipesPaired'
  BY <1>8, PairedFrame
<1>9. QED
  BY <1>2, <1>3, <1>4, <1>5, <1>6, <1>7, <1>8, PairedReceive, PairedAnswer, PairedReaderEnds
  DEF Next, vars, Search, Expire, Retire, Close, CloseStops, Stop, Die
-----------------------------------------------------------------------------
(* Whatever times out, dies, retires or closes, the worker's bookkeeping   *)
(* of its threads, its process, its timer and its pipes stays right.       *)
THEOREM WorkerInvariant == Spec => []IInv
<1>1. IInv /\ [Next]_vars => IInv'
  BY TypeStep, LockStep, LocalsStep, SpawnsStep, ClosedStep, RunningStep, TimerStep, FreshStep,
     PairedStep DEF IInv
<1>2. QED
  BY InitIInv, <1>1, PTL DEF Spec

(* self._process, spawned under the lock and given up under it, is the     *)
(* only process that runs, and after close() has returned none does: no    *)
(* search that was under way starts another.                               *)
THEOREM WorkersAlwaysSound == Spec => []WorkersSound
<1>1. IInv => OneProcess
  BY DEF IInv, TypeOK, RunningKnown, OneProcess
<1>2. IInv => ClosedForGood
  BY DEF IInv, RunningKnown, ClosedForGood
<1>3. IInv => WorkersSound
  BY <1>1, <1>2 DEF IInv, WorkersSound
<1>4. QED
  BY WorkerInvariant, <1>3, PTL

(* The lines on the pipes carry no request id, and still a search only     *)
(* ever reads the response to its own request: a process whose answer was  *)
(* not waited for is never asked again.                                    *)
THEOREM ResponsesAlwaysOwn == Spec => []OwnResponse
<1>1. ASSUME IInv, NEW t \in Thread, response[t] \in Response
      PROVE  response[t].to = request[t]
  <2>1. pc[t] = "settle"
    BY <1>1, ResponseAssumption DEF IInv, LocalsDefined
  <2>2. Received(t)
    BY <2>1, <1>1 DEF IInv, PipesPaired
  <2>3. QED
    BY <1>1, <2>2, ResponseAssumption DEF Received
<1>2. IInv => OwnResponse
  BY <1>1 DEF OwnResponse
<1>3. QED
  BY WorkerInvariant, <1>2, PTL

(* The first locked block of search() cancels the timer, and               *)
(* _retire_idle_worker looks whether it is still the current one: a timer  *)
(* that had expired before stops no process a search is waiting for.       *)
THEOREM RetirementsOnlyIdle == Spec => RetiresOnlyIdle
<1>1. ASSUME IInv, NEW i \in Timer, Retire(i), i.process \in running \ running',
             NEW t \in Thread, pc[t] \in {"await", "settle"}
      PROVE  FALSE
  <2>1. timer = i
    BY <1>1 DEF Retire
  <2>2. timer = None
    BY <1>1 DEF IInv, NoTimerWhileServed, Served
  <2>3. QED
    BY <2>1, <2>2, ResponseAssumption
<1> DEFINE Idle == \A i \in Timer : Retire(i) /\ i.process \in running \ running' =>
                     \A t \in Thread : pc[t] \in {"await", "settle"} => worker[t] # i.process
<1>2. IInv => Idle
  BY <1>1
<1>3. QED
  BY WorkerInvariant, <1>2, PTL DEF RetiresOnlyIdle
=============================================================================
