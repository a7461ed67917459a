---------------------------- MODULE TaskPoolProofs ----------------------------
(***************************************************************************)
(* Proofs about TaskPool for every set of requests, users and threads.     *)
(*                                                                         *)
(* CountIsOutstanding is not inductive alone: that Finish removes exactly  *)
(* one element from Outstanding needs TasksNotShared (no other thread runs *)
(* the same task, and its request has passed execute).                     *)
(***************************************************************************)
EXTENDS TaskPool, FiniteSetTheorems, TLAPS

\* A task is handed over once and run by one thread: no two threads run the
\* same task, a queued task is queued once and is not running, and only a
\* request that has passed execute has a task in the pool.
TasksNotShared ==
  /\ \A w \in Workers :
       Busy(w) => task[w] \in Requests /\ fate[task[w]] = "running"
  /\ \A v, w \in Workers : Busy(v) /\ Busy(w) /\ task[v] = task[w] => v = w
  /\ \A i \in 1..Len(queue) : fate[queue[i]] = "queued"
  /\ \A i, j \in 1..Len(queue) : queue[i] = queue[j] => i = j
  /\ \A r \in Requests :
       fate[r] # "none" => rpc[r] \in {"wait", "fetch", "deal", "done", "error"}

\* A thread that is computing holds an entry some request's task allocated.
ComputeHolds ==
  \A w \in Workers : wpc[w] = "compute" => ndAndCoord[w] \in Requests

LEMMA InitType == Init => TypeOK /\ ComputeHolds
<1> SUFFICES ASSUME Init PROVE TypeOK /\ ComputeHolds
  OBVIOUS
<1> USE DEF Init
<1>1. isRunning \in BOOLEAN /\ taskCnt \in Int
  <2>1. isRunning \in BOOLEAN
    BY DEF StatusInit
  <2>2. taskCnt \in Int
    BY DEF StatusInit
  <2>3. QED
    BY <2>1, <2>2
<1>2. 1 \in Levels /\ 1 \in 1..MaxX
  BY ConstantsTyped DEF Levels
<1>3. at \in [Workers -> (1..MaxX) \X Levels] /\ dealAt \in [Requests -> Levels]
  BY <1>2
<1>4. queue \in Seq(Requests)
  OBVIOUS
<1>5. /\ points \in [Requests -> [Levels -> SUBSET Points]]
      /\ made \in [Requests -> SUBSET (Levels \X (1..MaxX))]
      /\ overlap \in [Requests -> SUBSET Requests]
  OBVIOUS
<1>6. QED
  BY <1>1, <1>3, <1>4, <1>5
  DEF TypeOK, ComputeHolds, Entries, RequestPc, WorkerPc, Fates

LEMMA RequestType ==
  ASSUME TypeOK, ComputeHolds, NEW r \in Requests, Request(r)
  PROVE  TypeOK' /\ ComputeHolds'
<1> USE ConstantsTyped DEF TypeOK, ComputeHolds, Goto, RequestPc, Entries
<1>1. CASE Begin(r)
  BY <1>1 DEF Begin, statusVars, workerVars, CacheKey
<1>2. CASE Construct(r)
  BY <1>2 DEF Construct, statusVars, mapVars, workerVars, historyVars
<1>3. CASE PutMap(r)
  BY <1>3 DEF PutMap, statusVars, workerVars, historyVars, CacheKey
<1>4. CASE Mark(r)
  BY <1>4 DEF Mark, MarkRunning, mapVars, workerVars, historyVars
<1>5. CASE Count(r)
  BY <1>5 DEF Count, operateRunningTask, mapVars, workerVars, historyVars
<1>6. CASE ExecuteOnNewThread(r)
  BY <1>6 DEF ExecuteOnNewThread, Unborn, statusVars, mapVars, WorkerPc, Fates
<1>7. CASE ExecuteOnQueue(r)
  BY <1>7 DEF ExecuteOnQueue, statusVars, mapVars, workerVars, Fates
<1>8. CASE SeeIdle(r)
  BY <1>8 DEF SeeIdle, statusVars, mapVars, workerVars, historyVars
<1>9. CASE Fetch(r)
  BY <1>9 DEF Fetch, statusVars, mapVars, workerVars, historyVars, CacheKey
<1>10. CASE DealPoint(r)
  <2>1. points' \in [Requests -> [Levels -> SUBSET Points]]
    <3>1. <<r, 0>> \in Points
      BY DEF Points
    <3>2. CASE r \in InLeak
      <4> DEFINE e == DealEntry(r)
      <4>1. e \in Requests /\ dealAt[r] \in Levels
        BY <1>10, <3>2 DEF DealPoint, DealFails, DealEntry, SameKind
      <4>2. points[e][dealAt[r]] \union {<<r, 0>>} \in SUBSET Points
        <5>1. points[e] \in [Levels -> SUBSET Points]
          BY <4>1
        <5>2. points[e][dealAt[r]] \in SUBSET Points
          BY <5>1, <4>1
        <5>3. QED
          BY <5>2, <3>1
      <4> HIDE DEF e
      <4>3. [points[e] EXCEPT ![dealAt[r]] = @ \union {<<r, 0>>}]
               \in [Levels -> SUBSET Points]
        BY <4>1, <4>2
      <4>4. points' = [points EXCEPT ![e] =
                         [points[e] EXCEPT ![dealAt[r]] = @ \union {<<r, 0>>}]]
        BY <1>10, <3>2, <4>1 DEF DealPoint, e
      <4>5. QED
        BY <4>1, <4>3, <4>4
    <3>3. QED
      BY <1>10, <3>2 DEF DealPoint
  <2>2. QED
    BY <1>10, <2>1 DEF DealPoint, statusVars, workerVars, historyVars, Levels
<1>11. CASE DealError(r)
  BY <1>11 DEF DealError, statusVars, mapVars, workerVars, historyVars
<1>12. CASE DealLosePoint(r)
  BY <1>12 DEF DealLosePoint, statusVars, mapVars, workerVars, historyVars, Levels
<1>13. CASE PrepareFails(r)
  BY <1>13 DEF PrepareFails, statusVars, mapVars, workerVars, historyVars
<1>14. QED
  BY <1>1, <1>2, <1>3, <1>4, <1>5, <1>6, <1>7, <1>8, <1>9, <1>10, <1>11, <1>12,
     <1>13
  DEF Request

LEMMA AdvanceType ==
  ASSUME TypeOK, NEW w \in Workers, Advance(w)
  PROVE  /\ at' \in [Workers -> (1..MaxX) \X Levels]
         /\ wpc' \in [Workers -> WorkerPc]
         /\ \A v \in Workers : wpc'[v] = "compute" => wpc[v] = "compute"
<1>1. at[w][1] \in 1..MaxX /\ at[w][2] \in Levels
  BY DEF TypeOK
<1>2. at' \in [Workers -> (1..MaxX) \X Levels]
  <2>1. CASE /\ at[w][2] < NumLevels
             /\ at' = [at EXCEPT ![w] = <<at[w][1], at[w][2] + 1>>]
    <3>1. at[w][2] + 1 \in Levels
      BY <1>1, <2>1, ConstantsTyped DEF Levels
    <3>2. QED
      BY <1>1, <2>1, <3>1 DEF TypeOK
  <2>2. CASE /\ at[w][1] < LoopBound(task[w])
             /\ at' = [at EXCEPT ![w] = <<at[w][1] + 1, 1>>]
    <3>1. at[w][1] + 1 \in 1..MaxX /\ 1 \in Levels
      BY <1>1, <2>2, ConstantsTyped DEF Levels, LoopBound
    <3>2. QED
      BY <2>2, <3>1 DEF TypeOK
  <2>3. CASE at' = at
    BY <2>3 DEF TypeOK
  <2>4. QED
    BY <2>1, <2>2, <2>3 DEF Advance
<1>3. /\ wpc' \in [Workers -> WorkerPc]
      /\ \A v \in Workers : wpc'[v] = "compute" => wpc[v] = "compute"
  BY DEF Advance, TypeOK, WorkerPc
<1>4. QED
  BY <1>2, <1>3

LEMMA PutEntryType ==
  ASSUME TypeOK, ComputeHolds, TasksNotShared, NEW w \in Workers,
         wpc[w] = "compute", NEW coords \in SUBSET Points,
         NEW computed \in SUBSET (Levels \X (1..MaxX)),
         PutEntry(w, coords, computed)
  PROVE  TypeOK' /\ ComputeHolds'
<1> DEFINE e == ndAndCoord[w]
           m == resultMap[w]
           l == at[w][2]
           x == at[w][1]
<1>1. /\ e \in Requests
      /\ l \in Levels
      /\ x \in 1..MaxX
      /\ task[w] \in Requests
  BY DEF TypeOK, ComputeHolds, TasksNotShared, Busy
<1> HIDE DEF e, l, x, m
<1>2. points' \in [Requests -> [Levels -> SUBSET Points]]
  <2>1. [points[e] EXCEPT ![l] = coords] \in [Levels -> SUBSET Points]
    BY <1>1 DEF TypeOK
  <2>2. points' = [points EXCEPT ![e] = [points[e] EXCEPT ![l] = coords]]
    BY <1>1 DEF PutEntry, e, l
  <2>3. QED
    BY <1>1, <2>1, <2>2 DEF TypeOK
<1>3. resultMaps' \in [Requests -> [Levels -> Entries]]
  <2>1. CASE m \in Requests
    <3>1. [resultMaps[m] EXCEPT ![l] = e] \in [Levels -> Entries]
      BY <1>1, <2>1 DEF TypeOK, Entries
    <3>2. resultMaps' = [resultMaps EXCEPT ![m] = [resultMaps[m] EXCEPT ![l] = e]]
      BY <2>1 DEF PutEntry, e, l, m, TypeOK
    <3>3. QED
      BY <2>1, <3>1, <3>2 DEF TypeOK
  <2>2. CASE m \notin Requests
    <3>1. resultMaps' = resultMaps
      BY <2>2 DEF PutEntry, m, TypeOK
    <3>2. QED
      BY <3>1 DEF TypeOK
  <2>3. QED
    BY <2>1, <2>2
<1>4. made' \in [Requests -> SUBSET (Levels \X (1..MaxX))]
  <2>1. made' = [made EXCEPT ![task[w]] = @ \union computed]
    BY DEF PutEntry
  <2>2. QED
    BY <1>1, <2>1 DEF TypeOK
<1>5. /\ at' \in [Workers -> (1..MaxX) \X Levels]
      /\ wpc' \in [Workers -> WorkerPc]
      /\ \A v \in Workers : wpc'[v] = "compute" => wpc[v] = "compute"
  BY AdvanceType DEF PutEntry
<1>6. QED
  BY <1>2, <1>3, <1>4, <1>5
  DEF PutEntry, TypeOK, ComputeHolds, statusVars, requestVars

LEMMA WorkerType ==
  ASSUME TypeOK, ComputeHolds, TasksNotShared, NEW w \in Workers, Worker(w)
  PROVE  TypeOK' /\ ComputeHolds'
<1>1. CASE TakeTask(w)
  <2>1. Head(queue) \in Requests /\ Tail(queue) \in Seq(Requests)
    BY <1>1 DEF TakeTask, TypeOK
  <2>2. QED
    BY <1>1, <2>1
    DEF TakeTask, TypeOK, ComputeHolds, statusVars, requestVars, mapVars, WorkerPc,
        Fates, Entries
<1>2. CASE ReadMap(w)
  <2>1. task[w] \in Requests
    BY <1>2 DEF ReadMap, TasksNotShared, Busy
  <2>2. cache[CacheKey(task[w])] \in Entries
    BY <2>1, ConstantsTyped DEF TypeOK, CacheKey
  <2>3. <<1, 1>> \in (1..MaxX) \X Levels
    BY ConstantsTyped DEF Levels
  <2>4. QED
    BY <1>2, <2>2, <2>3
    DEF ReadMap, TypeOK, ComputeHolds, statusVars, requestVars, mapVars,
        historyVars, WorkerPc
<1>3. CASE SkipLevel(w)
  BY <1>3, AdvanceType
  DEF SkipLevel, TypeOK, ComputeHolds, statusVars, requestVars, mapVars, historyVars
<1>4. CASE GetEntry(w)
  <2>1. task[w] \in Requests
    BY <1>4 DEF GetEntry, TasksNotShared, Busy
  <2>2. EntryFor(w) \in Entries
    <3>1. at[w][2] \in Levels /\ resultMap[w] \in Requests
      BY <1>4 DEF GetEntry, GetFails, TypeOK, Entries
    <3>2. resultMaps[resultMap[w]] \in [Levels -> Entries]
      BY <3>1 DEF TypeOK
    <3>3. QED
      BY <3>1, <3>2 DEF EntryFor, Entries
  <2>3. ndAndCoord'[w] \in Requests /\ ndAndCoord' \in [Workers -> Entries]
    BY <1>4, <2>1, <2>2 DEF GetEntry, TypeOK, Entries
  <2>4. QED
    BY <1>4, <2>3
    DEF GetEntry, TypeOK, ComputeHolds, statusVars, requestVars, mapVars,
        historyVars, WorkerPc
<1>5. CASE GetError(w) \/ AddError(w)
  BY <1>5
  DEF GetError, AddError, Die, TypeOK, ComputeHolds, statusVars, requestVars,
      mapVars, WorkerPc, Fates
<1>6. CASE AddPoints(w) \/ SetRadius(w) \/ KeepRadius(w) \/ GiveUp(w) \/ LosePoints(w)
  <2>1. wpc[w] = "compute"
    BY <1>6 DEF AddPoints, SetRadius, KeepRadius, GiveUp, LosePoints, Contended
  <2>2. /\ ndAndCoord[w] \in Requests
        /\ task[w] \in Requests
        /\ at[w][2] \in Levels
        /\ at[w][1] \in 1..MaxX
    BY <2>1 DEF ComputeHolds, TasksNotShared, Busy, TypeOK
  <2>3. NewPoint(w) \in Points
    BY <2>2, ConstantsTyped DEF NewPoint, Points
  <2>4. OldCoords(w) \in SUBSET Points
    <3>1. points[ndAndCoord[w]] \in [Levels -> SUBSET Points]
      BY <2>2 DEF TypeOK
    <3>2. QED
      BY <2>2, <3>1 DEF OldCoords
  <2>5. {NewCell(w)} \in SUBSET (Levels \X (1..MaxX))
    BY <2>2 DEF NewCell
  <2>6. \E coords \in SUBSET Points, computed \in SUBSET (Levels \X (1..MaxX)) :
          PutEntry(w, coords, computed)
    BY <1>6, <2>3, <2>4, <2>5
    DEF AddPoints, SetRadius, KeepRadius, GiveUp, LosePoints
  <2>7. QED
    BY <2>1, <2>6, PutEntryType
<1>7. CASE Finish(w)
  <2>1. isRunning' \in BOOLEAN
    BY <1>7 DEF Finish, deleteRunningTask, operateRunningTask
  <2>2. taskCnt' \in Int
    BY <1>7 DEF Finish, deleteRunningTask, operateRunningTask, TypeOK
  <2>3. QED
    BY <1>7, <2>1, <2>2
    DEF Finish, TypeOK, ComputeHolds, requestVars, mapVars, WorkerPc, Fates
<1>8. QED
  BY <1>1, <1>2, <1>3, <1>4, <1>5, <1>6, <1>7 DEF Worker
-----------------------------------------------------------------------------
(***************************************************************************)
(* One thread per task.                                                    *)
(***************************************************************************)
LEMMA InitShared == Init => TasksNotShared
  BY DEF Init, TasksNotShared, Busy

\* Request steps other than the two of execute leave the pool alone.
LEMMA RequestShared ==
  ASSUME TypeOK, TasksNotShared, NEW r \in Requests, Request(r)
  PROVE  TasksNotShared'
<1> USE DEF Goto
<1>1. CASE ExecuteOnNewThread(r)
  <2>1. rpc[r] = "execute" /\ fate[r] = "none"
    BY <1>1 DEF ExecuteOnNewThread, TasksNotShared
  <2>2. PICK u \in Unborn : /\ wpc' = [wpc EXCEPT ![u] = "start"]
                            /\ task' = [task EXCEPT ![u] = r]
    BY <1>1 DEF ExecuteOnNewThread
  <2>3. \A v \in Workers : Busy(v)' /\ v # u => Busy(v) /\ task'[v] = task[v]
    BY <2>2 DEF Busy, TypeOK
  <2>4. u \in Workers /\ task'[u] = r
    BY <2>2 DEF Unborn, TypeOK
  <2>5. fate' = [fate EXCEPT ![r] = "running"] /\ queue' = queue
    BY <1>1 DEF ExecuteOnNewThread
  <2>6. \A v \in Workers : Busy(v) => task[v] # r
    BY <2>1 DEF TasksNotShared
  <2>7. \A v \in Workers :
          Busy(v)' => task'[v] \in Requests /\ fate'[task'[v]] = "running"
    <3> SUFFICES ASSUME NEW v \in Workers, Busy(v)'
                 PROVE  task'[v] \in Requests /\ fate'[task'[v]] = "running"
      OBVIOUS
    <3>1. CASE v = u
      BY <2>4, <2>5, <3>1 DEF TypeOK
    <3>2. CASE v # u
      <4>1. Busy(v) /\ task'[v] = task[v]
        BY <2>3, <3>2
      <4>2. task[v] \in Requests /\ task[v] # r /\ fate[task[v]] = "running"
        BY <2>6, <4>1 DEF TasksNotShared
      <4>3. QED
        BY <2>5, <4>1, <4>2 DEF TypeOK
    <3>3. QED
      BY <3>1, <3>2
  <2>8. \A v, w \in Workers :
          Busy(v)' /\ Busy(w)' /\ task'[v] = task'[w] => v = w
    BY <2>3, <2>4, <2>6 DEF TasksNotShared
  <2>9. \A i \in 1..Len(queue) : fate'[queue[i]] = "queued"
    BY <2>1, <2>5 DEF TasksNotShared, TypeOK
  <2>10. \A q \in Requests :
           fate'[q] # "none" => rpc'[q] \in {"wait", "fetch", "deal", "done", "error"}
    BY <1>1, <2>5 DEF ExecuteOnNewThread, TasksNotShared, TypeOK
  <2>11. QED
    BY <2>5, <2>7, <2>8, <2>9, <2>10 DEF TasksNotShared
<1>2. CASE ExecuteOnQueue(r)
  <2>1. rpc[r] = "execute" /\ fate[r] = "none"
    BY <1>2 DEF ExecuteOnQueue, TasksNotShared
  <2>2. /\ fate' = [fate EXCEPT ![r] = "queued"]
        /\ queue' = Append(queue, r)
        /\ UNCHANGED <<wpc, task>>
    BY <1>2 DEF ExecuteOnQueue, workerVars
  <2>3. /\ Len(queue') = Len(queue) + 1
        /\ queue'[Len(queue) + 1] = r
        /\ \A i \in 1..Len(queue) : queue'[i] = queue[i] /\ queue[i] \in Requests
    BY <2>2 DEF TypeOK
  <2>4. \A i \in 1..Len(queue) : queue[i] # r
    BY <2>1 DEF TasksNotShared
  <2>5. \A i \in 1..Len(queue') : fate'[queue'[i]] = "queued"
    BY <2>2, <2>3, <2>4 DEF TasksNotShared, TypeOK
  <2>6. \A i, j \in 1..Len(queue') : queue'[i] = queue'[j] => i = j
    <3>1. Len(queue) \in Nat
      BY DEF TypeOK
    <3>2. \A i \in 1..Len(queue') : i \in 1..Len(queue) \/ i = Len(queue) + 1
      BY <2>3, <3>1
    <3>3. \A i, j \in 1..Len(queue) : queue'[i] = queue'[j] => i = j
      BY <2>3 DEF TasksNotShared
    <3>4. \A i \in 1..Len(queue) : queue'[i] # queue'[Len(queue) + 1]
      BY <2>3, <2>4
    <3>5. QED
      BY <3>2, <3>3, <3>4
  <2>7. \A v \in Workers :
          Busy(v)' => task'[v] \in Requests /\ fate'[task'[v]] = "running"
    BY <2>1, <2>2 DEF TasksNotShared, Busy, TypeOK
  <2>8. \A v, w \in Workers :
          Busy(v)' /\ Busy(w)' /\ task'[v] = task'[w] => v = w
    BY <2>2 DEF TasksNotShared, Busy
  <2>9. \A q \in Requests :
           fate'[q] # "none" => rpc'[q] \in {"wait", "fetch", "deal", "done", "error"}
    BY <1>2, <2>2 DEF ExecuteOnQueue, TasksNotShared, TypeOK
  <2>10. QED
    BY <2>5, <2>6, <2>7, <2>8, <2>9 DEF TasksNotShared
<1>3. CASE /\ UNCHANGED <<wpc, task, queue, fate>>
           /\ \E here, next \in RequestPc :
                /\ rpc[r] = here
                /\ rpc' = [rpc EXCEPT ![r] = next]
                /\ here \in {"wait", "fetch", "deal", "done", "error"}
                     => next \in {"wait", "fetch", "deal", "done", "error"}
  <2>1. \A q \in Requests :
           fate'[q] # "none" => rpc'[q] \in {"wait", "fetch", "deal", "done", "error"}
    BY <1>3 DEF TasksNotShared, TypeOK
  <2>2. QED
    BY <1>3, <2>1 DEF TasksNotShared, Busy
<1>4. CASE ~ (ExecuteOnNewThread(r) \/ ExecuteOnQueue(r))
  <2>1. UNCHANGED <<wpc, task, queue, fate>>
    BY <1>4
    DEF Request, Begin, PrepareFails, Construct, PutMap, Mark, Count, SeeIdle,
        Fetch, DealPoint, DealLosePoint, DealError, workerVars, historyVars
  <2>2. \E here, next \in RequestPc :
          /\ rpc[r] = here
          /\ rpc' = [rpc EXCEPT ![r] = next]
          /\ here \in {"wait", "fetch", "deal", "done", "error"}
               => next \in {"wait", "fetch", "deal", "done", "error"}
    BY <1>4
    DEF Request, Begin, PrepareFails, Construct, PutMap, Mark, Count, SeeIdle,
        Fetch, DealPoint, DealLosePoint, DealError, RequestPc
  <2>3. QED
    BY <1>3, <2>1, <2>2
<1>5. QED
  BY <1>1, <1>2, <1>4

LEMMA WorkerShared ==
  ASSUME TypeOK, TasksNotShared, NEW w \in Workers, Worker(w)
  PROVE  TasksNotShared'
<1>1. CASE TakeTask(w)
  <2> DEFINE r == Head(queue)
  <2>1. /\ r = queue[1]
        /\ r \in Requests
        /\ Len(queue') = Len(queue) - 1
        /\ Len(queue) > 0
        /\ \A i \in 1..Len(queue') : queue'[i] = queue[i + 1] /\ queue[i + 1] \in Requests
    BY <1>1 DEF TakeTask, TypeOK
  <2>2. fate[r] = "queued"
    BY <2>1 DEF TasksNotShared, TypeOK
  <2>3. /\ fate' = [fate EXCEPT ![r] = "running"]
        /\ wpc' = [wpc EXCEPT ![w] = "start"]
        /\ task' = [task EXCEPT ![w] = r]
        /\ rpc' = rpc
        /\ ~Busy(w)
    BY <1>1 DEF TakeTask, requestVars, Busy
  <2> HIDE DEF r
  <2>4. \A v \in Workers : v # w => (Busy(v)' <=> Busy(v)) /\ task'[v] = task[v]
    BY <2>3 DEF Busy, TypeOK
  <2>5. \A v \in Workers : Busy(v) => task[v] # r
    BY <2>2 DEF TasksNotShared
  <2>6. task'[w] = r
    BY <2>3 DEF TypeOK
  <2>7. \A v \in Workers :
          Busy(v)' => task'[v] \in Requests /\ fate'[task'[v]] = "running"
    BY <2>1, <2>3, <2>4, <2>5, <2>6 DEF TasksNotShared, TypeOK
  <2>8. \A u, v \in Workers :
          Busy(u)' /\ Busy(v)' /\ task'[u] = task'[v] => u = v
    BY <2>4, <2>5, <2>6 DEF TasksNotShared
  <2>9. \A i \in 1..Len(queue') : queue[i + 1] # r /\ i + 1 \in 1..Len(queue)
    BY <2>1 DEF TasksNotShared, TypeOK
  <2>10. \A i \in 1..Len(queue') : fate'[queue'[i]] = "queued"
    <3> SUFFICES ASSUME NEW i \in 1..Len(queue') PROVE fate'[queue'[i]] = "queued"
      OBVIOUS
    <3>1. queue'[i] = queue[i + 1] /\ queue[i + 1] \in Requests /\ queue[i + 1] # r
      BY <2>1, <2>9
    <3>2. fate[queue[i + 1]] = "queued"
      BY <2>9 DEF TasksNotShared
    <3>3. QED
      BY <2>3, <3>1, <3>2 DEF TypeOK
  <2>11. \A i, j \in 1..Len(queue') : queue'[i] = queue'[j] => i = j
    <3> SUFFICES ASSUME NEW i \in 1..Len(queue'), NEW j \in 1..Len(queue'),
                        queue'[i] = queue'[j]
                 PROVE  i = j
      OBVIOUS
    <3>1. queue[i + 1] = queue[j + 1]
      BY <2>1
    <3>2. i + 1 = j + 1
      BY <2>9, <3>1 DEF TasksNotShared
    <3>3. QED
      BY <3>2
  <2>12. \A q \in Requests :
           fate'[q] # "none" => rpc'[q] \in {"wait", "fetch", "deal", "done", "error"}
    BY <2>2, <2>3 DEF TasksNotShared, TypeOK
  <2>13. QED
    BY <2>7, <2>8, <2>10, <2>11, <2>12 DEF TasksNotShared
<1>2. CASE /\ UNCHANGED <<rpc, task, queue, fate>>
           /\ \A v \in Workers : Busy(v)' => Busy(v)
  BY <1>2 DEF TasksNotShared
<1>3. CASE ReadMap(w) \/ SkipLevel(w) \/ GetEntry(w) \/ AddPoints(w)
           \/ SetRadius(w) \/ KeepRadius(w) \/ GiveUp(w) \/ LosePoints(w)
  <2>1. UNCHANGED <<rpc, task, queue, fate>>
    BY <1>3
    DEF ReadMap, SkipLevel, GetEntry, AddPoints, SetRadius, KeepRadius, GiveUp,
        LosePoints, PutEntry, requestVars, historyVars
  <2>2. Busy(w) /\ \A v \in Workers : v # w => wpc'[v] = wpc[v]
    BY <1>3
    DEF ReadMap, SkipLevel, GetEntry, AddPoints, SetRadius, KeepRadius, GiveUp,
        LosePoints, PutEntry, Advance, Contended, Busy, TypeOK
  <2>3. QED
    BY <1>2, <2>1, <2>2 DEF Busy
<1>4. ASSUME NEW f \in {"finished", "dead"},
             fate' = [fate EXCEPT ![task[w]] = f],
             Busy(w), wpc' = [wpc EXCEPT ![w] = "idle"],
             UNCHANGED <<rpc, task, queue>>
      PROVE  TasksNotShared'
  <2>1. task[w] \in Requests /\ fate[task[w]] = "running"
    BY <1>4 DEF TasksNotShared
  <2>2. ~Busy(w)' /\ \A v \in Workers : v # w => (Busy(v)' <=> Busy(v))
    BY <1>4 DEF Busy, TypeOK
  <2>3. \A v \in Workers :
          Busy(v)' => task'[v] \in Requests /\ fate'[task'[v]] = "running"
    BY <1>4, <2>1, <2>2 DEF TasksNotShared, TypeOK
  <2>4. \A u, v \in Workers :
          Busy(u)' /\ Busy(v)' /\ task'[u] = task'[v] => u = v
    BY <1>4, <2>2 DEF TasksNotShared
  <2>5. \A i \in 1..Len(queue) : queue[i] \in Requests /\ queue[i] # task[w]
    BY <2>1 DEF TasksNotShared, TypeOK
  <2>6. \A i \in 1..Len(queue') : fate'[queue'[i]] = "queued"
    BY <1>4, <2>5 DEF TasksNotShared, TypeOK
  <2>7. \A q \in Requests :
           fate'[q] # "none" => rpc'[q] \in {"wait", "fetch", "deal", "done", "error"}
    BY <1>4, <2>1 DEF TasksNotShared, TypeOK
  <2>8. QED
    BY <1>4, <2>3, <2>4, <2>6, <2>7 DEF TasksNotShared
<1>5. CASE GetError(w) \/ AddError(w) \/ Finish(w)
  <2>1. Busy(w)
    BY <1>5 DEF GetError, AddError, Contended, Finish, Busy
  <2>2. /\ wpc' = [wpc EXCEPT ![w] = "idle"]
        /\ UNCHANGED <<rpc, task, queue>>
        /\ \E f \in {"finished", "dead"} : fate' = [fate EXCEPT ![task[w]] = f]
    BY <1>5 DEF GetError, AddError, Die, Finish, requestVars
  <2>3. QED
    BY <1>4, <2>1, <2>2
<1>6. QED
  BY <1>1, <1>3, <1>5 DEF Worker
-----------------------------------------------------------------------------
(***************************************************************************)
(* The counter and the flag.                                               *)
(***************************************************************************)
LEMMA OutstandingFinite == IsFiniteSet(Outstanding) /\ Cardinality(Outstanding) \in Nat
  BY RequestsFinite, FS_Subset, FS_CardinalityType DEF Outstanding

\* What a step may do to the counter: count one task more, one task less, or
\* leave the tasks and the counter alone.
CountsOne ==
  /\ operateRunningTask(1)
  /\ \E r \in Requests \ Outstanding : Outstanding' = Outstanding \union {r}

UncountsOne ==
  /\ operateRunningTask(-1)
  /\ \E r \in Outstanding : Outstanding' = Outstanding \ {r}

CountsNone == Outstanding' = Outstanding /\ UNCHANGED taskCnt

LEMMA RequestCounts ==
  ASSUME TypeOK, TasksNotShared, NEW r \in Requests, Request(r)
  PROVE  \/ CountsOne /\ Count(r)
         \/ CountsNone /\ MarkRunning /\ rpc'[r] = "count"
         \/ CountsNone /\ UNCHANGED isRunning /\ \A q \in Requests :
                                                   rpc[q] = "count" => rpc'[q] = "count"
<1> USE DEF Goto
<1>1. CASE Count(r)
  <2>1. /\ rpc[r] = "count"
        /\ rpc' = [rpc EXCEPT ![r] = "execute"]
        /\ fate' = fate
    BY <1>1 DEF Count, historyVars
  <2>2. fate[r] = "none" /\ r \notin Outstanding
    BY <2>1 DEF TasksNotShared, Outstanding
  <2>3. Outstanding' = Outstanding \union {r}
    BY <2>1, <2>2 DEF Outstanding, TypeOK
  <2>4. QED
    BY <1>1, <2>2, <2>3 DEF Count, CountsOne
<1>2. CASE Mark(r)
  <2>1. /\ rpc[r] = "mark"
        /\ rpc' = [rpc EXCEPT ![r] = "count"]
        /\ fate' = fate
        /\ MarkRunning
    BY <1>2 DEF Mark, historyVars
  <2>2. Outstanding' = Outstanding
    BY <2>1 DEF Outstanding, TypeOK
  <2>3. QED
    BY <2>1, <2>2 DEF CountsNone, MarkRunning, TypeOK
<1>3. CASE ExecuteOnNewThread(r) \/ ExecuteOnQueue(r)
  <2>1. /\ rpc[r] = "execute"
        /\ rpc' = [rpc EXCEPT ![r] = "wait"]
        /\ \E f \in {"running", "queued"} : fate' = [fate EXCEPT ![r] = f]
        /\ UNCHANGED <<isRunning, taskCnt>>
    BY <1>3 DEF ExecuteOnNewThread, ExecuteOnQueue, statusVars
  <2>2. fate[r] = "none"
    BY <2>1 DEF TasksNotShared
  <2>3. Outstanding' = Outstanding
    BY <2>1, <2>2 DEF Outstanding, TypeOK
  <2>4. QED
    BY <2>1, <2>3 DEF CountsNone, TypeOK
<1>4. CASE \/ Begin(r) \/ PrepareFails(r) \/ Construct(r) \/ PutMap(r) \/ SeeIdle(r) \/ Fetch(r)
           \/ DealPoint(r) \/ DealLosePoint(r) \/ DealError(r)
  <2>1. /\ fate' = fate
        /\ UNCHANGED <<isRunning, taskCnt>>
        /\ rpc[r] # "count"
    BY <1>4
    DEF Begin, PrepareFails, Construct, PutMap, SeeIdle, Fetch, DealPoint,
        DealLosePoint, DealError, statusVars, historyVars
  <2>2. \E next \in RequestPc :
          /\ rpc' = [rpc EXCEPT ![r] = next]
          /\ rpc[r] \in {"execute", "wait", "fetch", "deal", "done", "error"}
               <=> next \in {"execute", "wait", "fetch", "deal", "done", "error"}
    BY <1>4
    DEF Begin, PrepareFails, Construct, PutMap, SeeIdle, Fetch, DealPoint,
        DealLosePoint, DealError, RequestPc
  <2>3. Outstanding' = Outstanding
    BY <2>1, <2>2 DEF Outstanding, TypeOK
  <2>4. QED
    BY <2>1, <2>2, <2>3 DEF CountsNone, TypeOK
<1>5. QED
  BY <1>1, <1>2, <1>3, <1>4 DEF Request

LEMMA WorkerCounts ==
  ASSUME TypeOK, TasksNotShared, NEW w \in Workers, Worker(w)
  PROVE  rpc' = rpc /\ (UncountsOne \/ (CountsNone /\ UNCHANGED isRunning))
<1>1. rpc' = rpc
  BY DEF Worker, TakeTask, ReadMap, SkipLevel, GetEntry, GetError, AddPoints,
         SetRadius, KeepRadius, GiveUp, LosePoints, AddError, Finish, Die, PutEntry,
         requestVars
<1>2. CASE Finish(w)
  <2>1. /\ task[w] \in Requests
        /\ fate[task[w]] = "running"
        /\ fate' = [fate EXCEPT ![task[w]] = "finished"]
        /\ operateRunningTask(-1)
    BY <1>2 DEF Finish, deleteRunningTask, TasksNotShared, Busy
  <2>2. task[w] \in Outstanding
    BY <2>1 DEF TasksNotShared, Outstanding
  <2>3. Outstanding' = Outstanding \ {task[w]}
    BY <1>1, <2>1 DEF Outstanding, TypeOK
  <2>4. QED
    BY <1>1, <2>1, <2>2, <2>3 DEF UncountsOne
<1>3. CASE TakeTask(w)
  <2>1. /\ fate' = [fate EXCEPT ![Head(queue)] = "running"]
        /\ UNCHANGED <<isRunning, taskCnt>>
        /\ Head(queue) = queue[1] /\ 1 \in 1..Len(queue)
    BY <1>3 DEF TakeTask, statusVars, TypeOK
  <2>2. fate[Head(queue)] = "queued"
    BY <2>1 DEF TasksNotShared
  <2>3. Outstanding' = Outstanding
    BY <1>1, <2>1, <2>2 DEF Outstanding, TypeOK
  <2>4. QED
    BY <1>1, <2>1, <2>3 DEF CountsNone
<1>4. CASE GetError(w) \/ AddError(w)
  <2>1. /\ Busy(w)
        /\ fate' = [fate EXCEPT ![task[w]] = "dead"]
        /\ UNCHANGED <<isRunning, taskCnt>>
    BY <1>4 DEF GetError, AddError, Contended, Die, Busy, statusVars
  <2>2. fate[task[w]] = "running"
    BY <2>1 DEF TasksNotShared
  <2>3. Outstanding' = Outstanding
    BY <1>1, <2>1, <2>2 DEF Outstanding, TypeOK
  <2>4. QED
    BY <1>1, <2>1, <2>3 DEF CountsNone
<1>5. CASE ReadMap(w) \/ SkipLevel(w) \/ GetEntry(w) \/ AddPoints(w)
           \/ SetRadius(w) \/ KeepRadius(w) \/ GiveUp(w) \/ LosePoints(w)
  <2>1. fate' = fate /\ UNCHANGED <<isRunning, taskCnt>>
    BY <1>5
    DEF ReadMap, SkipLevel, GetEntry, AddPoints, SetRadius, KeepRadius, GiveUp,
        LosePoints, PutEntry, statusVars, historyVars
  <2>2. QED
    BY <1>1, <2>1 DEF CountsNone, Outstanding
<1>6. QED
  BY <1>2, <1>3, <1>4, <1>5 DEF Worker

\* The counter follows Outstanding whichever of the three a step does.
LEMMA CountKept ==
  ASSUME CountIsOutstanding, CountsOne \/ UncountsOne \/ CountsNone
  PROVE  CountIsOutstanding'
<1> USE OutstandingFinite
<1>1. CASE CountsOne
  <2>1. PICK r \in Requests \ Outstanding : Outstanding' = Outstanding \union {r}
    BY <1>1 DEF CountsOne
  <2>2. Cardinality(Outstanding \union {r}) = Cardinality(Outstanding) + 1
    BY <2>1, FS_AddElement
  <2>3. QED
    BY <1>1, <2>1, <2>2 DEF CountsOne, operateRunningTask, CountIsOutstanding
<1>2. CASE UncountsOne
  <2>1. PICK r \in Outstanding : Outstanding' = Outstanding \ {r}
    BY <1>2 DEF UncountsOne
  <2>2. Cardinality(Outstanding \ {r}) = Cardinality(Outstanding) - 1
    BY <2>1, FS_RemoveElement
  <2>3. QED
    BY <1>2, <2>1, <2>2 DEF UncountsOne, operateRunningTask, CountIsOutstanding
<1>3. CASE CountsNone
  BY <1>3 DEF CountsNone, CountIsOutstanding
<1>4. QED
  BY <1>1, <1>2, <1>3

LEMMA InitCounts == Init => CountIsOutstanding /\ FlagHasCause
<1> SUFFICES ASSUME Init PROVE CountIsOutstanding /\ FlagHasCause
  OBVIOUS
<1>1. Outstanding = {}
  BY DEF Init, Outstanding
<1>2. isRunning = FALSE /\ taskCnt = 0
  BY DEF Init, StatusInit
<1>3. QED
  BY <1>1, <1>2, FS_EmptySet DEF CountIsOutstanding, FlagHasCause
-----------------------------------------------------------------------------
(***************************************************************************)
(* The theorems.                                                           *)
(***************************************************************************)
PoolInv == TypeOK /\ ComputeHolds /\ TasksNotShared /\ CountIsOutstanding /\ FlagHasCause

\* With the counter exact, a reset of the flag proves that nothing is left.
LEMMA FlagStep ==
  ASSUME PoolInv, [Next]_vars
  PROVE  /\ CountIsOutstanding'
         /\ FlagHasCause'
         /\ isRunning /\ ~isRunning' => Outstanding' = {}
<1> USE DEF PoolInv
<1>0. Cardinality(Outstanding)' = 0 => Outstanding' = {}
  <2>1. IsFiniteSet(Outstanding')
    BY RequestsFinite, FS_Subset DEF Outstanding
  <2>2. QED
    BY <2>1, FS_EmptySet
<1>1. CASE \E r \in Requests : Request(r)
  <2>1. PICK r \in Requests : Request(r)
    BY <1>1
  <2>2. CASE CountsOne /\ Count(r)
    <3>1. CountIsOutstanding'
      BY <2>2, CountKept
    <3>2. Outstanding' # {}
      BY <2>2 DEF CountsOne
    <3>3. isRunning' => isRunning /\ taskCnt' # 0
      BY <2>2 DEF CountsOne, operateRunningTask
    <3>4. isRunning /\ ~isRunning' => taskCnt' = 0
      BY <2>2 DEF CountsOne, operateRunningTask
    <3>5. QED
      BY <1>0, <3>1, <3>2, <3>4 DEF CountIsOutstanding, FlagHasCause
  <2>3. CASE CountsNone /\ MarkRunning /\ rpc'[r] = "count"
    <3>1. CountIsOutstanding'
      BY <2>3, CountKept
    <3>2. isRunning'
      BY <2>3 DEF MarkRunning
    <3>3. QED
      BY <2>3, <3>1, <3>2 DEF FlagHasCause
  <2>4. CASE /\ CountsNone
             /\ UNCHANGED isRunning
             /\ \A q \in Requests : rpc[q] = "count" => rpc'[q] = "count"
    <3>1. CountIsOutstanding'
      BY <2>4, CountKept
    <3>2. QED
      BY <2>4, <3>1 DEF FlagHasCause, CountsNone
  <2>5. QED
    BY <2>1, <2>2, <2>3, <2>4, RequestCounts
<1>2. CASE \E w \in Workers : Worker(w)
  <2>1. rpc' = rpc /\ (UncountsOne \/ (CountsNone /\ UNCHANGED isRunning))
    BY <1>2, WorkerCounts
  <2>2. CountIsOutstanding'
    BY <2>1, CountKept
  <2>3. CASE UncountsOne
    <3>1. isRunning' => taskCnt' # 0
      BY <2>3 DEF UncountsOne, operateRunningTask
    <3>2. isRunning /\ ~isRunning' => taskCnt' = 0
      BY <2>3 DEF UncountsOne, operateRunningTask
    <3>3. taskCnt' # 0 => Outstanding' # {}
      BY <2>2, FS_EmptySet DEF CountIsOutstanding
    <3>4. QED
      BY <1>0, <2>2, <3>1, <3>2, <3>3 DEF CountIsOutstanding, FlagHasCause
  <2>4. CASE CountsNone /\ UNCHANGED isRunning
    BY <2>1, <2>2, <2>4 DEF FlagHasCause, CountsNone
  <2>5. QED
    BY <2>1, <2>3, <2>4
<1>3. CASE UNCHANGED vars
  <2>1. rpc' = rpc /\ Outstanding' = Outstanding /\ UNCHANGED <<isRunning, taskCnt>>
    BY <1>3 DEF vars, statusVars, requestVars, historyVars, Outstanding
  <2>2. QED
    BY <2>1 DEF CountIsOutstanding, FlagHasCause
<1>4. QED
  BY <1>1, <1>2, <1>3 DEF Next

\* A thread that sleeps changes nothing.
LEMMA StutterKeeps ==
  ASSUME TypeOK, ComputeHolds, TasksNotShared, UNCHANGED vars
  PROVE  TypeOK' /\ ComputeHolds' /\ TasksNotShared'
  BY DEF vars, statusVars, requestVars, mapVars, workerVars, historyVars, TypeOK,
         ComputeHolds, TasksNotShared, Busy

LEMMA PoolInvariant == Spec => []PoolInv
<1>1. Init => PoolInv
  BY InitType, InitShared, InitCounts DEF PoolInv
<1>2. PoolInv /\ [Next]_vars => PoolInv'
  <2> SUFFICES ASSUME PoolInv, [Next]_vars PROVE PoolInv'
    OBVIOUS
  <2>1. CountIsOutstanding' /\ FlagHasCause'
    BY FlagStep
  <2>2. TypeOK' /\ ComputeHolds' /\ TasksNotShared'
    BY RequestType, WorkerType, RequestShared, WorkerShared, StutterKeeps
    DEF PoolInv, Next
  <2>3. QED
    BY <2>1, <2>2 DEF PoolInv
<1>3. QED
  BY <1>1, <1>2, PTL DEF Spec

\* The type invariant of the pool model holds in every behaviour.
THEOREM TypeCorrect == Spec => []TypeOK
<1>1. PoolInv => TypeOK
  BY DEF PoolInv
<1>2. QED
  BY <1>1, PoolInvariant, PTL

\* RunningStatus.taskCnt is the number of tasks added and not deleted, in any
\* interleaving of any number of requests and pool threads.
THEOREM CounterExact == Spec => []CountIsOutstanding
<1>1. PoolInv => CountIsOutstanding
  BY DEF PoolInv
<1>2. QED
  BY <1>1, PoolInvariant, PTL

\* RunningStatus.isRunning is never left TRUE without a task or an addRunningTask
\* in progress: requests wait for a reason.
THEOREM FlagCaused == Spec => []FlagHasCause
<1>1. PoolInv => FlagHasCause
  BY DEF PoolInv
<1>2. QED
  BY <1>1, PoolInvariant, PTL

\* RunningStatus resets isRunning only in a step that leaves no task behind.
THEOREM FlagResetSound == Spec => FlagFallsWhenDrained
<1>1. PoolInv /\ [Next]_vars => [isRunning /\ ~isRunning' => Outstanding' = {}]_vars
  BY FlagStep
<1>2. QED
  BY <1>1, PoolInvariant, PTL DEF Spec, FlagFallsWhenDrained
-----------------------------------------------------------------------------
(***************************************************************************)
(* The users.  That no point reaches another user's map is not inductive   *)
(* alone: a task writes into the entry and the map it holds, which it got  *)
(* from the cache, so the owner of each of them is part of the invariant.  *)
(***************************************************************************)
CacheIsOwn == \A u \in Users : cache[u] # Null => userId[cache[u]] = u
ResultIsOwn == \A r \in Requests : result[r] # Null => userId[result[r]] = userId[r]
MapIsOwn ==
  \A w \in Workers : wpc[w] \in {"level", "compute"} /\ resultMap[w] # Null =>
                       userId[resultMap[w]] = userId[task[w]]
EntryIsOwn ==
  \A w \in Workers : wpc[w] = "compute" => userId[ndAndCoord[w]] = userId[task[w]]
EntriesAreOwn ==
  \A m \in Requests : \A l \in Levels :
    resultMaps[m][l] # Null => userId[resultMaps[m][l]] = userId[m]
PointsAreOwn ==
  \A e \in Requests : \A l \in Levels : \A p \in points[e][l] : userId[p[1]] = userId[e]

Owners == /\ CacheIsOwn /\ ResultIsOwn /\ MapIsOwn /\ EntryIsOwn /\ EntriesAreOwn
          /\ PointsAreOwn

LEMMA InitOwners == Init => Owners
  BY DEF Init, Owners, CacheIsOwn, ResultIsOwn, MapIsOwn, EntryIsOwn, EntriesAreOwn,
         PointsAreOwn

\* A point added to an entry of the same user leaves all points with their user.
LEMMA PointsKept ==
  ASSUME TypeOK, PointsAreOwn, NEW e \in Requests, NEW l \in Levels, NEW coords,
         \A p \in coords : userId[p[1]] = userId[e],
         points' = [points EXCEPT ![e][l] = coords]
  PROVE  PointsAreOwn'
<1> SUFFICES ASSUME NEW d \in Requests, NEW k \in Levels, NEW p \in points'[d][k]
             PROVE  userId[p[1]] = userId[d]
  BY DEF PointsAreOwn
<1>1. points[d] \in [Levels -> SUBSET Points] /\ points[e] \in [Levels -> SUBSET Points]
  BY DEF TypeOK
<1>2. points'[d] = IF d = e THEN [points[e] EXCEPT ![l] = coords] ELSE points[d]
  BY DEF TypeOK
<1>3. points'[d][k] = IF d = e /\ k = l THEN coords ELSE points[d][k]
  BY <1>1, <1>2
<1>4. QED
  BY <1>3 DEF PointsAreOwn

LEMMA RequestOwners ==
  ASSUME TypeOK, Owners, NEW r \in Requests, Request(r)
  PROVE  Owners'
<1> USE ConstantsTyped DEF Owners
<1>1. CASE Begin(r) \/ PutMap(r)
  <2>1. CacheIsOwn'
    <3>1. /\ userId[r] \in Users
          /\ \E c \in {Null, r} : cache' = [cache EXCEPT ![userId[r]] = c]
      BY <1>1 DEF Begin, PutMap, CacheKey
    <3>2. PICK c \in {Null, r} : cache' = [cache EXCEPT ![userId[r]] = c]
      BY <3>1
    <3>3. \A u \in Users : cache'[u] = IF u = userId[r] THEN c ELSE cache[u]
      BY <3>1, <3>2 DEF TypeOK
    <3>4. QED
      BY <3>3 DEF CacheIsOwn
  <2>2. UNCHANGED <<result, resultMaps, points, workerVars>>
    BY <1>1 DEF Begin, PutMap
  <2>3. QED
    BY <2>1, <2>2
    DEF ResultIsOwn, MapIsOwn, EntryIsOwn, EntriesAreOwn, PointsAreOwn, workerVars
<1>2. CASE ExecuteOnNewThread(r)
  <2>1. PICK u \in Workers : /\ wpc' = [wpc EXCEPT ![u] = "start"]
                             /\ task' = [task EXCEPT ![u] = r]
    BY <1>2 DEF ExecuteOnNewThread, Unborn
  <2>2. \A v \in Workers : wpc'[v] \in {"level", "compute"} =>
                             wpc'[v] = wpc[v] /\ task'[v] = task[v]
    BY <2>1 DEF TypeOK
  <2>3. UNCHANGED <<result, mapVars, resultMap, ndAndCoord>>
    BY <1>2 DEF ExecuteOnNewThread
  <2>4. MapIsOwn' /\ EntryIsOwn'
    BY <2>2, <2>3 DEF MapIsOwn, EntryIsOwn
  <2>5. QED
    BY <2>3, <2>4 DEF CacheIsOwn, ResultIsOwn, EntriesAreOwn, PointsAreOwn, mapVars
<1>3. CASE Fetch(r)
  <2>1. ResultIsOwn'
    <3>1. userId[r] \in Users /\ result' = [result EXCEPT ![r] = cache[userId[r]]]
      BY <1>3 DEF Fetch, CacheKey
    <3>2. QED
      BY <3>1 DEF ResultIsOwn, CacheIsOwn, TypeOK
  <2>2. UNCHANGED <<mapVars, workerVars>>
    BY <1>3 DEF Fetch
  <2>3. QED
    BY <2>1, <2>2
    DEF CacheIsOwn, MapIsOwn, EntryIsOwn, EntriesAreOwn, PointsAreOwn, mapVars, workerVars
<1>4. CASE DealPoint(r)
  <2>1. UNCHANGED <<result, cache, resultMaps, workerVars>>
    BY <1>4 DEF DealPoint
  <2>2. PointsAreOwn'
    <3>1. CASE r \in InLeak
      <4>1. result[r] \in Requests /\ dealAt[r] \in Levels /\ DealEntry(r) # Null
        BY <1>4, <3>1 DEF DealPoint, DealFails, SameKind, TypeOK, Entries
      <4>2. resultMaps[result[r]] \in [Levels -> Entries]
        BY <4>1 DEF TypeOK
      <4>3. DealEntry(r) = resultMaps[result[r]][dealAt[r]]
        BY <4>1 DEF DealEntry
      <4>4. DealEntry(r) \in Requests /\ userId[DealEntry(r)] = userId[r]
        BY <4>1, <4>2, <4>3 DEF Entries, EntriesAreOwn, ResultIsOwn
      <4> DEFINE e == DealEntry(r)
                 new == points[e][dealAt[r]] \union {<<r, 0>>}
      <4>5. \A p \in new : userId[p[1]] = userId[e]
        BY <4>1, <4>4 DEF PointsAreOwn
      <4>6. points' = [points EXCEPT ![e][dealAt[r]] = new]
        BY <1>4, <3>1 DEF DealPoint
      <4> HIDE DEF e, new
      <4>7. e \in Requests
        BY <4>4 DEF e
      <4>8. QED
        BY <4>1, <4>5, <4>6, <4>7, PointsKept
    <3>2. CASE r \notin InLeak
      BY <1>4, <3>2 DEF DealPoint, PointsAreOwn
    <3>3. QED
      BY <3>1, <3>2
  <2>3. QED
    BY <2>1, <2>2
    DEF CacheIsOwn, ResultIsOwn, MapIsOwn, EntryIsOwn, EntriesAreOwn, workerVars
<1>5. CASE \/ PrepareFails(r) \/ Construct(r) \/ Mark(r) \/ Count(r)
           \/ ExecuteOnQueue(r) \/ SeeIdle(r)
           \/ DealLosePoint(r) \/ DealError(r)
  <2>1. UNCHANGED <<result, mapVars, workerVars>>
    BY <1>5
    DEF PrepareFails, Construct, Mark, Count, ExecuteOnQueue, SeeIdle, DealLosePoint, DealError
  <2>2. QED
    BY <2>1
    DEF CacheIsOwn, ResultIsOwn, MapIsOwn, EntryIsOwn, EntriesAreOwn, PointsAreOwn,
        mapVars, workerVars
<1>6. QED
  BY <1>1, <1>2, <1>3, <1>4, <1>5 DEF Request

\* PutEntry writes an entry of the task's user into a map of that user.
LEMMA PutOwners ==
  ASSUME TypeOK, ComputeHolds, TasksNotShared, Owners, NEW w \in Workers,
         wpc[w] = "compute", NEW coords, NEW computed,
         \A p \in coords : p \in OldCoords(w) \/ p = NewPoint(w),
         PutEntry(w, coords, computed)
  PROVE  Owners'
<1> DEFINE e == ndAndCoord[w]
           m == resultMap[w]
           l == at[w][2]
<1>1. e \in Requests /\ l \in Levels /\ task[w] \in Requests /\ m \in Entries
  BY DEF TypeOK, ComputeHolds, TasksNotShared, Busy
<1>2. userId[e] = userId[task[w]] /\ (m # Null => userId[m] = userId[task[w]])
  BY DEF Owners, EntryIsOwn, MapIsOwn
<1>3. PointsAreOwn'
  <2>1. \A p \in coords : userId[p[1]] = userId[e]
    BY <1>1, <1>2 DEF OldCoords, NewPoint, Owners, PointsAreOwn
  <2>2. points' = [points EXCEPT ![e][l] = coords]
    BY DEF PutEntry
  <2> HIDE DEF e, l
  <2>3. QED
    BY <1>1, <2>1, <2>2, PointsKept DEF Owners
<1>4. EntriesAreOwn'
  <2>0. resultMaps' = [resultMaps EXCEPT ![m][l] = e]
    BY DEF PutEntry
  <2> HIDE DEF e, m, l
  <2> SUFFICES ASSUME NEW n \in Requests, NEW k \in Levels, resultMaps'[n][k] # Null
               PROVE  userId[resultMaps'[n][k]] = userId[n]
    BY DEF EntriesAreOwn
  <2>1. resultMaps[n] \in [Levels -> Entries]
    BY DEF TypeOK
  <2>2. resultMaps'[n] = IF n = m THEN [resultMaps[n] EXCEPT ![l] = e] ELSE resultMaps[n]
    BY <2>0 DEF TypeOK
  <2>3. resultMaps'[n][k] = IF n = m /\ k = l THEN e ELSE resultMaps[n][k]
    BY <2>1, <2>2
  <2>4. n # Null
    BY ConstantsTyped
  <2>5. QED
    BY <1>2, <2>3, <2>4 DEF Owners, EntriesAreOwn
<1>5. MapIsOwn' /\ EntryIsOwn'
  <2>1. \A v \in Workers : wpc'[v] \in {"level", "compute"} =>
          wpc[v] \in {"level", "compute"} /\ (wpc'[v] = "compute" => wpc[v] = "compute")
    BY DEF PutEntry, Advance, TypeOK
  <2>2. UNCHANGED <<task, resultMap, ndAndCoord>>
    BY DEF PutEntry
  <2>3. QED
    BY <2>1, <2>2 DEF Owners, MapIsOwn, EntryIsOwn
<1>6. CacheIsOwn' /\ ResultIsOwn'
  BY DEF PutEntry, Owners, CacheIsOwn, ResultIsOwn, requestVars
<1>7. QED
  BY <1>3, <1>4, <1>5, <1>6 DEF Owners

LEMMA WorkerOwners ==
  ASSUME TypeOK, ComputeHolds, TasksNotShared, Owners, NEW w \in Workers, Worker(w)
  PROVE  Owners'
<1> USE DEF Owners
<1>1. CASE TakeTask(w)
  <2>1. \A v \in Workers : wpc'[v] \in {"level", "compute"} =>
                             wpc'[v] = wpc[v] /\ task'[v] = task[v]
    BY <1>1 DEF TakeTask, TypeOK
  <2>2. UNCHANGED <<requestVars, mapVars, resultMap, ndAndCoord>>
    BY <1>1 DEF TakeTask
  <2>3. MapIsOwn' /\ EntryIsOwn'
    BY <2>1, <2>2 DEF MapIsOwn, EntryIsOwn
  <2>4. QED
    BY <2>2, <2>3
    DEF CacheIsOwn, ResultIsOwn, EntriesAreOwn, PointsAreOwn, requestVars, mapVars
<1>2. CASE ReadMap(w)
  <2>1. task[w] \in Requests
    BY <1>2 DEF ReadMap, TasksNotShared, Busy
  <2>2. /\ userId[task[w]] \in Users
        /\ resultMap' = [resultMap EXCEPT ![w] = cache[userId[task[w]]]]
    BY <1>2, <2>1, ConstantsTyped DEF ReadMap, CacheKey
  <2>3. UNCHANGED <<requestVars, mapVars, task, ndAndCoord>>
    BY <1>2 DEF ReadMap
  <2>4. \A v \in Workers : v # w => wpc'[v] = wpc[v] /\ resultMap'[v] = resultMap[v]
    BY <1>2 DEF ReadMap, TypeOK
  <2>5. wpc'[w] = "level" /\ resultMap'[w] = cache[userId[task[w]]]
    BY <1>2, <2>2 DEF ReadMap, TypeOK
  <2>6. MapIsOwn' /\ EntryIsOwn'
    BY <2>2, <2>3, <2>4, <2>5 DEF MapIsOwn, EntryIsOwn, CacheIsOwn
  <2>7. QED
    BY <2>3, <2>6
    DEF CacheIsOwn, ResultIsOwn, EntriesAreOwn, PointsAreOwn, requestVars, mapVars
<1>3. CASE GetEntry(w)
  <2>1. task[w] \in Requests
    BY <1>3 DEF GetEntry, TasksNotShared, Busy
  <2>2. /\ wpc[w] = "level"
        /\ resultMap[w] \in Requests
        /\ at[w][2] \in Levels
    BY <1>3 DEF GetEntry, GetFails, TypeOK, Entries
  <2>3. EntryFor(w) # Null => userId[EntryFor(w)] = userId[task[w]]
    BY <2>2, ConstantsTyped DEF EntryFor, EntriesAreOwn, MapIsOwn
  <2>4. UNCHANGED <<requestVars, mapVars, task, resultMap>>
    BY <1>3 DEF GetEntry
  <2>5. \A v \in Workers : v # w => wpc'[v] = wpc[v] /\ ndAndCoord'[v] = ndAndCoord[v]
    BY <1>3 DEF GetEntry, TypeOK
  <2>6. ndAndCoord'[w] = IF EntryFor(w) = Null THEN task[w] ELSE EntryFor(w)
    BY <1>3 DEF GetEntry, TypeOK
  <2>7. MapIsOwn' /\ EntryIsOwn'
    BY <2>2, <2>3, <2>4, <2>5, <2>6 DEF MapIsOwn, EntryIsOwn
  <2>8. QED
    BY <2>4, <2>7
    DEF CacheIsOwn, ResultIsOwn, EntriesAreOwn, PointsAreOwn, requestVars, mapVars
<1>4. CASE AddPoints(w) \/ SetRadius(w) \/ KeepRadius(w) \/ GiveUp(w) \/ LosePoints(w)
  <2>1. wpc[w] = "compute"
    BY <1>4 DEF AddPoints, SetRadius, KeepRadius, GiveUp, LosePoints, Contended
  <2>2. \E coords, computed :
          /\ \A p \in coords : p \in OldCoords(w) \/ p = NewPoint(w)
          /\ PutEntry(w, coords, computed)
    BY <1>4 DEF AddPoints, SetRadius, KeepRadius, GiveUp, LosePoints
  <2>3. QED
    BY <2>1, <2>2, PutOwners
<1>5. CASE SkipLevel(w) \/ GetError(w) \/ AddError(w) \/ Finish(w)
  <2>1. UNCHANGED <<requestVars, mapVars, task, resultMap, ndAndCoord>>
    BY <1>5 DEF SkipLevel, GetError, AddError, Finish, Die
  <2>2. \A v \in Workers : wpc'[v] \in {"level", "compute"} =>
          wpc[v] \in {"level", "compute"} /\ (wpc'[v] = "compute" => wpc[v] = "compute")
    BY <1>5 DEF SkipLevel, Advance, GetError, AddError, Finish, Die, TypeOK
  <2>3. QED
    BY <2>1, <2>2
    DEF CacheIsOwn, ResultIsOwn, MapIsOwn, EntryIsOwn, EntriesAreOwn, PointsAreOwn,
        requestVars, mapVars
<1>6. QED
  BY <1>1, <1>2, <1>3, <1>4, <1>5 DEF Worker

LEMMA OwnersInvariant == Spec => []Owners
<1>1. Init => Owners
  BY InitOwners
<1>2. PoolInv /\ Owners /\ [Next]_vars => Owners'
  <2> SUFFICES ASSUME PoolInv, Owners, [Next]_vars PROVE Owners'
    OBVIOUS
  <2>1. CASE UNCHANGED vars
    BY <2>1
    DEF Owners, CacheIsOwn, ResultIsOwn, MapIsOwn, EntryIsOwn, EntriesAreOwn,
        PointsAreOwn, vars, requestVars, mapVars, workerVars
  <2>2. QED
    BY <2>1, RequestOwners, WorkerOwners DEF PoolInv, Next
<1>3. QED
  BY <1>1, <1>2, PoolInvariant, PTL DEF Spec

\* Whatever two users' requests do at once, the cached result of one never holds
\* a point that a task of the other computed: the key of the cache is enough.
THEOREM UsersAreIsolated == Spec => []UsersIsolated
<1>1. PoolInv /\ Owners => UsersIsolated
  <2> SUFFICES ASSUME PoolInv, Owners, NEW m \in Requests, NEW p \in PointsOf(m)
               PROVE  userId[p[1]] = userId[m]
    BY DEF UsersIsolated
  <2>1. PICK l \in Levels : resultMaps[m][l] # Null /\ p \in points[resultMaps[m][l]][l]
    BY DEF PointsOf
  <2>2. resultMaps[m][l] \in Requests
    BY <2>1 DEF PoolInv, TypeOK, Entries
  <2>3. QED
    BY <2>1, <2>2 DEF Owners, EntriesAreOwn, PointsAreOwn
<1>2. QED
  BY <1>1, PoolInvariant, OwnersInvariant, PTL
-----------------------------------------------------------------------------
(***************************************************************************)
(* A request that meets no other.  The map it returns is complete because no *)
(* thread but its own ever holds that map (Private), because the flag stays  *)
(* up until its task has ended (OnItsWay), and because what its task has put *)
(* stays where it was put (Kept) - also when other requests come later.      *)
(***************************************************************************)
HandedOver ==
  \A r \in Requests :
    rpc[r] \in {"wait", "fetch", "deal", "done", "error"} => fate[r] # "none"
Met ==
  \A p, q \in Requests : p # q /\ Active(p) /\ Active(q) => q \in overlap[p]
OneRound ==
  \A w \in Workers : wpc[w] \in {"level", "compute"} /\ ~IsList(task[w]) => at[w][1] = 1

Private(r) ==
  /\ \A w \in Workers : wpc[w] \in {"level", "compute"} /\ task[w] # r =>
       resultMap[w] # r /\ (wpc[w] = "compute" => ndAndCoord[w] # r)
  /\ \A q \in Requests : q # r => result[q] # r
  /\ \A m \in Requests : m # r => \A l \in Levels : resultMaps[m][l] # r
  /\ \A u \in Users : cache[u] = r =>
       /\ u = userId[r]
       /\ rpc[r] \notin {"new", "construct", "putMap"}
       /\ \A q \in Requests : q # r /\ userId[q] = u => ~Active(q)

OnItsWay(r) ==
  /\ rpc[r] = "construct" => cache[userId[r]] = Null
  /\ rpc[r] \in {"mark", "count", "execute", "wait", "fetch"} => cache[userId[r]] = r
  /\ rpc[r] = "count" => isRunning
  /\ rpc[r] \in {"execute", "wait"} /\ fate[r] # "finished" => isRunning
  /\ rpc[r] \in {"fetch", "deal", "done", "error"} => fate[r] = "finished"
  /\ rpc[r] \in {"deal", "done"} => result[r] = r
  /\ rpc[r] = "deal" => IsList(r)
  /\ \A w \in Workers : wpc[w] \in {"level", "compute"} /\ task[w] = r =>
       resultMap[w] = r /\ (wpc[w] = "compute" => ndAndCoord[w] = r)

Kept(r) ==
  /\ \A l \in Levels : resultMaps[r][l] \in {Null, r}
  /\ \A c \in made[r] : resultMaps[r][c[1]] = r /\ <<r, c[2]>> \in points[r][c[1]]
  /\ ~IsList(r) => /\ \A l \in Levels : points[r][l] \subseteq {<<r, 1>>}
                   /\ \A c \in made[r] : c[2] = 1

LoneOwn == \A r \in Requests : overlap[r] = {} => Private(r) /\ OnItsWay(r) /\ Kept(r)
LoneInv == HandedOver /\ Met /\ OneRound /\ LoneOwn

LEMMA InitLone == Init => LoneInv
<1> SUFFICES ASSUME Init PROVE LoneInv
  OBVIOUS
<1>1. HandedOver /\ Met /\ OneRound
  BY DEF Init, HandedOver, Met, Active, Returned, OneRound
<1>2. LoneOwn
  BY ConstantsTyped DEF Init, LoneOwn, Private, OnItsWay, Kept
<1>3. QED
  BY <1>1, <1>2 DEF LoneInv

\* Only Begin makes a request active, and only active requests take other steps.
LEMMA RequestActive ==
  ASSUME TypeOK, NEW r \in Requests, Request(r)
  PROVE  /\ \A q \in Requests : q # r => rpc'[q] = rpc[q] /\ fate'[q] = fate[q]
         /\ ~Begin(r) => Active(r) /\ overlap' = overlap
<1>1. \A q \in Requests : q # r => rpc'[q] = rpc[q] /\ fate'[q] = fate[q]
  BY DEF Request, Goto, Begin, PrepareFails, Construct, PutMap, Mark, Count,
     ExecuteOnNewThread, ExecuteOnQueue, SeeIdle, Fetch, DealPoint, DealLosePoint,
     DealError, historyVars, TypeOK
<1>2. ~Begin(r) => Active(r) /\ overlap' = overlap
  BY DEF Request, Goto, PrepareFails, Construct, PutMap, Mark, Count,
     ExecuteOnNewThread, ExecuteOnQueue, SeeIdle, Fetch, DealPoint, DealLosePoint,
     DealError, historyVars, Active, Returned
<1>3. QED
  BY <1>1, <1>2

\* The request whose task a step of w is about.
Served(w) == IF wpc[w] = "idle" THEN Head(queue) ELSE task[w]

LEMMA WorkerActive ==
  ASSUME TypeOK, TasksNotShared, NEW w \in Workers, Worker(w)
  PROVE  /\ Served(w) \in Requests /\ Active(Served(w))
         /\ UNCHANGED <<rpc, overlap>>
         /\ \A q \in Requests : q # Served(w) => fate'[q] = fate[q]
         /\ \A v \in Workers : v # w =>
              /\ wpc'[v] = wpc[v] /\ task'[v] = task[v]
              /\ resultMap'[v] = resultMap[v] /\ ndAndCoord'[v] = ndAndCoord[v]
<1>1. Served(w) \in Requests /\ fate[Served(w)] \in {"queued", "running"}
  <2>1. CASE wpc[w] = "idle"
    <3>1. TakeTask(w)
      BY <2>1
      DEF Worker, ReadMap, SkipLevel, GetEntry, GetError, AddPoints, SetRadius,
          KeepRadius, GiveUp, LosePoints, AddError, Contended, Finish
    <3>2. Head(queue) = queue[1] /\ 1 \in 1..Len(queue) /\ queue[1] \in Requests
      BY <3>1 DEF TakeTask, TypeOK
    <3>3. QED
      BY <2>1, <3>2 DEF TasksNotShared, Served
  <2>2. CASE wpc[w] # "idle"
    <3>1. Busy(w)
      BY <2>2
      DEF Worker, TakeTask, ReadMap, SkipLevel, GetEntry, GetError, AddPoints,
          SetRadius, KeepRadius, GiveUp, LosePoints, AddError, Contended, Finish, Busy
    <3>2. QED
      BY <2>2, <3>1 DEF TasksNotShared, Served
  <2>3. QED
    BY <2>1, <2>2
<1>2. UNCHANGED <<rpc, overlap>>
  BY DEF Worker, TakeTask, ReadMap, SkipLevel, GetEntry, GetError, AddPoints, SetRadius,
         KeepRadius, GiveUp, LosePoints, AddError, Finish, Die, PutEntry, requestVars,
         historyVars
<1>3. \A q \in Requests : q # Served(w) => fate'[q] = fate[q]
  BY DEF Worker, TakeTask, ReadMap, SkipLevel, GetEntry, GetError, AddPoints, SetRadius,
         KeepRadius, GiveUp, LosePoints, AddError, Contended, Finish, Die, PutEntry,
         historyVars, Served, TypeOK
<1>4. \A v \in Workers : v # w =>
         /\ wpc'[v] = wpc[v] /\ task'[v] = task[v]
         /\ resultMap'[v] = resultMap[v] /\ ndAndCoord'[v] = ndAndCoord[v]
  BY DEF Worker, TakeTask, ReadMap, SkipLevel, GetEntry, GetError, AddPoints, SetRadius,
         KeepRadius, GiveUp, LosePoints, AddError, Finish, Die, PutEntry, Advance, TypeOK
<1>5. QED
  BY <1>1, <1>2, <1>3, <1>4 DEF Active

LEMMA HandedOverKept ==
  ASSUME TypeOK, TasksNotShared, HandedOver, [Next]_vars
  PROVE  HandedOver'
<1>1. CASE \E r \in Requests : Request(r)
  <2>1. PICK r \in Requests : Request(r)
    BY <1>1
  <2>2. \A q \in Requests : q # r => rpc'[q] = rpc[q] /\ fate'[q] = fate[q]
    BY <2>1, RequestActive
  <2>3. rpc'[r] \in {"wait", "fetch", "deal", "done", "error"} => fate'[r] # "none"
    BY <2>1
    DEF Request, Goto, Begin, PrepareFails, Construct, PutMap, Mark, Count,
        ExecuteOnNewThread, ExecuteOnQueue, SeeIdle, Fetch, DealPoint, DealLosePoint,
        DealError, historyVars, HandedOver, TypeOK
  <2>4. QED
    BY <2>2, <2>3 DEF HandedOver
<1>2. CASE \E w \in Workers : Worker(w)
  <2>1. PICK w \in Workers : Worker(w)
    BY <1>2
  <2>2. \A q \in Requests : fate'[q] # fate[q] => fate'[q] # "none"
    BY <2>1
    DEF Worker, TakeTask, ReadMap, SkipLevel, GetEntry, GetError, AddPoints, SetRadius,
        KeepRadius, GiveUp, LosePoints, AddError, Finish, Die, PutEntry, historyVars,
        TypeOK
  <2>3. rpc' = rpc
    BY <2>1, WorkerActive
  <2>4. QED
    BY <2>2, <2>3 DEF HandedOver
<1>3. CASE UNCHANGED vars
  BY <1>3 DEF vars, requestVars, historyVars, HandedOver
<1>4. QED
  BY <1>1, <1>2, <1>3 DEF Next

LEMMA MetKept ==
  ASSUME TypeOK, TasksNotShared, Met, [Next]_vars
  PROVE  Met'
<1>1. CASE \E r \in Requests : Begin(r)
  <2>1. PICK r \in Requests : Begin(r)
    BY <1>1
  <2> DEFINE met == {q \in Requests \ {r} : Active(q)}
  <2>2. overlap' = [q \in Requests |-> overlap[q] \union
                       (IF q = r THEN met ELSE IF q \in met THEN {r} ELSE {})]
    BY <2>1 DEF Begin
  <2>3. \A q \in Requests : q # r => (Active(q)' <=> Active(q))
    BY <2>1, RequestActive DEF Request, Active, Returned
  <2>4. QED
    BY <2>2, <2>3 DEF Met
<1>2. CASE \E r \in Requests : Request(r) /\ ~Begin(r)
  <2>1. PICK r \in Requests : Request(r) /\ ~Begin(r)
    BY <1>2
  <2>2. Active(r) /\ overlap' = overlap
    BY <2>1, RequestActive
  <2>3. \A q \in Requests : q # r => (Active(q)' <=> Active(q))
    BY <2>1, RequestActive DEF Active, Returned
  <2>4. QED
    BY <2>2, <2>3 DEF Met
<1>3. CASE \E w \in Workers : Worker(w)
  <2>1. PICK w \in Workers : Worker(w)
    BY <1>3
  <2>2. \A q \in Requests : Active(q)' => Active(q)
    BY <2>1, WorkerActive DEF Active, Returned
  <2>3. overlap' = overlap
    BY <2>1, WorkerActive
  <2>4. QED
    BY <2>2, <2>3 DEF Met
<1>4. CASE UNCHANGED vars
  BY <1>4 DEF vars, requestVars, historyVars, Met, Active, Returned
<1>5. QED
  BY <1>1, <1>2, <1>3, <1>4 DEF Next

\* The loop over x of VceExplodeThread has one round.
LEMMA OneRoundKept ==
  ASSUME TypeOK, TasksNotShared, OneRound, [Next]_vars
  PROVE  OneRound'
<1>1. CASE \E r \in Requests : Request(r)
  <2>1. at' = at /\ \A w \in Workers : wpc'[w] \in {"level", "compute"} =>
                      wpc'[w] = wpc[w] /\ task'[w] = task[w]
    BY <1>1
    DEF Request, Begin, PrepareFails, Construct, PutMap, Mark, Count,
        ExecuteOnNewThread, Unborn, ExecuteOnQueue, SeeIdle, Fetch, DealPoint,
        DealLosePoint, DealError, workerVars, TypeOK
  <2>2. QED
    BY <2>1 DEF OneRound, IsList
<1>2. CASE \E w \in Workers : Worker(w)
  <2>1. PICK w \in Workers : Worker(w)
    BY <1>2
  <2>2. \A v \in Workers : v # w => /\ wpc'[v] = wpc[v] /\ task'[v] = task[v]
                                    /\ at'[v] = at[v]
    BY <2>1
    DEF Worker, TakeTask, ReadMap, SkipLevel, GetEntry, GetError, AddPoints, SetRadius,
        KeepRadius, GiveUp, LosePoints, AddError, Finish, Die, PutEntry, Advance, TypeOK
  <2>3. wpc'[w] \in {"level", "compute"} /\ ~IsList(task'[w]) => at'[w][1] = 1
    <3>1. CASE ReadMap(w)
      BY <3>1 DEF ReadMap, TypeOK
    <3>2. CASE GetEntry(w)
      BY <3>2 DEF GetEntry, OneRound
    <3>3. CASE Advance(w) /\ wpc[w] \in {"level", "compute"} /\ task' = task
      <4>1. ~IsList(task[w]) => LoopBound(task[w]) = 1 /\ at[w][1] = 1
        BY <3>3 DEF LoopBound, OneRound
      <4>2. QED
        BY <3>3, <4>1 DEF Advance, TypeOK
    <3>4. CASE TakeTask(w) \/ GetError(w) \/ AddError(w) \/ Finish(w)
      BY <3>4 DEF TakeTask, GetError, AddError, Die, Finish, TypeOK
    <3>5. QED
      BY <2>1, <3>1, <3>2, <3>3, <3>4
      DEF Worker, SkipLevel, AddPoints, SetRadius, KeepRadius, GiveUp, LosePoints,
          Contended, PutEntry
  <2>4. QED
    BY <2>2, <2>3 DEF OneRound, IsList
<1>3. CASE UNCHANGED vars
  BY <1>3 DEF vars, workerVars, OneRound, IsList
<1>4. QED
  BY <1>1, <1>2, <1>3 DEF Next

LEMMA PutEffect ==
  ASSUME TypeOK, ComputeHolds, TasksNotShared, NEW w \in Workers,
         wpc[w] = "compute", NEW coords, NEW computed, PutEntry(w, coords, computed)
  PROVE  /\ \A e \in Requests, l \in Levels :
              points'[e][l] = IF e = ndAndCoord[w] /\ l = at[w][2] THEN coords
                              ELSE points[e][l]
         /\ \A m \in Requests, l \in Levels :
              resultMaps'[m][l] = IF m = resultMap[w] /\ l = at[w][2]
                                  THEN ndAndCoord[w] ELSE resultMaps[m][l]
         /\ \A q \in Requests :
              made'[q] = IF q = task[w] THEN made[q] \union computed ELSE made[q]
<1>1. points' = [points EXCEPT ![ndAndCoord[w]] =
                   [points[ndAndCoord[w]] EXCEPT ![at[w][2]] = coords]]
  BY DEF PutEntry, ComputeHolds, TypeOK
<1>2. \A e \in Requests, l \in Levels :
         points'[e][l] = IF e = ndAndCoord[w] /\ l = at[w][2] THEN coords
                         ELSE points[e][l]
  BY <1>1 DEF TypeOK
<1>3. resultMaps' = [resultMaps EXCEPT ![resultMap[w]][at[w][2]] = ndAndCoord[w]]
  BY DEF PutEntry
<1>4. \A m \in Requests, l \in Levels :
         resultMaps'[m][l] = IF m = resultMap[w] /\ l = at[w][2] THEN ndAndCoord[w]
                             ELSE resultMaps[m][l]
  BY <1>3 DEF TypeOK
<1>5. made' = [made EXCEPT ![task[w]] = @ \union computed]
  BY DEF PutEntry
<1>6. \A q \in Requests :
         made'[q] = IF q = task[w] THEN made[q] \union computed ELSE made[q]
  BY <1>5 DEF TypeOK
<1>7. QED
  BY <1>2, <1>4, <1>6

\* A request step leaves the maps and the threads that compute as they are.
LEMMA RequestLeaves ==
  ASSUME TypeOK, NEW r \in Requests, Request(r)
  PROVE  /\ UNCHANGED <<resultMaps, made>>
         /\ \A w \in Workers : wpc'[w] \in {"level", "compute"} =>
              /\ wpc'[w] = wpc[w] /\ task'[w] = task[w]
              /\ resultMap'[w] = resultMap[w] /\ ndAndCoord'[w] = ndAndCoord[w]
<1>1. UNCHANGED <<resultMaps, made>>
  BY DEF Request, Begin, PrepareFails, Construct, PutMap, Mark, Count,
     ExecuteOnNewThread, ExecuteOnQueue, SeeIdle, Fetch, DealPoint, DealLosePoint,
     DealError, mapVars, historyVars
<1>2. \A w \in Workers : wpc'[w] \in {"level", "compute"} =>
         /\ wpc'[w] = wpc[w] /\ task'[w] = task[w]
         /\ resultMap'[w] = resultMap[w] /\ ndAndCoord'[w] = ndAndCoord[w]
  BY DEF Request, Begin, PrepareFails, Construct, PutMap, Mark, Count,
     ExecuteOnNewThread, Unborn, ExecuteOnQueue, SeeIdle, Fetch, DealPoint,
     DealLosePoint, DealError, workerVars, TypeOK
<1>3. QED
  BY <1>1, <1>2

\* Nobody computes for a request that is not active.
LEMMA InactiveIdle ==
  ASSUME TypeOK, TasksNotShared, NEW q \in Requests, ~Active(q)
  PROVE  /\ \A w \in Workers : Busy(w) => task[w] # q
         /\ rpc[q] \in {"new", "done", "error", "failed"}
<1>1. \A w \in Workers : Busy(w) => task[w] # q
  BY DEF TasksNotShared, Active
<1>2. rpc[q] \in {"new", "done", "error", "failed"}
  BY DEF Active, Returned
<1>3. QED
  BY <1>1, <1>2

\* A step of a request disturbs no other that it does not meet.
LEMMA RequestLeavesOther ==
  ASSUME TypeOK, ComputeHolds, TasksNotShared, Met, NEW r \in Requests, Request(r),
         NEW q \in Requests, q # r, overlap'[q] = {},
         Private(q), OnItsWay(q), Kept(q)
  PROVE  Private(q)' /\ OnItsWay(q)' /\ Kept(q)'
<1>1. ~Active(q)
  <2>1. CASE Begin(r)
    BY <2>1 DEF Begin, TypeOK
  <2>2. CASE ~Begin(r)
    BY <2>2, RequestActive DEF Met
  <2>3. QED
    BY <2>1, <2>2
<1>2. /\ \A w \in Workers : Busy(w) => task[w] # q
      /\ rpc[q] \in {"new", "done", "error", "failed"}
  BY <1>1, InactiveIdle
<1>3. \A p \in Requests : p # r => rpc'[p] = rpc[p] /\ fate'[p] = fate[p]
  BY RequestActive
<1>4. /\ UNCHANGED <<resultMaps, made>>
      /\ \A w \in Workers : wpc'[w] \in {"level", "compute"} =>
           /\ wpc'[w] = wpc[w] /\ task'[w] = task[w]
           /\ resultMap'[w] = resultMap[w] /\ ndAndCoord'[w] = ndAndCoord[w]
  BY RequestLeaves
<1>5. \A u \in Users : cache[u] = q /\ u = userId[r] => ~Active(r)
  BY DEF Private
<1>6. /\ result'[q] = result[q]
      /\ \A p \in Requests : p # q => result'[p] # q
  <2>1. CASE Fetch(r)
    <3>1. result' = [result EXCEPT ![r] = cache[userId[r]]] /\ Active(r)
      BY <2>1, RequestActive DEF Fetch, CacheKey, Goto, Active, Returned
    <3>2. cache[userId[r]] # q
      BY <3>1, <1>5, ConstantsTyped
    <3>3. QED
      BY <3>1, <3>2 DEF Private, TypeOK
  <2>2. CASE ~Fetch(r)
    <3>1. result' = result
      BY <2>2 DEF Request, Begin, PrepareFails, Construct, PutMap, Mark, Count,
         ExecuteOnNewThread, ExecuteOnQueue, SeeIdle, DealPoint, DealLosePoint,
         DealError
    <3>2. QED
      BY <3>1 DEF Private
  <2>3. QED
    BY <2>1, <2>2
<1>7. \A u \in Users : cache'[u] = q => cache[u] = q /\ (Begin(r) => u # userId[r])
  BY ConstantsTyped
  DEF Request, Begin, PrepareFails, Construct, PutMap, Mark, Count,
      ExecuteOnNewThread, ExecuteOnQueue, SeeIdle, Fetch, DealPoint, DealLosePoint,
      DealError, mapVars, CacheKey, TypeOK
<1>8. Private(q)'
  <2>1. \A p \in Requests : Active(p)' => Active(p) \/ p = r
    BY <1>3 DEF Active, Returned
  <2>2. ASSUME NEW u \in Users, cache'[u] = q
        PROVE  /\ u = userId[q]
               /\ rpc'[q] \notin {"new", "construct", "putMap"}
               /\ \A p \in Requests : p # q /\ userId[p] = u => ~Active(p)'
    <3>1. /\ cache[u] = q
          /\ Begin(r) => u # userId[r]
          /\ ~Begin(r) => Active(r)
      BY <1>7, <2>2, RequestActive
    <3>2. u # userId[r]
      BY <3>1, <1>5
    <3>3. QED
      BY <1>3, <2>1, <3>1, <3>2 DEF Private
  <2>3. \A w \in Workers : wpc'[w] \in {"level", "compute"} /\ task'[w] # q =>
          resultMap'[w] # q /\ (wpc'[w] = "compute" => ndAndCoord'[w] # q)
    BY <1>4 DEF Private
  <2>4. \A m \in Requests : m # q => \A l \in Levels : resultMaps'[m][l] # q
    BY <1>4 DEF Private
  <2>5. QED
    BY <1>6, <2>2, <2>3, <2>4 DEF Private
<1>9. OnItsWay(q)'
  <2>1. \A w \in Workers : ~(wpc'[w] \in {"level", "compute"} /\ task'[w] = q)
    BY <1>2, <1>4 DEF Busy
  <2>2. rpc'[q] = rpc[q] /\ fate'[q] = fate[q]
    BY <1>3
  <2>3. QED
    BY <1>2, <1>6, <2>1, <2>2 DEF OnItsWay
<1>10. Kept(q)'
  <2>1. points'[q] = points[q]
    <3>1. CASE DealPoint(r) /\ r \in InLeak
      <4>1. /\ result[r] \in Requests /\ result[r] # q
            /\ dealAt[r] \in Levels
        BY <3>1 DEF DealPoint, DealFails, TypeOK, Entries, Private
      <4>2. DealEntry(r) # q
        BY <4>1, ConstantsTyped DEF DealEntry, Private
      <4>3. points' = [points EXCEPT ![DealEntry(r)][dealAt[r]] = @ \union {<<r, 0>>}]
        BY <3>1 DEF DealPoint
      <4>4. QED
        BY <4>2, <4>3 DEF TypeOK
    <3>2. CASE ~(DealPoint(r) /\ r \in InLeak)
      BY <3>2 DEF Request, Begin, PrepareFails, Construct, PutMap, Mark, Count,
         ExecuteOnNewThread, ExecuteOnQueue, SeeIdle, Fetch, DealPoint, DealLosePoint,
         DealError, mapVars
    <3>3. QED
      BY <3>1, <3>2
  <2>2. QED
    BY <1>4, <2>1 DEF Kept
<1>11. QED
  BY <1>8, <1>9, <1>10

\* A step of a request that meets no other.
LEMMA RequestOnItsWay ==
  ASSUME PoolInv, Met, NEW q \in Requests, Request(q), overlap'[q] = {},
         Private(q), OnItsWay(q), Kept(q)
  PROVE  Private(q)' /\ OnItsWay(q)' /\ Kept(q)'
<1> USE DEF PoolInv, Goto
<1>1. \A p \in Requests : p # q => ~Active(p)
  <2>1. CASE Begin(q)
    BY <2>1 DEF Begin, TypeOK
  <2>2. CASE ~Begin(q)
    BY <2>2, RequestActive DEF Met
  <2>3. QED
    BY <2>1, <2>2
<1>2. \A p \in Requests : p # q => rpc'[p] = rpc[p] /\ fate'[p] = fate[p]
  BY RequestActive
<1>3. /\ UNCHANGED <<resultMaps, made>>
      /\ \A w \in Workers : wpc'[w] \in {"level", "compute"} =>
           /\ wpc'[w] = wpc[w] /\ task'[w] = task[w]
           /\ resultMap'[w] = resultMap[w] /\ ndAndCoord'[w] = ndAndCoord[w]
  BY RequestLeaves
<1>4. \A u \in Users : cache'[u] = q =>
         /\ u = userId[q]
         /\ rpc'[q] \notin {"new", "construct", "putMap"}
  <2> USE ConstantsTyped
  <2>1. CASE Begin(q)
    BY <2>1 DEF Begin, CacheKey, TypeOK, Private
  <2>2. CASE Construct(q)
    BY <2>2 DEF Construct, CacheKey, mapVars, Private
  <2>3. CASE PutMap(q)
    BY <2>3 DEF PutMap, CacheKey, TypeOK, Private
  <2>4. CASE ~(Begin(q) \/ Construct(q) \/ PutMap(q))
    <3>1. cache' = cache /\ rpc'[q] \notin {"new", "construct", "putMap"}
      BY <2>4 DEF Request, PrepareFails, Goto, Mark, Count, ExecuteOnNewThread,
         ExecuteOnQueue, SeeIdle, Fetch, DealPoint, DealLosePoint, DealError, mapVars,
         TypeOK
    <3>2. QED
      BY <3>1 DEF Private
  <2>5. QED
    BY <2>1, <2>2, <2>3, <2>4
<1>5. Private(q)'
  <2>1. \A p \in Requests : p # q => result'[p] = result[p] /\ ~Active(p)'
    <3>1. \A p \in Requests : p # q => result'[p] = result[p]
      BY DEF Request, Begin, PrepareFails, Construct, PutMap, Mark, Count,
         ExecuteOnNewThread, ExecuteOnQueue, SeeIdle, Fetch, DealPoint, DealLosePoint,
         DealError, TypeOK
    <3>2. QED
      BY <1>1, <1>2, <3>1 DEF Active, Returned
  <2>2. QED
    BY <1>3, <1>4, <2>1 DEF Private
<1>6. OnItsWay(q)'
  <2>1. \A w \in Workers : wpc'[w] \in {"level", "compute"} /\ task'[w] = q =>
          resultMap'[w] = q /\ (wpc'[w] = "compute" => ndAndCoord'[w] = q)
    BY <1>3 DEF OnItsWay
  <2>2. CASE Begin(q)
    BY <2>1, <2>2, ConstantsTyped DEF Begin, CacheKey, OnItsWay, TypeOK
  <2>3. CASE Construct(q)
    BY <2>1, <2>3 DEF Construct, CacheKey, OnItsWay, TypeOK
  <2>4. CASE PutMap(q)
    BY <2>1, <2>4, ConstantsTyped DEF PutMap, CacheKey, OnItsWay, TypeOK
  <2>5. CASE Mark(q)
    BY <2>1, <2>5 DEF Mark, MarkRunning, mapVars, OnItsWay, TypeOK
  <2>6. CASE Count(q)
    <3>1. taskCnt + 1 # 0
      <4>1. Cardinality(Outstanding) \in Nat
        BY RequestsFinite, FS_Subset, FS_CardinalityType DEF Outstanding
      <4>2. QED
        BY <4>1 DEF CountIsOutstanding
    <3>2. rpc[q] = "count" /\ isRunning /\ isRunning' = isRunning
      BY <2>6, <3>1 DEF Count, operateRunningTask, OnItsWay
    <3>3. QED
      BY <2>1, <2>6, <3>2 DEF Count, mapVars, OnItsWay, TypeOK
  <2>7. CASE ExecuteOnNewThread(q) \/ ExecuteOnQueue(q)
    <3>1. /\ rpc[q] = "execute" /\ rpc' = [rpc EXCEPT ![q] = "wait"]
          /\ UNCHANGED <<isRunning, cache, result>>
      BY <2>7 DEF ExecuteOnNewThread, ExecuteOnQueue, statusVars, mapVars
    <3>2. fate[q] = "none"
      BY <3>1 DEF TasksNotShared
    <3>3. isRunning' /\ cache'[userId[q]] = q /\ rpc'[q] = "wait"
      BY <3>1, <3>2 DEF OnItsWay, TypeOK
    <3>4. QED
      BY <2>1, <3>3 DEF OnItsWay
  <2>8. CASE SeeIdle(q)
    BY <2>1, <2>8 DEF SeeIdle, statusVars, mapVars, historyVars, OnItsWay, TypeOK
  <2>9. CASE Fetch(q)
    BY <2>1, <2>9 DEF Fetch, CacheKey, IsList, mapVars, historyVars, OnItsWay, TypeOK
  <2>10. CASE DealPoint(q) \/ DealLosePoint(q) \/ DealError(q)
    BY <2>1, <2>10
    DEF DealPoint, DealLosePoint, DealError, historyVars, OnItsWay, TypeOK
  <2>11. CASE PrepareFails(q)
    BY <2>1, <2>11 DEF PrepareFails, mapVars, historyVars, OnItsWay, TypeOK
  <2>12. QED
    BY <2>2, <2>3, <2>4, <2>5, <2>6, <2>7, <2>8, <2>9, <2>10, <2>11 DEF Request
<1>7. Kept(q)'
  <2>1. CASE DealPoint(q)
    <3>1. IsList(q)
      BY <2>1 DEF DealPoint, OnItsWay
    <3>2. \A l \in Levels : points[q][l] \subseteq points'[q][l]
      BY <2>1 DEF DealPoint, TypeOK
    <3>3. made[q] \subseteq Levels \X (1..MaxX)
      BY DEF TypeOK
    <3>4. QED
      BY <1>3, <3>1, <3>2, <3>3 DEF Kept, IsList
  <2>2. CASE ~DealPoint(q)
    <3>1. points' = points
      BY <2>2 DEF Request, Begin, PrepareFails, Construct, PutMap, Mark, Count,
         ExecuteOnNewThread, ExecuteOnQueue, SeeIdle, Fetch, DealLosePoint, DealError,
         mapVars
    <3>2. QED
      BY <1>3, <3>1 DEF Kept
  <2>3. QED
    BY <2>1, <2>2
<1>8. QED
  BY <1>5, <1>6, <1>7

\* A step of a pool thread disturbs no request but the one it serves.
LEMMA WorkerLeavesOther ==
  ASSUME TypeOK, ComputeHolds, TasksNotShared, Met, NEW w \in Workers, Worker(w),
         NEW q \in Requests, q # Served(w), overlap[q] = {},
         Private(q), OnItsWay(q), Kept(q)
  PROVE  Private(q)' /\ OnItsWay(q)' /\ Kept(q)'
<1>1. /\ Served(w) \in Requests /\ Active(Served(w))
      /\ rpc' = rpc
      /\ \A p \in Requests : p # Served(w) => fate'[p] = fate[p]
      /\ \A v \in Workers : v # w =>
           /\ wpc'[v] = wpc[v] /\ task'[v] = task[v]
           /\ resultMap'[v] = resultMap[v] /\ ndAndCoord'[v] = ndAndCoord[v]
  BY WorkerActive
<1>2. ~Active(q)
  BY <1>1 DEF Met
<1>3. /\ \A v \in Workers : Busy(v) => task[v] # q
      /\ rpc[q] \in {"new", "done", "error", "failed"}
  BY <1>2, InactiveIdle
<1>4. UNCHANGED <<result, cache>>
  BY DEF Worker, TakeTask, ReadMap, SkipLevel, GetEntry, GetError, AddPoints, SetRadius,
         KeepRadius, GiveUp, LosePoints, AddError, Finish, Die, PutEntry, requestVars,
         mapVars
<1>5. wpc'[w] \in {"level", "compute"} =>
         /\ wpc[w] \in {"start", "level", "compute"}
         /\ task'[w] = task[w] /\ task[w] \in Requests /\ task[w] # q
         /\ resultMap'[w] # q
         /\ wpc'[w] = "compute" => ndAndCoord'[w] # q
  <2>1. CASE ReadMap(w)
    <3>1. /\ task[w] \in Requests /\ task[w] # q /\ Active(task[w])
          /\ wpc[w] = "start" /\ task'[w] = task[w]
      BY <1>1, <2>1 DEF ReadMap, Served
    <3>2. cache[userId[task[w]]] # q
      BY <3>1, ConstantsTyped DEF Private
    <3>3. QED
      BY <2>1, <3>1, <3>2 DEF ReadMap, CacheKey, TypeOK
  <2>2. CASE GetEntry(w)
    <3>1. /\ wpc[w] = "level" /\ task[w] \in Requests /\ task[w] # q
          /\ task'[w] = task[w] /\ resultMap'[w] = resultMap[w]
      BY <1>1, <2>2 DEF GetEntry, Served
    <3>2. resultMap[w] \in Requests /\ resultMap[w] # q /\ at[w][2] \in Levels
      BY <2>2, <3>1 DEF GetEntry, GetFails, Private, TypeOK, Entries
    <3>3. EntryFor(w) # q
      BY <3>2, ConstantsTyped DEF EntryFor, Private
    <3>4. QED
      BY <2>2, <3>1, <3>2, <3>3 DEF GetEntry, TypeOK
  <2>3. CASE /\ wpc[w] \in {"level", "compute"} /\ Advance(w)
             /\ UNCHANGED <<task, resultMap, ndAndCoord>>
    <3>1. task[w] \in Requests /\ task[w] # q
      BY <1>1, <2>3 DEF Served
    <3>2. resultMap[w] # q /\ (wpc[w] = "compute" => ndAndCoord[w] # q)
      BY <2>3, <3>1 DEF Private
    <3>3. wpc'[w] # "compute"
      BY <2>3 DEF Advance, TypeOK
    <3>4. QED
      BY <2>3, <3>1, <3>2, <3>3
  <2>4. CASE TakeTask(w) \/ GetError(w) \/ AddError(w) \/ Finish(w)
    BY <2>4 DEF TakeTask, GetError, AddError, Die, Finish, TypeOK
  <2>5. QED
    BY <2>1, <2>2, <2>3, <2>4
    DEF Worker, SkipLevel, AddPoints, SetRadius, KeepRadius, GiveUp, LosePoints,
        Contended, PutEntry
<1>6. /\ \A l \in Levels : /\ points'[q][l] = points[q][l]
                            /\ resultMaps'[q][l] = resultMaps[q][l]
      /\ made'[q] = made[q]
      /\ \A m \in Requests : m # q => \A l \in Levels : resultMaps'[m][l] # q
  <2>1. CASE \E coords, computed : wpc[w] = "compute" /\ PutEntry(w, coords, computed)
    <3>1. task[w] \in Requests /\ task[w] # q
      BY <1>1, <2>1 DEF Served
    <3>2. resultMap[w] # q /\ ndAndCoord[w] # q
      BY <2>1, <3>1 DEF Private
    <3>3. /\ \A l \in Levels : points'[q][l] = points[q][l]
          /\ \A m \in Requests, l \in Levels :
               resultMaps'[m][l] = IF m = resultMap[w] /\ l = at[w][2]
                                   THEN ndAndCoord[w] ELSE resultMaps[m][l]
          /\ made'[q] = made[q]
      <4>1. PICK coords, computed : wpc[w] = "compute" /\ PutEntry(w, coords, computed)
        BY <2>1
      <4>2. \A l \in Levels : points'[q][l] = points[q][l]
        BY <3>2, <4>1, PutEffect
      <4>3. made'[q] = made[q]
        <5>1. made' = [made EXCEPT ![task[w]] = @ \union computed] /\ DOMAIN made = Requests
          BY <4>1 DEF PutEntry, TypeOK
        <5>2. QED
          BY <3>1, <5>1
      <4>4. \A m \in Requests, l \in Levels :
               resultMaps'[m][l] = IF m = resultMap[w] /\ l = at[w][2]
                                   THEN ndAndCoord[w] ELSE resultMaps[m][l]
        BY <4>1, PutEffect
      <4>5. QED
        BY <4>2, <4>3, <4>4
    <3>4. QED
      BY <3>2, <3>3 DEF Private
  <2>2. CASE UNCHANGED <<points, resultMaps, made>>
    BY <2>2 DEF Private
  <2>3. QED
    BY <2>1, <2>2
    DEF Worker, TakeTask, ReadMap, SkipLevel, GetEntry, GetError, AddPoints, SetRadius,
        KeepRadius, GiveUp, LosePoints, Contended, AddError, Finish, Die, mapVars,
        historyVars
<1>7. Private(q)'
  <2>1. \A p \in Requests : Active(p)' => Active(p)
    BY <1>1 DEF Active, Returned
  <2>2. \A v \in Workers : wpc'[v] \in {"level", "compute"} /\ task'[v] # q =>
          resultMap'[v] # q /\ (wpc'[v] = "compute" => ndAndCoord'[v] # q)
    BY <1>1, <1>5 DEF Private
  <2>3. QED
    BY <1>1, <1>4, <1>6, <2>1, <2>2 DEF Private
<1>8. OnItsWay(q)'
  <2>1. \A v \in Workers : ~(wpc'[v] \in {"level", "compute"} /\ task'[v] = q)
    BY <1>1, <1>3, <1>5 DEF Busy
  <2>2. QED
    BY <1>1, <1>3, <1>4, <2>1 DEF OnItsWay
<1>9. Kept(q)'
  <2>1. \A c \in made[q] : c[1] \in Levels
    BY DEF TypeOK
  <2>2. QED
    BY <1>6, <2>1 DEF Kept
<1>10. QED
  BY <1>7, <1>8, <1>9

\* A put of q's task into q's own map: nothing that was there is lost.
LEMMA PutKeeps ==
  ASSUME TypeOK, ComputeHolds, TasksNotShared, OneRound, Met, NEW w \in Workers,
         NEW q \in Requests, task[w] = q, Private(q), OnItsWay(q), Kept(q),
         overlap[q] = {}, rpc[q] = "wait",
         \/ AddPoints(w) \/ SetRadius(w) \/ KeepRadius(w) \/ GiveUp(w) \/ LosePoints(w)
  PROVE  Kept(q)'
<1> DEFINE x == at[w][1]
           l == at[w][2]
<1>1. wpc[w] = "compute"
  BY DEF AddPoints, SetRadius, KeepRadius, GiveUp, LosePoints, Contended
<1>2. /\ resultMap[w] = q /\ ndAndCoord[w] = q
      /\ l \in Levels /\ x \in 1..MaxX
      /\ fate[q] = "running"
      /\ OldCoords(w) = points[q][l] /\ NewPoint(w) = <<q, x>> /\ NewCell(w) = <<l, x>>
  BY <1>1 DEF OnItsWay, TypeOK, OldCoords, NewPoint, NewCell, TasksNotShared, Busy
<1>3. \A p \in Requests : p # q => ~Active(p)
  BY <1>2 DEF Met, Active
<1> HIDE DEF x, l
<1>4. ~LosePoints(w)
  <2> SUFFICES ASSUME Contended(w) PROVE FALSE
    BY DEF LosePoints
  <2>1. PICK z \in Appending(q, l) : z # w
    BY <1>2 DEF Contended, l
  <2>2. CASE z \in Workers /\ wpc[z] = "compute" /\ ndAndCoord[z] = q
    <3>1. task[z] = q
      BY <2>2 DEF Private
    <3>2. QED
      BY <1>1, <2>1, <2>2, <3>1 DEF TasksNotShared, Busy
  <2>3. CASE z \in InLeak /\ rpc[z] = "deal"
    <3>1. z \in Requests /\ Active(z)
      BY <2>3, ConstantsTyped DEF Active, Returned
    <3>2. QED
      BY <1>3, <2>3, <3>1
  <2>4. QED
    BY <2>1, <2>2, <2>3 DEF Appending
<1>5. PICK coords, computed :
        /\ PutEntry(w, coords, computed)
        /\ computed \subseteq {<<l, x>>}
        /\ IsList(q) => points[q][l] \subseteq coords /\ (computed # {} => <<q, x>> \in coords)
        /\ ~IsList(q) => coords = {<<q, 1>>} /\ x = 1
  <2>1. CASE AddPoints(w)
    BY <1>2, <2>1 DEF AddPoints
  <2>2. CASE SetRadius(w)
    <3>1. ~IsList(q) /\ x = 1
      BY <1>1, <2>2 DEF SetRadius, OneRound, x
    <3>2. QED
      BY <1>2, <2>2, <3>1 DEF SetRadius
  <2>3. CASE KeepRadius(w)
    <3>1. ~IsList(q) /\ x = 1
      BY <1>1, <2>3 DEF KeepRadius, OneRound, x
    <3>2. OldCoords(w) = {<<q, 1>>}
      BY <1>2, <2>3, <3>1 DEF KeepRadius, Kept
    <3>3. QED
      BY <1>2, <2>3, <3>1, <3>2 DEF KeepRadius
  <2>4. CASE GiveUp(w)
    BY <1>2, <2>4 DEF GiveUp, IsList
  <2>5. QED
    BY <1>4, <2>1, <2>2, <2>3, <2>4
<1>6. \A k \in Levels : /\ points'[q][k] = IF k = l THEN coords ELSE points[q][k]
                       /\ resultMaps'[q][k] = IF k = l THEN q ELSE resultMaps[q][k]
  <2>1. /\ \A e \in Requests, k \in Levels :
             points'[e][k] = IF e = ndAndCoord[w] /\ k = at[w][2] THEN coords ELSE points[e][k]
        /\ \A m \in Requests, k \in Levels :
             resultMaps'[m][k] = IF m = resultMap[w] /\ k = at[w][2]
                                 THEN ndAndCoord[w] ELSE resultMaps[m][k]
    BY <1>1, <1>5, PutEffect
  <2>2. QED
    BY <1>2, <2>1, Zenon DEF l
<1>7. made'[q] = made[q] \union computed
  <2>1. made' = [made EXCEPT ![q] = @ \union computed] /\ q \in DOMAIN made
    BY <1>5 DEF PutEntry, TypeOK
  <2>2. QED
    BY <2>1
<1>8. \A c \in made[q] : c[1] \in Levels
  BY DEF TypeOK
<1>9. \A c \in made'[q] :
         resultMaps'[q][c[1]] = q /\ <<q, c[2]>> \in points'[q][c[1]]
  <2> SUFFICES ASSUME NEW c \in made'[q]
               PROVE  resultMaps'[q][c[1]] = q /\ <<q, c[2]>> \in points'[q][c[1]]
    OBVIOUS
  <2>1. CASE c \in made[q]
    <3>1. /\ c[1] \in Levels /\ resultMaps[q][c[1]] = q
          /\ <<q, c[2]>> \in points[q][c[1]]
          /\ ~IsList(q) => c[2] = 1
      BY <1>8, <2>1 DEF Kept
    <3>2. QED
      BY <1>5, <1>6, <3>1
  <2>2. CASE c \in computed
    <3>1. c = <<l, x>>
      BY <1>5, <2>2
    <3>2. c[1] = l /\ c[2] = x
      BY <3>1
    <3>3. <<q, x>> \in coords
      BY <1>5, <2>2
    <3>4. QED
      BY <1>2, <1>6, <3>2, <3>3
  <2>3. QED
    BY <1>7, <2>1, <2>2
<1>10. ~IsList(q) => /\ \A k \in Levels : points'[q][k] \subseteq {<<q, 1>>}
                     /\ \A c \in made'[q] : c[2] = 1
  <2> SUFFICES ASSUME ~IsList(q)
               PROVE  /\ \A k \in Levels : points'[q][k] \subseteq {<<q, 1>>}
                      /\ \A c \in made'[q] : c[2] = 1
    OBVIOUS
  <2>1. \A k \in Levels : points'[q][k] \subseteq {<<q, 1>>}
    BY <1>5, <1>6 DEF Kept
  <2>2. \A c \in made'[q] : c[2] = 1
    BY <1>5, <1>7 DEF Kept
  <2>3. QED
    BY <2>1, <2>2
<1>11. \A k \in Levels : resultMaps'[q][k] \in {Null, q}
  BY <1>6 DEF Kept
<1>12. QED
  BY <1>9, <1>10, <1>11 DEF Kept, IsList

\* A step of the thread that serves a request which meets no other.
LEMMA WorkerOnItsWay ==
  ASSUME TypeOK, ComputeHolds, TasksNotShared, HandedOver, Met, OneRound,
         NEW w \in Workers, Worker(w), NEW q \in Requests, q = Served(w),
         overlap[q] = {}, Private(q), OnItsWay(q), Kept(q)
  PROVE  Private(q)' /\ OnItsWay(q)' /\ Kept(q)'
<1>1. /\ rpc' = rpc
      /\ \A p \in Requests : p # q => fate'[p] = fate[p]
      /\ \A v \in Workers : v # w =>
           /\ wpc'[v] = wpc[v] /\ task'[v] = task[v]
           /\ resultMap'[v] = resultMap[v] /\ ndAndCoord'[v] = ndAndCoord[v]
      /\ Active(q)
  BY WorkerActive
<1>2. fate[q] \in {"queued", "running"}
  <2>1. CASE TakeTask(w)
    <3>1. Head(queue) = queue[1] /\ 1 \in 1..Len(queue)
      BY <2>1 DEF TakeTask, TypeOK
    <3>2. QED
      BY <2>1, <3>1 DEF TakeTask, Served, TasksNotShared
  <2>2. CASE Busy(w)
    BY <2>2 DEF TasksNotShared, Served, Busy
  <2>3. QED
    BY <2>1, <2>2
    DEF Worker, ReadMap, SkipLevel, GetEntry, GetError, AddPoints, SetRadius,
        KeepRadius, GiveUp, LosePoints, AddError, Contended, Finish, Busy
<1>3. rpc[q] = "wait"
  BY <1>2 DEF TasksNotShared, OnItsWay
<1>4. cache[userId[q]] = q
  BY <1>3 DEF OnItsWay
<1>5. UNCHANGED <<result, cache>>
  BY DEF Worker, TakeTask, ReadMap, SkipLevel, GetEntry, GetError, AddPoints, SetRadius,
         KeepRadius, GiveUp, LosePoints, AddError, Finish, Die, PutEntry, requestVars,
         mapVars
<1>6. wpc'[w] \in {"level", "compute"} =>
         /\ task'[w] = q /\ resultMap'[w] = q
         /\ wpc'[w] = "compute" => ndAndCoord'[w] = q
  <2>1. CASE ReadMap(w)
    BY <1>4, <2>1 DEF ReadMap, Served, CacheKey, TypeOK
  <2>2. CASE GetEntry(w)
    <3>1. wpc[w] = "level" /\ task[w] = q /\ resultMap[w] = q /\ at[w][2] \in Levels
      BY <2>2 DEF GetEntry, Served, OnItsWay, TypeOK
    <3>2. EntryFor(w) \in {Null, q}
      BY <3>1 DEF EntryFor, Kept
    <3>3. QED
      BY <2>2, <3>1, <3>2 DEF GetEntry, TypeOK
  <2>3. CASE /\ wpc[w] \in {"level", "compute"} /\ Advance(w)
             /\ UNCHANGED <<task, resultMap, ndAndCoord>>
    <3>1. task[w] = q /\ resultMap[w] = q
      BY <2>3 DEF Served, OnItsWay
    <3>2. wpc'[w] # "compute"
      BY <2>3 DEF Advance, TypeOK
    <3>3. QED
      BY <2>3, <3>1, <3>2
  <2>4. CASE TakeTask(w) \/ GetError(w) \/ AddError(w) \/ Finish(w)
    BY <2>4 DEF TakeTask, GetError, AddError, Die, Finish, TypeOK
  <2>5. QED
    BY <2>1, <2>2, <2>3, <2>4
    DEF Worker, SkipLevel, AddPoints, SetRadius, KeepRadius, GiveUp, LosePoints,
        Contended, PutEntry
<1>7. CASE AddPoints(w) \/ SetRadius(w) \/ KeepRadius(w) \/ GiveUp(w) \/ LosePoints(w)
  <2>1. wpc[w] = "compute" /\ task[w] = q
    BY <1>7 DEF AddPoints, SetRadius, KeepRadius, GiveUp, LosePoints, Contended, Served
  <2>2. Kept(q)'
    BY <1>3, <1>7, <2>1, PutKeeps
  <2>3. resultMap[w] = q
    BY <2>1 DEF OnItsWay
  <2>4. PICK coords, computed : PutEntry(w, coords, computed)
    BY <1>7 DEF AddPoints, SetRadius, KeepRadius, GiveUp, LosePoints
  <2>5. \A m \in Requests : m # q => \A l \in Levels : resultMaps'[m][l] # q
    BY <2>1, <2>3, <2>4, PutEffect DEF Private
  <2>6. fate' = fate /\ isRunning' = isRunning
    BY <2>4 DEF PutEntry, statusVars
  <2>7. Private(q)'
    BY <1>1, <1>5, <1>6, <2>5, <2>6 DEF Private, Active, Returned
  <2>8. OnItsWay(q)'
    BY <1>1, <1>3, <1>5, <1>6, <2>6 DEF OnItsWay
  <2>9. QED
    BY <2>2, <2>7, <2>8
<1>8. CASE ~(AddPoints(w) \/ SetRadius(w) \/ KeepRadius(w) \/ GiveUp(w) \/ LosePoints(w))
  <2>1. UNCHANGED <<points, resultMaps, made>>
    BY <1>8 DEF Worker, TakeTask, ReadMap, SkipLevel, GetEntry, GetError, AddError,
                Finish, Die, mapVars, historyVars
  <2>2. fate'[q] # "finished" => isRunning' = isRunning
    BY <1>8 DEF Worker, TakeTask, ReadMap, SkipLevel, GetEntry, GetError, AddError,
                Finish, Die, statusVars, Served, TypeOK
  <2>3. \A p \in Requests : p # q => ~Active(p)
    BY <1>1 DEF Met
  <2>4. \A p \in Requests : p # q => ~Active(p)'
    BY <1>1, <2>3 DEF Active, Returned
  <2>5. Private(q)'
    BY <1>1, <1>5, <1>6, <2>1, <2>4 DEF Private
  <2>6. OnItsWay(q)'
    <3>1. isRunning
      BY <1>2, <1>3 DEF OnItsWay
    <3>2. QED
      BY <1>1, <1>3, <1>4, <1>5, <1>6, <2>2, <3>1 DEF OnItsWay
  <2>7. Kept(q)'
    BY <2>1 DEF Kept
  <2>8. QED
    BY <2>5, <2>6, <2>7
<1>9. QED
  BY <1>7, <1>8

LEMMA LoneInvariant == Spec => []LoneInv
<1>1. Init => LoneInv
  BY InitLone
<1>2. PoolInv /\ LoneInv /\ [Next]_vars => LoneInv'
  <2> SUFFICES ASSUME PoolInv, LoneInv, [Next]_vars PROVE LoneInv'
    OBVIOUS
  <2> USE DEF PoolInv, LoneInv
  <2>1. HandedOver' /\ Met' /\ OneRound'
    BY HandedOverKept, MetKept, OneRoundKept
  <2>2. LoneOwn'
    <3> SUFFICES ASSUME NEW q \in Requests, overlap'[q] = {}
                 PROVE  Private(q)' /\ OnItsWay(q)' /\ Kept(q)'
      BY DEF LoneOwn
    <3>1. overlap[q] = {} => Private(q) /\ OnItsWay(q) /\ Kept(q)
      BY DEF LoneOwn
    <3>2. CASE \E r \in Requests : Request(r)
      <4>1. PICK r \in Requests : Request(r)
        BY <3>2
      <4>2. overlap[q] = {}
        <5>1. CASE Begin(r)
          BY <5>1 DEF Begin
        <5>2. CASE ~Begin(r)
          BY <4>1, <5>2, RequestActive
        <5>3. QED
          BY <5>1, <5>2
      <4>3. CASE r = q
        BY <3>1, <4>1, <4>2, <4>3, RequestOnItsWay
      <4>4. CASE r # q
        BY <3>1, <4>1, <4>2, <4>4, RequestLeavesOther
      <4>5. QED
        BY <4>3, <4>4
    <3>3. CASE \E w \in Workers : Worker(w)
      <4>1. PICK w \in Workers : Worker(w)
        BY <3>3
      <4>2. overlap[q] = {}
        BY <4>1, WorkerActive
      <4>3. QED
        BY <3>1, <4>1, <4>2, WorkerOnItsWay, WorkerLeavesOther
    <3>4. CASE UNCHANGED vars
      BY <3>1, <3>4
      DEF vars, statusVars, requestVars, mapVars, workerVars, historyVars, Private,
          OnItsWay, Kept, Active, Returned
    <3>5. QED
      BY <3>2, <3>3, <3>4 DEF Next
  <2>3. QED
    BY <2>1, <2>2
<1>3. QED
  BY <1>1, <1>2, PoolInvariant, PTL DEF Spec

\* A request that meets no other from remove to its return gets the finished
\* calculation: the map it fetched holds every point its task computed, and keeps
\* them whatever the requests that come later do.
THEOREM LoneIsComplete == Spec => []AloneIsComplete
<1>1. PoolInv /\ LoneInv => AloneIsComplete
  <2> SUFFICES ASSUME PoolInv, LoneInv, NEW r \in Requests,
                      rpc[r] = "done", overlap[r] = {}
               PROVE  /\ fate[r] = "finished"
                      /\ \A c \in made[r] :
                           /\ resultMaps[result[r]][c[1]] # Null
                           /\ <<r, c[2]>> \in points[resultMaps[result[r]][c[1]]][c[1]]
    BY DEF AloneIsComplete
  <2>1. fate[r] = "finished" /\ result[r] = r /\ Kept(r)
    BY DEF LoneInv, LoneOwn, OnItsWay
  <2>2. QED
    BY <2>1, ConstantsTyped DEF Kept
<1>2. QED
  BY <1>1, PoolInvariant, LoneInvariant, PTL
=============================================================================
