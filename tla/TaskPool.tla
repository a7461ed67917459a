------------------------------- MODULE TaskPool -------------------------------
(***************************************************************************)
(* The calculation requests of accident-simulation: the service methods    *)
(* that answer a POST (VceCalculate, yanyuCalculate, yantuanCalculate, the *)
(* second half of heavyGasCalculate), the thread pool TaskExcutePools they *)
(* hand one task each to, the Runnables it runs (VceExplodeThread,         *)
(* GaussianThread, HeavyGasThread), the process-wide CacheManager in which *)
(* a task leaves its result, and RunningStatus, by which the request waits.*)
(*                                                                         *)
(* Objects are named by the request that allocates them: a request's       *)
(* constructor allocates at most one result map, and its task at most one  *)
(* ndAndCoord entry per level of concentration (an entry is allocated only *)
(* when the level is absent, and a level is never removed from a map).     *)
(* The numeric models are abstracted to what the control depends on:       *)
(* whether the value at the current x exceeds a level, and when the loop   *)
(* over x stops, are nondeterministic.  A point is <<r, x>>: the task of   *)
(* request r computed it in the x-th round of its loop; <<r, 0>> is the    *)
(* origin that adddZeroPoint adds.                                         *)
(***************************************************************************)
EXTENDS RunningStatus, Sequences, FiniteSets

CONSTANTS
  Requests,   \* the POSTs that arrive, each served by a thread of its own
  Users,      \* the values of userId
  userId,     \* userId[r]: the user who sent r
  kind,       \* kind[r]: which Runnable r creates
  InLeak,     \* the heavy-gas requests whose t is within the leak's duration
  Workers,    \* the core threads of the pool (corePoolSize of them)
  NumLevels,  \* concentration levels: 3 in the code (nd1, nd2, nd3)
  MaxX,       \* bound on the rounds of the loop over x
  Null

ASSUME RequestsFinite == IsFiniteSet(Requests)
ASSUME ConstantsTyped ==
  /\ userId \in [Requests -> Users]
  /\ kind \in [Requests -> {"vce", "gaussian", "heavy"}]
  /\ InLeak \subseteq Requests
  /\ NumLevels \in Nat \ {0}
  /\ MaxX \in Nat \ {0}
  /\ Null \notin Requests

VARIABLES
  rpc,        \* where each request thread is
  result,     \* the map each request fetched from the cache
  dealAt,     \* the next level pointDeal looks at, per request
  cache,      \* CacheManager: userId + threadKey -> result map, or Null
  resultMaps, \* content of each result map: level -> ndAndCoord entry, or Null
  points,     \* content of each entry's "coord": a set of points
  queue,      \* the pool's LinkedBlockingDeque
  wpc,        \* where each pool thread is
  task,       \* the request whose Runnable the thread runs
  resultMap,  \* local variable resultMap of run()
  at,         \* <<round of the x loop, level>> that run() has reached
  ndAndCoord, \* local variable ndAndCoord of run()
  fate,       \* history: what became of each request's task
  made,       \* history: <<level, x>> each task computed points for
  overlap     \* history: the requests each request met while it was active

requestVars == <<rpc, result, dealAt>>
mapVars     == <<cache, resultMaps, points>>
workerVars  == <<wpc, task, resultMap, at, ndAndCoord>>
historyVars == <<fate, made, overlap>>
vars == <<statusVars, requestVars, mapVars, queue, workerVars, historyVars>>

Levels == 1..NumLevels
Entries == Requests \union {Null}
IsList(r) == kind[r] # "vce"     \* "coord" is a List<double[]>, else a Float
\* Mutant: the key lacks the userId.
CacheKeyShared(r) == CHOOSE u \in Users : TRUE

CacheKey(r) == userId[r]         \* all three Runnables use one threadKey
\* e is an entry whose "coord" r's code can cast to what it expects.
SameKind(e, r) == e # Null /\ IsList(e) = IsList(r)
LoopBound(r) == IF IsList(r) THEN MaxX ELSE 1

Init ==
  /\ StatusInit
  /\ rpc = [r \in Requests |-> "new"]
  /\ result = [r \in Requests |-> Null]
  /\ dealAt = [r \in Requests |-> 1]
  /\ cache = [u \in Users |-> Null]
  /\ resultMaps = [m \in Requests |-> [l \in Levels |-> Null]]
  /\ points = [e \in Requests |-> [l \in Levels |-> {}]]
  /\ queue = <<>>
  /\ wpc = [w \in Workers |-> "unborn"]
  /\ task = [w \in Workers |-> Null]
  /\ resultMap = [w \in Workers |-> Null]
  /\ at = [w \in Workers |-> <<1, 1>>]
  /\ ndAndCoord = [w \in Workers |-> Null]
  /\ fate = [r \in Requests |-> "none"]
  /\ made = [r \in Requests |-> {}]
  /\ overlap = [r \in Requests |-> {}]
-----------------------------------------------------------------------------
(***************************************************************************)
(* The request threads.                                                    *)
(***************************************************************************)
Goto(r, here, next) ==
  /\ rpc[r] = here
  /\ rpc' = [rpc EXCEPT ![r] = next]

Returned(r) == rpc[r] \in {"done", "error", "failed"}

\* r occupies the service: its thread is active or its task has not ended.
Active(r) == \/ rpc[r] # "new" /\ ~Returned(r)
             \/ fate[r] \in {"queued", "running"}

\* remove(userId + threadKey), the first access to the shared result.
Begin(r) ==
  /\ Goto(r, "new", "construct")
  /\ cache' = [cache EXCEPT ![CacheKey(r)] = Null]
  /\ LET met == {q \in Requests \ {r} : Active(q)}
     IN  overlap' = [q \in Requests |-> overlap[q] \union
                       (IF q = r THEN met ELSE IF q \in met THEN {r} ELSE {})]
  /\ UNCHANGED <<statusVars, result, dealAt, resultMaps, points, queue,
                 workerVars, fate, made>>

\* heavyGasCalculate reads the parameters of the last SLAB run before it creates
\* the Runnable; where there are none the request ends in an exception.
PrepareFails(r) ==
  /\ kind[r] = "heavy"
  /\ Goto(r, "construct", "failed")
  /\ UNCHANGED <<statusVars, result, dealAt, mapVars, queue, workerVars,
                 historyVars>>

\* The Runnable's constructor looks the key up ...
Construct(r) ==
  /\ Goto(r, "construct", IF cache[CacheKey(r)] = Null THEN "putMap" ELSE "mark")
  /\ UNCHANGED <<statusVars, result, dealAt, mapVars, queue, workerVars,
                 historyVars>>

\* ... and puts a new map there, whatever happened in between.
PutMap(r) ==
  /\ Goto(r, "putMap", "mark")
  /\ cache' = [cache EXCEPT ![CacheKey(r)] = r]
  /\ UNCHANGED <<statusVars, result, dealAt, resultMaps, points, queue,
                 workerVars, historyVars>>

\* addTask: addRunningTask in its two steps, then execute.
Mark(r) ==
  /\ Goto(r, "mark", "count")
  /\ MarkRunning
  /\ UNCHANGED <<result, dealAt, mapVars, queue, workerVars, historyVars>>

Count(r) ==
  /\ Goto(r, "count", "execute")
  /\ operateRunningTask(1)
  /\ UNCHANGED <<result, dealAt, mapVars, queue, workerVars, historyVars>>

\* executor.execute: a new core thread starts with the task while there are
\* fewer than corePoolSize threads, afterwards the unbounded queue takes it.
Unborn == {w \in Workers : wpc[w] = "unborn"}

ExecuteOnNewThread(r) ==
  /\ Goto(r, "execute", "wait")
  /\ \E w \in Unborn :
       /\ wpc' = [wpc EXCEPT ![w] = "start"]
       /\ task' = [task EXCEPT ![w] = r]
  /\ fate' = [fate EXCEPT ![r] = "running"]
  /\ UNCHANGED <<statusVars, result, dealAt, mapVars, queue, resultMap, at,
                 ndAndCoord, made, overlap>>

ExecuteOnQueue(r) ==
  /\ Goto(r, "execute", "wait")
  /\ Unborn = {}
  /\ queue' = Append(queue, r)
  /\ fate' = [fate EXCEPT ![r] = "queued"]
  /\ UNCHANGED <<statusVars, result, dealAt, mapVars, workerVars, made, overlap>>

\* Mutant: the request does not wait for the flag.
SeeIdleUnchecked(r) ==
  /\ Goto(r, "wait", "fetch")
  /\ UNCHANGED <<statusVars, result, dealAt, mapVars, queue, workerVars,
                 historyVars>>

\* getStateResult: the loop ends when a poll finds the flag FALSE.
SeeIdle(r) ==
  /\ Goto(r, "wait", "fetch")
  /\ ~isRunning
  /\ UNCHANGED <<statusVars, result, dealAt, mapVars, queue, workerVars,
                 historyVars>>

\* getCache().get(userId + threadKey)
Fetch(r) ==
  /\ Goto(r, "fetch", IF kind[r] = "heavy" THEN "deal" ELSE "done")
  /\ result' = [result EXCEPT ![r] = cache[CacheKey(r)]]
  /\ UNCHANGED <<statusVars, dealAt, mapVars, queue, workerVars, historyVars>>

\* pointDeal, one adddZeroPoint per level: allPoints null, a level with no
\* entry or one that holds a radius ends the request in an exception.
DealEntry(r) ==
  IF result[r] = Null THEN Null ELSE resultMaps[result[r]][dealAt[r]]

\* The threads that append to the list of entry e at level l, with no lock.
Appending(e, l) ==
  {w \in Workers : wpc[w] = "compute" /\ IsList(task[w])
                   /\ ndAndCoord[w] = e /\ at[w][2] = l}
  \union {r \in InLeak : rpc[r] = "deal" /\ DealEntry(r) = e /\ dealAt[r] = l}

DealFails(r) ==
  \/ result[r] = Null
  \/ r \in InLeak /\ ~SameKind(DealEntry(r), r)

DealPoint(r) ==
  /\ Goto(r, "deal", IF dealAt[r] = NumLevels THEN "done" ELSE "deal")
  /\ ~DealFails(r)
  /\ dealAt' = [dealAt EXCEPT ![r] = IF @ = NumLevels THEN @ ELSE @ + 1]
  /\ points' = IF r \in InLeak
               THEN [points EXCEPT ![DealEntry(r)][dealAt[r]] = @ \union {<<r, 0>>}]
               ELSE points
  /\ UNCHANGED <<statusVars, result, cache, resultMaps, queue, workerVars,
                 historyVars>>

\* The origin is lost, or the append fails, when a task or another request
\* appends to the same ArrayList.
DealContended(r) ==
  r \in InLeak /\ Appending(DealEntry(r), dealAt[r]) \ {r} # {}

DealLosePoint(r) ==
  /\ Goto(r, "deal", IF dealAt[r] = NumLevels THEN "done" ELSE "deal")
  /\ ~DealFails(r)
  /\ DealContended(r)
  /\ dealAt' = [dealAt EXCEPT ![r] = IF @ = NumLevels THEN @ ELSE @ + 1]
  /\ UNCHANGED <<statusVars, result, mapVars, queue, workerVars, historyVars>>

DealError(r) ==
  /\ Goto(r, "deal", "error")
  /\ DealFails(r) \/ DealContended(r)
  /\ UNCHANGED <<statusVars, result, dealAt, mapVars, queue, workerVars,
                 historyVars>>

Request(r) ==
  \/ Begin(r) \/ PrepareFails(r) \/ Construct(r) \/ PutMap(r) \/ Mark(r) \/ Count(r)
  \/ ExecuteOnNewThread(r) \/ ExecuteOnQueue(r)
  \/ SeeIdle(r) \/ Fetch(r) \/ DealPoint(r) \/ DealLosePoint(r) \/ DealError(r)
-----------------------------------------------------------------------------
(***************************************************************************)
(* The pool threads.                                                       *)
(***************************************************************************)
TakeTask(w) ==
  /\ wpc[w] = "idle"
  /\ queue # <<>>
  /\ queue' = Tail(queue)
  /\ wpc' = [wpc EXCEPT ![w] = "start"]
  /\ task' = [task EXCEPT ![w] = Head(queue)]
  /\ fate' = [fate EXCEPT ![Head(queue)] = "running"]
  /\ UNCHANGED <<statusVars, requestVars, mapVars, resultMap, at, ndAndCoord,
                 made, overlap>>

\* run() begins with CacheManager.get(userId + threadKey).
ReadMap(w) ==
  /\ wpc[w] = "start"
  /\ wpc' = [wpc EXCEPT ![w] = "level"]
  /\ resultMap' = [resultMap EXCEPT ![w] = cache[CacheKey(task[w])]]
  /\ at' = [at EXCEPT ![w] = <<1, 1>>]
  /\ UNCHANGED <<statusVars, requestVars, mapVars, queue, task, ndAndCoord,
                 historyVars>>

\* Mutant: one level too many.
AdvancePastEnd(w) ==
  \/ /\ at[w][2] <= NumLevels
     /\ at' = [at EXCEPT ![w][2] = @ + 1]
     /\ wpc' = [wpc EXCEPT ![w] = "level"]
  \/ /\ at[w][2] > NumLevels
     /\ wpc' = [wpc EXCEPT ![w] = "finish"]
     /\ UNCHANGED at

\* Mutant: the loop over x does not move x on.
AdvanceInPlace(w) ==
  \/ /\ at[w][2] < NumLevels
     /\ at' = [at EXCEPT ![w][2] = @ + 1]
     /\ wpc' = [wpc EXCEPT ![w] = "level"]
  \/ /\ at[w][2] = NumLevels
     /\ at' = [at EXCEPT ![w] = <<at[w][1], 1>>]
     /\ wpc' = [wpc EXCEPT ![w] = "level"]

\* After a level: the next one, the next round over x, or the end of run().
\* How many rounds the numeric loop condition allows is left open.
Advance(w) ==
  LET x == at[w][1]
      l == at[w][2]
  IN  \/ /\ l < NumLevels
         /\ at' = [at EXCEPT ![w] = <<x, l + 1>>]
         /\ wpc' = [wpc EXCEPT ![w] = "level"]
      \/ /\ l = NumLevels
         /\ x < LoopBound(task[w])
         /\ at' = [at EXCEPT ![w] = <<x + 1, 1>>]
         /\ wpc' = [wpc EXCEPT ![w] = "level"]
      \/ /\ l = NumLevels
         /\ wpc' = [wpc EXCEPT ![w] = "finish"]
         /\ UNCHANGED at

\* valueStart does not exceed the level: nothing is stored.
SkipLevel(w) ==
  /\ wpc[w] = "level"
  /\ Advance(w)
  /\ UNCHANGED <<statusVars, requestVars, mapVars, queue, task, resultMap,
                 ndAndCoord, historyVars>>

\* The uncaught exception ends run() before deleteRunningTask; the pool
\* replaces the thread, and nothing gives the task's count back.
Die(w) ==
  /\ wpc' = [wpc EXCEPT ![w] = "idle"]
  /\ fate' = [fate EXCEPT ![task[w]] = "dead"]
  /\ UNCHANGED <<statusVars, requestVars, mapVars, queue, task, resultMap, at,
                 ndAndCoord, made, overlap>>

\* The level is exceeded: resultMap.get(level), NullPointerException on a
\* null map, ClassCastException on an entry that another kind of task made.
EntryFor(w) ==
  IF resultMap[w] = Null THEN Null ELSE resultMaps[resultMap[w]][at[w][2]]

GetFails(w) ==
  \/ resultMap[w] = Null
  \/ EntryFor(w) # Null /\ ~SameKind(EntryFor(w), task[w])

GetEntry(w) ==
  /\ wpc[w] = "level"
  /\ ~GetFails(w)
  /\ ndAndCoord' = [ndAndCoord EXCEPT ![w] =
                      IF EntryFor(w) = Null THEN task[w] ELSE EntryFor(w)]
  /\ wpc' = [wpc EXCEPT ![w] = "compute"]
  /\ UNCHANGED <<statusVars, requestVars, mapVars, queue, task, resultMap, at,
                 historyVars>>

GetError(w) ==
  /\ wpc[w] = "level"
  /\ GetFails(w)
  /\ Die(w)

\* getConByColor and the two puts.  A list gains the point and its mirror
\* image; a radius is replaced, or stays what an earlier task left there
\* when the loop of VceExplodeThread.getConByColor does not run.
PutEntry(w, coords, computed) ==
  LET r == task[w]
      e == ndAndCoord[w]
      l == at[w][2]
  IN  /\ points' = [points EXCEPT ![e][l] = coords]
      /\ resultMaps' = [resultMaps EXCEPT ![resultMap[w]][l] = e]
      /\ made' = [made EXCEPT ![r] = @ \union computed]
      /\ Advance(w)
      /\ UNCHANGED <<statusVars, requestVars, cache, queue, task, resultMap,
                     ndAndCoord, fate, overlap>>

OldCoords(w) == points[ndAndCoord[w]][at[w][2]]
NewPoint(w) == <<task[w], at[w][1]>>
NewCell(w) == <<at[w][2], at[w][1]>>

AddPoints(w) ==
  /\ wpc[w] = "compute"
  /\ IsList(task[w])
  /\ PutEntry(w, OldCoords(w) \union {NewPoint(w)}, {NewCell(w)})

SetRadius(w) ==
  /\ wpc[w] = "compute"
  /\ ~IsList(task[w])
  /\ PutEntry(w, {NewPoint(w)}, {NewCell(w)})

KeepRadius(w) ==
  /\ wpc[w] = "compute"
  /\ ~IsList(task[w])
  /\ OldCoords(w) # {}
  /\ PutEntry(w, OldCoords(w), {NewCell(w)})

\* getConByColor of GaussianThread gives up: the entry is put as it is.
GiveUp(w) ==
  /\ wpc[w] = "compute"
  /\ kind[task[w]] = "gaussian"
  /\ PutEntry(w, OldCoords(w), {})

\* Two threads append to one ArrayList with no lock: the point of one may be
\* overwritten by the other's, or the store may run past the array.
Contended(w) ==
  /\ wpc[w] = "compute"
  /\ IsList(task[w])
  /\ Appending(ndAndCoord[w], at[w][2]) \ {w} # {}

LosePoints(w) == Contended(w) /\ PutEntry(w, OldCoords(w), {NewCell(w)})

AddError(w) == Contended(w) /\ Die(w)

\* Mutant: deleteRunningTask is not called.
FinishUncounted(w) ==
  /\ wpc[w] = "finish"
  /\ wpc' = [wpc EXCEPT ![w] = "idle"]
  /\ fate' = [fate EXCEPT ![task[w]] = "finished"]
  /\ UNCHANGED <<statusVars, requestVars, mapVars, queue, task, resultMap, at,
                 ndAndCoord, made, overlap>>

Finish(w) ==
  /\ wpc[w] = "finish"
  /\ deleteRunningTask
  /\ wpc' = [wpc EXCEPT ![w] = "idle"]
  /\ fate' = [fate EXCEPT ![task[w]] = "finished"]
  /\ UNCHANGED <<requestVars, mapVars, queue, task, resultMap, at, ndAndCoord,
                 made, overlap>>

Worker(w) ==
  \/ TakeTask(w) \/ ReadMap(w) \/ SkipLevel(w) \/ GetEntry(w) \/ GetError(w)
  \/ AddPoints(w) \/ SetRadius(w) \/ KeepRadius(w) \/ GiveUp(w) \/ LosePoints(w)
  \/ AddError(w) \/ Finish(w)
-----------------------------------------------------------------------------
Next ==
  \/ \E r \in Requests : Request(r)
  \/ \E w \in Workers : Worker(w)

Spec == Init /\ [][Next]_vars

\* Threads that can run are scheduled; that a POST arrives at all (Begin) is
\* nobody's duty.  Every step takes a request or a task further, so no thread can
\* go on for ever and starve the rest: one condition for all is enough.
Fairness ==
  WF_vars(\/ \E r \in Requests : rpc[r] # "new" /\ Request(r)
          \/ \E w \in Workers : Worker(w))

FairSpec == Spec /\ Fairness
-----------------------------------------------------------------------------
(***************************************************************************)
(* Properties.                                                             *)
(***************************************************************************)
RequestPc == {"new", "construct", "putMap", "mark", "count", "execute", "wait",
              "fetch", "deal", "done", "error", "failed"}
WorkerPc == {"unborn", "idle", "start", "level", "compute", "finish"}
Fates == {"none", "queued", "running", "finished", "dead"}
Points == Requests \X (0..MaxX)

\* Every variable holds a value of the kind the code gives it.
TypeOK ==
  /\ isRunning \in BOOLEAN
  /\ taskCnt \in Int
  /\ rpc \in [Requests -> RequestPc]
  /\ result \in [Requests -> Entries]
  /\ dealAt \in [Requests -> Levels]
  /\ cache \in [Users -> Entries]
  /\ resultMaps \in [Requests -> [Levels -> Entries]]
  /\ points \in [Requests -> [Levels -> SUBSET Points]]
  /\ queue \in Seq(Requests)
  /\ wpc \in [Workers -> WorkerPc]
  /\ task \in [Workers -> Entries]
  /\ resultMap \in [Workers -> Entries]
  /\ at \in [Workers -> (1..MaxX) \X Levels]
  /\ ndAndCoord \in [Workers -> Entries]
  /\ fate \in [Requests -> Fates]
  /\ made \in [Requests -> SUBSET (Levels \X (1..MaxX))]
  /\ overlap \in [Requests -> SUBSET Requests]

\* The requests whose task has been counted and has not been uncounted: it is
\* being handed over, waits in the queue, runs, or died without deleteRunningTask.
Outstanding ==
  {r \in Requests : /\ rpc[r] \in {"execute", "wait", "fetch", "deal", "done", "error"}
                    /\ fate[r] # "finished"}

Busy(w) == wpc[w] \in {"start", "level", "compute", "finish"}

\* taskCnt is exactly the number of outstanding tasks, whatever the threads
\* interleave: nothing is counted twice or given back twice, so the counter
\* is never negative and reaches 0 only when all work has really ended.
CountIsOutstanding == taskCnt = Cardinality(Outstanding)

\* The flag is not left TRUE by mistake: while isRunning holds there is an
\* outstanding task, or a request between the two steps of addRunningTask.
FlagHasCause ==
  isRunning => Outstanding # {} \/ \E r \in Requests : rpc[r] = "count"

\* A step resets the flag only when it leaves no outstanding task behind.
FlagFallsWhenDrained == [][isRunning /\ ~isRunning' => Outstanding' = {}]_vars

PointsOf(m) == UNION {points[resultMaps[m][l]][l] :
                        l \in {k \in Levels : resultMaps[m][k] # Null}}

\* No point of a user's task ever reaches a map of another user.
UsersIsolated ==
  \A m \in Requests : \A p \in PointsOf(m) : userId[p[1]] = userId[m]

\* A request that met no other request from its first step to its last returns
\* the finished calculation: its task has ended and every point it computed
\* is in the map returned.
AloneIsComplete ==
  \A r \in Requests :
    rpc[r] = "done" /\ overlap[r] = {} =>
      /\ fate[r] = "finished"
      /\ \A c \in made[r] :
           /\ resultMaps[result[r]][c[1]] # Null
           /\ <<r, c[2]>> \in points[resultMaps[result[r]][c[1]]][c[1]]

\* getStateResult, "获取计算结果": when a request has its result, its own task
\* is no longer queued or running.
ResultIsFinal ==
  \A r \in Requests : Returned(r) => fate[r] \notin {"queued", "running"}

\* Every task handed to the pool ends, by finishing or by its exception.
TasksEnd ==
  \A r \in Requests :
    fate[r] \in {"queued", "running"} ~> fate[r] \in {"finished", "dead"}

\* Every request is answered, or some task died with its count.
AnsweredUnlessTaskDies ==
  \A r \in Requests :
    rpc[r] # "new" ~> Returned(r) \/ \E q \in Requests : fate[q] = "dead"

=============================================================================
