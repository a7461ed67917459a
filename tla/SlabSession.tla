------------------------------ MODULE SlabSession ------------------------------
(***************************************************************************)
(* The heavy-gas session of accident-simulation, up to the pool.           *)
(*                                                                         *)
(* A getParam POST (a "run") stores its parameters in the cache, executes  *)
(* SLAB.exe in one directory shared by all users and stores the rows of    *)
(* the predict file.  A heavyGasCalculate POST (a "calc") picks up three   *)
(* cache entries that a run of the same user left there: the parameters,   *)
(* the time map and the list of all rows.  Only DealSlabFile.cachePredict  *)
(* is synchronized; a calc takes no lock.                                  *)
(*                                                                         *)
(* The parameters of a run are named by the run itself.  A predict file is *)
(* [by, data]: the run whose input SLAB.exe read, and whether its table    *)
(* has rows, has none, or has a row that does not parse.  SLAB.exe and the *)
(* file system are external: an execution may fail to start, leave no      *)
(* predict file, or leave one of any kind.                                 *)
(***************************************************************************)
EXTENDS FiniteSets

CONSTANTS
  Runs,    \* the getParam requests
  Calcs,   \* the heavyGasCalculate requests
  Users,
  userId,  \* userId[p]: the user who sent p
  Null

Requests == Runs \union Calcs

ASSUME ConstantsTyped ==
  /\ Runs \intersect Calcs = {}
  /\ userId \in [Requests -> Users]
  /\ Null \notin Requests

Contents == {"rows", "empty", "bad"}
Predict == [by : Runs, data : Contents]

VARIABLES
  pc,         \* where each request is
  inputParam, \* cache: userId + inputParamAll
  timeMap,    \* cache: userId + SlabExecResultMap
  slabAll,    \* cache: userId + SlabExecResultAll
  monitor,    \* the run inside cachePredict, or Null
  inputFile,  \* whose parameters slab.path/input holds
  predict,    \* slab.path/predict
  rows,       \* local: what a run read from the predict file
  result,     \* what a run returned
  zSetBy,     \* the calc whose z the time entries of a run's map hold
  used,       \* what a calc calculated with
  clash       \* history: users of whom two requests met, or one broke off

cacheVars == <<inputParam, timeMap, slabAll>>
fileVars  == <<inputFile, predict>>
vars == <<pc, cacheVars, monitor, fileVars, rows, result, zSetBy, used, clash>>

Unused == [input |-> Null, times |-> Null, all |-> Null, z |-> Null]

Init ==
  /\ pc = [p \in Requests |-> "new"]
  /\ inputParam = [u \in Users |-> Null]
  /\ timeMap = [u \in Users |-> Null]
  /\ slabAll = [u \in Users |-> Null]
  /\ monitor = Null
  /\ inputFile = Null
  /\ predict = Null
  /\ rows = [r \in Runs |-> Null]
  /\ result = [r \in Runs |-> Null]
  /\ zSetBy = [r \in Runs |-> Null]
  /\ used = [c \in Calcs |-> Unused]
  /\ clash = {}

Goto(p, here, next) == pc[p] = here /\ pc' = [pc EXCEPT ![p] = next]

Ended(p) == pc[p] \in {"done", "refused", "error"}

\* A request that starts while another one of its user is in progress.
Meet(p) ==
  clash' = clash \union {userId[p] : q \in {q \in Requests \ {p} :
             userId[q] = userId[p] /\ pc[q] # "new" /\ ~Ended(q)}}
-----------------------------------------------------------------------------
(***************************************************************************)
(* getParam: handleData, then getSlabParams.                               *)
(***************************************************************************)
RemoveInput(r) ==
  /\ Goto(r, "new", "putInput")
  /\ inputParam' = [inputParam EXCEPT ![userId[r]] = Null]
  /\ Meet(r)
  /\ UNCHANGED <<timeMap, slabAll, monitor, fileVars, rows, result, zSetBy, used>>

\* Mutant: key and value of the put are swapped.
PutInputSwapped(r) ==
  /\ Goto(r, "putInput", "format")
  /\ inputParam' = [u \in Users |-> IF u = userId[r] THEN u ELSE inputParam[u]]
  /\ UNCHANGED <<timeMap, slabAll, monitor, fileVars, rows, result, zSetBy, used,
                 clash>>

PutInput(r) ==
  /\ Goto(r, "putInput", "format")
  /\ inputParam' = [inputParam EXCEPT ![userId[r]] = r]
  /\ UNCHANGED <<timeMap, slabAll, monitor, fileVars, rows, result, zSetBy, used,
                 clash>>

\* addPoint of a parameter the POST did not carry: the request ends with its
\* parameters already in the cache and the previous results still there.
FormatError(r) ==
  /\ Goto(r, "format", "error")
  /\ clash' = clash \union {userId[r]}
  /\ UNCHANGED <<cacheVars, monitor, fileVars, rows, result, zSetBy, used>>

\* Mutant: the previous results stay in the cache.
RemoveTimesNot(r) ==
  /\ Goto(r, "format", "enter")
  /\ UNCHANGED <<cacheVars, monitor, fileVars, rows, result, zSetBy, used, clash>>

RemoveTimes(r) ==
  /\ Goto(r, "format", "enter")
  /\ timeMap' = [timeMap EXCEPT ![userId[r]] = Null]
  /\ UNCHANGED <<inputParam, slabAll, monitor, fileVars, rows, result, zSetBy,
                 used, clash>>

\* Mutant: cachePredict is not synchronized.
EnterUnguarded(r) ==
  /\ Goto(r, "enter", "write")
  /\ monitor' = r
  /\ UNCHANGED <<cacheVars, fileVars, rows, result, zSetBy, used, clash>>

\* The class monitor of DealSlabFile.
Enter(r) ==
  /\ Goto(r, "enter", "write")
  /\ monitor = Null
  /\ monitor' = r
  /\ UNCHANGED <<cacheVars, fileVars, rows, result, zSetBy, used, clash>>

\* runSlabExe before the execution; a file that cannot be opened ends in a
\* NullPointerException of FileUtil.write that cachePredict swallows.
WriteInput(r) ==
  /\ Goto(r, "write", "exec")
  /\ inputFile' = r
  /\ predict' = Null
  /\ UNCHANGED <<cacheVars, monitor, rows, result, zSetBy, used, clash>>

WriteError(r) ==
  /\ Goto(r, "write", "leave")
  /\ UNCHANGED <<cacheVars, monitor, fileVars, rows, result, zSetBy, used, clash>>

\* SLAB.exe did not start: success stays -1.
ExecError(r) ==
  /\ Goto(r, "exec", "leave")
  /\ UNCHANGED <<cacheVars, monitor, fileVars, rows, result, zSetBy, used, clash>>

\* SLAB.exe ended: every exit code that is not negative counts as success.
Exec(r) ==
  /\ Goto(r, "exec", "read")
  /\ predict' \in {Null} \union {[by |-> inputFile, data |-> d] : d \in Contents}
  /\ UNCHANGED <<cacheVars, monitor, inputFile, rows, result, zSetBy, used, clash>>

\* getPredictData and the parsing half of transForm: no file or a bad row is
\* an exception that cachePredict swallows.
Unreadable == predict = Null \/ (predict # Null /\ predict.data = "bad")

\* Mutant: the exception leaves a lock that only the normal path releases.
ReadErrorLocked(r) ==
  /\ Goto(r, "read", "answer")
  /\ Unreadable
  /\ UNCHANGED <<cacheVars, monitor, fileVars, rows, result, zSetBy, used, clash>>

ReadError(r) ==
  /\ Goto(r, "read", "leave")
  /\ Unreadable
  /\ UNCHANGED <<cacheVars, monitor, fileVars, rows, result, zSetBy, used, clash>>

ReadPredict(r) ==
  /\ Goto(r, "read", "putAll")
  /\ ~Unreadable
  /\ rows' = [rows EXCEPT ![r] = predict]
  /\ UNCHANGED <<cacheVars, monitor, fileVars, result, zSetBy, used, clash>>

\* Mutant: put if absent.
PutAllOnce(r) ==
  /\ Goto(r, "putAll", "putTimes")
  /\ slabAll' = [slabAll EXCEPT ![userId[r]] = IF @ = Null THEN rows[r] ELSE @]
  /\ UNCHANGED <<inputParam, timeMap, monitor, fileVars, rows, result, zSetBy,
                 used, clash>>

\* The two puts that end transForm.
PutAll(r) ==
  /\ Goto(r, "putAll", "putTimes")
  /\ slabAll' = [slabAll EXCEPT ![userId[r]] = rows[r]]
  /\ UNCHANGED <<inputParam, timeMap, monitor, fileVars, rows, result, zSetBy,
                 used, clash>>

PutTimes(r) ==
  /\ Goto(r, "putTimes", "leave")
  /\ timeMap' = [timeMap EXCEPT ![userId[r]] = rows[r]]
  /\ UNCHANGED <<inputParam, slabAll, monitor, fileVars, rows, result, zSetBy,
                 used, clash>>

Leave(r) ==
  /\ Goto(r, "leave", "answer")
  /\ monitor' = Null
  /\ UNCHANGED <<cacheVars, fileVars, rows, result, zSetBy, used, clash>>

\* Outside the monitor again: whatever the cache holds now is the answer.
Answer(r) ==
  /\ Goto(r, "answer", "done")
  /\ result' = [result EXCEPT ![r] = timeMap[userId[r]]]
  /\ UNCHANGED <<cacheVars, monitor, fileVars, rows, zSetBy, used, clash>>

Run(r) ==
  \/ RemoveInput(r) \/ PutInput(r) \/ FormatError(r) \/ RemoveTimes(r) \/ Enter(r)
  \/ WriteInput(r) \/ WriteError(r) \/ ExecError(r) \/ Exec(r) \/ ReadError(r)
  \/ ReadPredict(r) \/ PutAll(r) \/ PutTimes(r) \/ Leave(r) \/ Answer(r)
-----------------------------------------------------------------------------
(***************************************************************************)
(* heavyGasCalculate up to the task it hands to the pool.                  *)
(***************************************************************************)
ReadInput(c) ==
  /\ Goto(c, "new", "times")
  /\ used' = [used EXCEPT ![c].input = inputParam[userId[c]]]
  /\ Meet(c)
  /\ UNCHANGED <<cacheVars, monitor, fileVars, rows, result, zSetBy>>

\* No result, an empty one, or no row for the requested t: a message instead.
Refuse(c) ==
  /\ Goto(c, "times", "refused")
  /\ UNCHANGED <<cacheVars, monitor, fileVars, rows, result, zSetBy, used, clash>>

\* The row for t is found, and its z is overwritten in the cached object.
ReadTimes(c) ==
  /\ Goto(c, "times", "all")
  /\ timeMap[userId[c]] # Null
  /\ timeMap[userId[c]].data = "rows"
  /\ used' = [used EXCEPT ![c].times = timeMap[userId[c]].by]
  /\ zSetBy' = [zSetBy EXCEPT ![timeMap[userId[c]].by] = c]
  /\ UNCHANGED <<cacheVars, monitor, fileVars, rows, result, clash>>

ReadAll(c) ==
  /\ Goto(c, "all", IF used[c].input = Null THEN "error" ELSE "compute")
  /\ used' = [used EXCEPT ![c].all = slabAll[userId[c]].by]
  /\ UNCHANGED <<cacheVars, monitor, fileVars, rows, result, zSetBy, clash>>

\* The task clones the shared row, z included, when a pool thread runs it.
Compute(c) ==
  /\ Goto(c, "compute", "done")
  /\ used' = [used EXCEPT ![c].z = zSetBy[used[c].times]]
  /\ UNCHANGED <<cacheVars, monitor, fileVars, rows, result, zSetBy, clash>>

Calc(c) == ReadInput(c) \/ Refuse(c) \/ ReadTimes(c) \/ ReadAll(c) \/ Compute(c)
-----------------------------------------------------------------------------
Next ==
  \/ \E r \in Runs : Run(r)
  \/ \E c \in Calcs : Calc(c)

Spec == Init /\ [][Next]_vars

\* Request threads are scheduled and SLAB.exe ends; waitFor has no timeout.
Fairness == \A r \in Runs : WF_vars(pc[r] # "new" /\ Run(r))
FairSpec == Spec /\ Fairness
-----------------------------------------------------------------------------
RunPc == {"new", "putInput", "format", "enter", "write", "exec", "read", "putAll",
          "putTimes", "leave", "answer", "done", "error"}
CalcPc == {"new", "times", "all", "compute", "done", "refused", "error"}

\* Every variable holds a value of the kind the code gives it.
TypeOK ==
  /\ pc \in [Requests -> RunPc \union CalcPc]
  /\ inputParam \in [Users -> Runs \union {Null}]
  /\ timeMap \in [Users -> Predict \union {Null}]
  /\ slabAll \in [Users -> Predict \union {Null}]
  /\ monitor \in Runs \union {Null}
  /\ inputFile \in Runs \union {Null}
  /\ predict \in Predict \union {Null}
  /\ rows \in [Runs -> Predict \union {Null}]
  /\ result \in [Runs -> Predict \union {Null}]
  /\ zSetBy \in [Runs -> Calcs \union {Null}]
  /\ used \in [Calcs -> [input : Runs \union {Null}, times : Runs \union {Null},
                         all : Runs \union {Null}, z : Calcs \union {Null}]]
  /\ clash \subseteq Users

InMonitor(r) ==
  pc[r] \in {"write", "exec", "read", "putAll", "putTimes", "leave"}

\* All users share one input and one predict file, and yet a user's cached
\* results always come from that user's own parameters: a run parses only
\* what SLAB.exe made of the input the same run wrote.
ResultsAreOwn ==
  /\ \A r \in Runs : rows[r] # Null => rows[r].by = r
  /\ \A u \in Users :
       /\ timeMap[u] # Null => userId[timeMap[u].by] = u
       /\ slabAll[u] # Null => userId[slabAll[u].by] = u

\* The time map and the list of all rows come from one run, except while a
\* run of that user stands between the two puts, which no reader is kept from.
PairFromOneRun ==
  \A u \in Users :
    \/ timeMap[u] = Null
    \/ timeMap[u] = slabAll[u]
    \/ \E r \in Runs : userId[r] = u /\ pc[r] = "putTimes"

\* A run of a user who sends one request at a time answers with its own rows
\* or, when SLAB.exe failed it, with nothing: never with an older result.
AnswerIsOwn ==
  \A r \in Runs :
    pc[r] = "done" /\ userId[r] \notin clash =>
      result[r] = Null \/ result[r].by = r

\* A calculation of a user whose requests never met and never broke off uses
\* parameters, time row and x rows of one run, and its own height z.
CalcIsConsistent ==
  \A c \in Calcs :
    pc[c] = "done" /\ userId[c] \notin clash =>
      /\ used[c].input = used[c].times
      /\ used[c].all = used[c].times
      /\ used[c].z = c

\* Every getParam request is answered, given that SLAB.exe ends.
RunsEnd == \A r \in Runs : pc[r] # "new" ~> Ended(r)

=============================================================================
