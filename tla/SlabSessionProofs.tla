--------------------------- MODULE SlabSessionProofs ---------------------------
(***************************************************************************)
(* Proofs about SlabSession for every set of runs, calculations and users. *)
(*                                                                         *)
(* ResultsAreOwn needs to know what each stage of cachePredict may rely    *)
(* on: the run in the monitor is alone there (Exclusion), so between its   *)
(* write and its read the input and predict files are its own (FilesOwn).  *)
(***************************************************************************)
EXTENDS SlabSession, TLAPS

Exclusion == \A r \in Runs : InMonitor(r) => monitor = r

FilesOwn ==
  \A r \in Runs :
    /\ pc[r] = "exec" => inputFile = r
    /\ pc[r] = "read" /\ predict # Null => predict.by = r
    /\ pc[r] \in {"putAll", "putTimes"} => rows[r] # Null
    /\ pc[r] = "putTimes" => slabAll[userId[r]] = rows[r]

\* A calculation that found its row also finds the list of all rows.
CalcReady ==
  \A c \in Calcs :
    /\ pc[c] = "all" => slabAll[userId[c]] # Null
    /\ pc[c] \in {"all", "compute"} => used[c].times \in Runs

SlabInv ==
  /\ TypeOK
  /\ Exclusion
  /\ FilesOwn
  /\ CalcReady
  /\ ResultsAreOwn
  /\ PairFromOneRun

LEMMA InitSlab == Init => SlabInv
  BY ConstantsTyped
  DEF Init, Requests, Unused, SlabInv, TypeOK, RunPc, CalcPc, Exclusion, InMonitor,
      FilesOwn, CalcReady, ResultsAreOwn, PairFromOneRun

LEMMA RunType ==
  ASSUME TypeOK, FilesOwn, NEW r \in Runs, Run(r)
  PROVE  TypeOK'
<1> USE ConstantsTyped DEF TypeOK, Goto, RunPc, CalcPc, Requests, cacheVars, fileVars
<1>1. CASE RemoveInput(r)
  BY <1>1 DEF RemoveInput, Meet
<1>2. CASE PutInput(r)
  BY <1>2 DEF PutInput
<1>3. CASE FormatError(r) \/ RemoveTimes(r)
  BY <1>3 DEF FormatError, RemoveTimes
<1>4. CASE Enter(r) \/ Leave(r)
  BY <1>4 DEF Enter, Leave
<1>5. CASE WriteInput(r) \/ WriteError(r)
  BY <1>5 DEF WriteInput, WriteError
<1>6. CASE ExecError(r) \/ ReadError(r)
  BY <1>6 DEF ExecError, ReadError
<1>7. CASE Exec(r)
  <2>1. inputFile = r
    BY <1>7 DEF Exec, FilesOwn
  <2>2. \A d \in Contents : [by |-> inputFile, data |-> d] \in Predict
    BY <2>1 DEF Predict
  <2>3. predict' \in Predict \union {Null}
    BY <1>7, <2>2 DEF Exec
  <2>4. QED
    BY <1>7, <2>3 DEF Exec
<1>8. CASE ReadPredict(r)
  BY <1>8 DEF ReadPredict
<1>9. CASE PutAll(r) \/ PutTimes(r)
  BY <1>9 DEF PutAll, PutTimes
<1>10. CASE Answer(r)
  BY <1>10 DEF Answer
<1>11. QED
  BY <1>1, <1>2, <1>3, <1>4, <1>5, <1>6, <1>7, <1>8, <1>9, <1>10 DEF Run

\* A list of rows is there whenever a time map is.
LEMMA MapHasRows ==
  ASSUME SlabInv, NEW u \in Users, timeMap[u] # Null
  PROVE  slabAll[u] # Null
  BY DEF SlabInv, PairFromOneRun, FilesOwn

LEMMA CalcType ==
  ASSUME SlabInv, NEW c \in Calcs, Calc(c)
  PROVE  TypeOK'
<1> USE ConstantsTyped DEF Goto, RunPc, CalcPc, Requests, cacheVars, fileVars
<1>0. userId[c] \in Users
  OBVIOUS
<1>1. CASE ReadInput(c)
  BY <1>0, <1>1 DEF ReadInput, Meet, SlabInv, TypeOK
<1>2. CASE Refuse(c)
  BY <1>2 DEF Refuse, SlabInv, TypeOK
<1>3. CASE ReadTimes(c)
  <2>1. timeMap[userId[c]].by \in Runs
    BY <1>0, <1>3 DEF ReadTimes, SlabInv, TypeOK, Predict
  <2>2. QED
    BY <1>3, <2>1 DEF ReadTimes, SlabInv, TypeOK
<1>4. CASE ReadAll(c)
  <2>1. slabAll[userId[c]].by \in Runs
    BY <1>0, <1>4 DEF ReadAll, SlabInv, CalcReady, TypeOK, Predict
  <2>2. QED
    BY <1>4, <2>1 DEF ReadAll, SlabInv, TypeOK
<1>5. CASE Compute(c)
  <2>1. zSetBy[used[c].times] \in Calcs \union {Null}
    BY <1>5 DEF Compute, SlabInv, CalcReady, TypeOK
  <2>2. QED
    BY <1>5, <2>1 DEF Compute, SlabInv, TypeOK
<1>6. QED
  BY <1>1, <1>2, <1>3, <1>4, <1>5 DEF Calc

LEMMA CalcStep ==
  ASSUME SlabInv, NEW c \in Calcs, Calc(c)
  PROVE  SlabInv'
<1> USE ConstantsTyped DEF Goto, Requests, cacheVars, fileVars
<1>1. TypeOK'
  BY CalcType
<1>2. /\ UNCHANGED <<cacheVars, monitor, fileVars, rows>>
      /\ \A r \in Runs : pc'[r] = pc[r]
  BY DEF Calc, ReadInput, Refuse, ReadTimes, ReadAll, Compute, SlabInv, TypeOK
<1>3. Exclusion' /\ FilesOwn' /\ ResultsAreOwn' /\ PairFromOneRun'
  BY <1>2
  DEF SlabInv, Exclusion, InMonitor, FilesOwn, ResultsAreOwn, PairFromOneRun
<1>4. CalcReady'
  <2>1. CASE ReadTimes(c)
    <3>1. timeMap[userId[c]] # Null /\ timeMap[userId[c]].by \in Runs
      BY <2>1 DEF ReadTimes, SlabInv, TypeOK, Predict
    <3>2. slabAll[userId[c]] # Null
      BY <3>1, MapHasRows
    <3>3. used'[c].times \in Runs
      BY <2>1, <3>1 DEF ReadTimes, SlabInv, TypeOK
    <3>4. \A d \in Calcs : d # c => used'[d] = used[d] /\ pc'[d] = pc[d]
      BY <2>1 DEF ReadTimes, SlabInv, TypeOK
    <3>5. QED
      BY <1>2, <3>2, <3>3, <3>4 DEF CalcReady, SlabInv
  <2>2. CASE ~ReadTimes(c)
    <3>1. /\ pc'[c] # "all"
          /\ pc'[c] = "compute" => pc[c] = "all"
          /\ used'[c].times = used[c].times \/ pc[c] = "new"
      BY <2>2
      DEF Calc, ReadInput, Refuse, ReadAll, Compute, SlabInv, TypeOK
    <3>2. \A d \in Calcs : d # c => used'[d] = used[d] /\ pc'[d] = pc[d]
      BY <2>2
      DEF Calc, ReadInput, Refuse, ReadAll, Compute, SlabInv, TypeOK
    <3>3. QED
      BY <1>2, <3>1, <3>2 DEF CalcReady, SlabInv
  <2>3. QED
    BY <2>1, <2>2
<1>5. QED
  BY <1>1, <1>3, <1>4 DEF SlabInv

LEMMA RunStep ==
  ASSUME SlabInv, NEW r \in Runs, Run(r)
  PROVE  SlabInv'
<1> USE ConstantsTyped DEF Goto, Requests, cacheVars, fileVars
<1>1. TypeOK'
  BY RunType DEF SlabInv
<1>2. \A p \in Requests : p # r => pc'[p] = pc[p]
  BY DEF Run, RemoveInput, PutInput, FormatError, RemoveTimes, Enter, WriteInput,
         WriteError, ExecError, Exec, ReadError, ReadPredict, PutAll, PutTimes, Leave,
         Answer, SlabInv, TypeOK
<1>3. Exclusion'
  <2>1. CASE Enter(r)
    BY <1>2, <2>1 DEF Enter, SlabInv, Exclusion, InMonitor
  <2>2. CASE Leave(r)
    BY <1>2, <2>2 DEF Leave, SlabInv, Exclusion, InMonitor, TypeOK
  <2>3. CASE ~Enter(r) /\ ~Leave(r)
    <3>1. monitor' = monitor /\ (InMonitor(r)' => InMonitor(r))
      BY <2>3
      DEF Run, RemoveInput, PutInput, FormatError, RemoveTimes, WriteInput, WriteError,
          ExecError, Exec, ReadError, ReadPredict, PutAll, PutTimes, Answer, SlabInv,
          TypeOK, InMonitor
    <3>2. QED
      BY <1>2, <3>1 DEF SlabInv, Exclusion, InMonitor
  <2>4. QED
    BY <2>1, <2>2, <2>3
<1>4. \A q \in Runs : q # r /\ InMonitor(q) => ~InMonitor(r) /\ ~Enter(r)
  BY DEF SlabInv, Exclusion, Enter
<1>5. FilesOwn'
  <2>1. \A q \in Runs \ {r} :
          InMonitor(q) => UNCHANGED <<inputFile, predict, slabAll, rows>>
    BY <1>4
    DEF Run, RemoveInput, PutInput, FormatError, RemoveTimes, Enter, WriteInput,
        WriteError, ExecError, Exec, ReadError, ReadPredict, PutAll, PutTimes, Leave,
        Answer, InMonitor
  <2>2. \A q \in Runs \ {r} :
          /\ pc'[q] = "exec" => inputFile' = q
          /\ pc'[q] = "read" /\ predict' # Null => predict'.by = q
          /\ pc'[q] \in {"putAll", "putTimes"} => rows'[q] # Null
          /\ pc'[q] = "putTimes" => slabAll'[userId[q]] = rows'[q]
    BY <1>2, <2>1 DEF SlabInv, FilesOwn, InMonitor
  <2>3. /\ pc'[r] = "exec" => inputFile' = r
        /\ pc'[r] = "read" /\ predict' # Null => predict'.by = r
        /\ pc'[r] \in {"putAll", "putTimes"} => rows'[r] # Null
        /\ pc'[r] = "putTimes" => slabAll'[userId[r]] = rows'[r]
    BY DEF Run, RemoveInput, PutInput, FormatError, RemoveTimes, Enter, WriteInput,
           WriteError, ExecError, Exec, ReadError, ReadPredict, Unreadable, PutAll,
           PutTimes, Leave, Answer, SlabInv, TypeOK, FilesOwn
  <2>4. QED
    BY <2>2, <2>3 DEF FilesOwn
<1>6. CalcReady'
  <2>1. used' = used /\ \A u \in Users : slabAll[u] # Null => slabAll'[u] # Null
    BY DEF Run, RemoveInput, PutInput, FormatError, RemoveTimes, Enter, WriteInput,
           WriteError, ExecError, Exec, ReadError, ReadPredict, PutAll, PutTimes,
           Leave, Answer, SlabInv, TypeOK, FilesOwn
  <2>2. \A c \in Calcs : pc'[c] = pc[c] /\ userId[c] \in Users
    BY <1>2
  <2>3. QED
    BY <2>1, <2>2 DEF SlabInv, CalcReady
<1>7. ResultsAreOwn'
  <2>1. CASE ReadPredict(r)
    BY <2>1
    DEF ReadPredict, Unreadable, SlabInv, TypeOK, FilesOwn, ResultsAreOwn
  <2>2. CASE PutAll(r) \/ PutTimes(r)
    <3>1. rows[r] # Null /\ rows[r].by = r
      BY <2>2 DEF PutAll, PutTimes, SlabInv, FilesOwn, ResultsAreOwn
    <3>2. QED
      BY <2>2, <3>1 DEF PutAll, PutTimes, SlabInv, TypeOK, ResultsAreOwn
  <2>3. CASE RemoveTimes(r)
    BY <2>3 DEF RemoveTimes, SlabInv, TypeOK, ResultsAreOwn
  <2>4. CASE ~(ReadPredict(r) \/ PutAll(r) \/ PutTimes(r) \/ RemoveTimes(r))
    <3>1. UNCHANGED <<rows, timeMap, slabAll>>
      BY <2>4
      DEF Run, RemoveInput, PutInput, FormatError, Enter, WriteInput, WriteError,
          ExecError, Exec, ReadError, Leave, Answer
    <3>2. QED
      BY <3>1 DEF SlabInv, ResultsAreOwn
  <2>5. QED
    BY <2>1, <2>2, <2>3, <2>4
<1>8. PairFromOneRun'
  <2>1. CASE PutAll(r)
    BY <1>2, <2>1 DEF PutAll, SlabInv, TypeOK, PairFromOneRun
  <2>2. CASE PutTimes(r)
    <3>1. slabAll[userId[r]] = rows[r]
      BY <2>2 DEF PutTimes, SlabInv, FilesOwn
    <3>2. QED
      BY <1>2, <2>2, <3>1 DEF PutTimes, SlabInv, TypeOK, PairFromOneRun
  <2>3. CASE RemoveTimes(r)
    BY <1>2, <2>3 DEF RemoveTimes, SlabInv, TypeOK, PairFromOneRun
  <2>4. CASE ~(PutAll(r) \/ PutTimes(r) \/ RemoveTimes(r))
    <3>1. UNCHANGED <<timeMap, slabAll>> /\ pc[r] # "putTimes"
      BY <2>4
      DEF Run, RemoveInput, PutInput, FormatError, Enter, WriteInput, WriteError,
          ExecError, Exec, ReadError, ReadPredict, Leave, Answer
    <3>2. QED
      BY <1>2, <3>1 DEF SlabInv, PairFromOneRun
  <2>5. QED
    BY <2>1, <2>2, <2>3, <2>4
<1>9. QED
  BY <1>1, <1>3, <1>5, <1>6, <1>7, <1>8 DEF SlabInv

LEMMA SlabInvariant == Spec => []SlabInv
<1>1. SlabInv /\ UNCHANGED vars => SlabInv'
  BY DEF vars, cacheVars, fileVars, SlabInv, TypeOK, Exclusion, InMonitor, FilesOwn,
         CalcReady, ResultsAreOwn, PairFromOneRun
<1>2. SlabInv /\ [Next]_vars => SlabInv'
  BY <1>1, RunStep, CalcStep DEF Next
<1>3. QED
  BY <1>2, InitSlab, PTL DEF Spec

\* The type invariant of the session model holds in every behaviour.
THEOREM SessionTypeCorrect == Spec => []TypeOK
<1>1. SlabInv => TypeOK
  BY DEF SlabInv
<1>2. QED
  BY <1>1, SlabInvariant, PTL

\* The monitor of cachePredict is enough to keep the shared input and predict
\* files apart: no run ever stores rows made from another run's parameters.
THEOREM OwnResults == Spec => []ResultsAreOwn
<1>1. SlabInv => ResultsAreOwn
  BY DEF SlabInv
<1>2. QED
  BY <1>1, SlabInvariant, PTL

\* The two cache entries that transForm writes disagree only between its puts.
THEOREM PairTorn == Spec => []PairFromOneRun
<1>1. SlabInv => PairFromOneRun
  BY DEF SlabInv
<1>2. QED
  BY <1>1, SlabInvariant, PTL
-----------------------------------------------------------------------------
(***************************************************************************)
(* Users who send one request at a time.  While a user has not clashed,    *)
(* only one of the user's requests is under way (Sole), so that what it    *)
(* left in the cache at one stage is still there at the next (RunAlone,    *)
(* CalcAlone), and between requests the entries agree (AtRest).            *)
(***************************************************************************)
UnderWay(p) == pc[p] # "new" /\ ~Ended(p)
Alone(p) == userId[p] \notin clash

Sole ==
  \A p, q \in Requests :
    UnderWay(p) /\ UnderWay(q) /\ userId[p] = userId[q] /\ Alone(p) => p = q

RunAlone ==
  \A r \in Runs : Alone(r) =>
    /\ pc[r] = "format" \/ InMonitor(r) \/ pc[r] \in {"enter", "answer"}
         => inputParam[userId[r]] = r
    /\ pc[r] \in {"enter", "write", "exec", "read", "putAll", "putTimes"}
         => timeMap[userId[r]] = Null
    /\ pc[r] \in {"leave", "answer"}
         => timeMap[userId[r]] = Null \/ timeMap[userId[r]].by = r
    /\ pc[r] = "done" => result[r] = Null \/ result[r].by = r

AtRest ==
  \A u \in Users :
    u \notin clash /\ (\A r \in Runs : userId[r] = u => ~UnderWay(r))
      => timeMap[u] = Null \/ timeMap[u].by = inputParam[u]

CalcAlone ==
  \A c \in Calcs : Alone(c) =>
    /\ pc[c] = "times" => used[c].input = inputParam[userId[c]]
    /\ pc[c] = "all" => /\ timeMap[userId[c]] # Null
                        /\ used[c].times = timeMap[userId[c]].by
    /\ pc[c] \in {"all", "compute"} => /\ used[c].input = used[c].times
                                       /\ userId[used[c].times] = userId[c]
                                       /\ zSetBy[used[c].times] = c
    /\ pc[c] = "compute" => used[c].all = used[c].times
    /\ pc[c] = "done" => /\ used[c].input = used[c].times
                         /\ used[c].all = used[c].times
                         /\ used[c].z = c

LoneInv == Sole /\ RunAlone /\ AtRest /\ CalcAlone

LEMMA InitLone == Init => LoneInv
  BY DEF Init, LoneInv, Sole, RunAlone, AtRest, CalcAlone, UnderWay, InMonitor, Requests

\* What any step of a request p is: p was not over, the others stay where they
\* are, a clash is for ever, and p does not start beside another of its user.
LEMMA OneMoves ==
  ASSUME TypeOK, NEW p \in Requests, (p \in Runs /\ Run(p)) \/ (p \in Calcs /\ Calc(p))
  PROVE  /\ ~Ended(p)
         /\ pc[p] = "new" => \A q \in Requests \ {p} :
              userId[q] = userId[p] /\ UnderWay(q) => userId[p] \in clash'
         /\ \A q \in Requests : q # p => pc'[q] = pc[q]
         /\ clash \subseteq clash'
<1>1. ~Ended(p) /\ \A q \in Requests : q # p => pc'[q] = pc[q]
  BY DEF Run, Calc, Goto, Ended, RemoveInput, PutInput, FormatError, RemoveTimes, Enter,
         WriteInput, WriteError, ExecError, Exec, ReadError, ReadPredict, PutAll,
         PutTimes, Leave, Answer, ReadInput, Refuse, ReadTimes, ReadAll, Compute, TypeOK
<1>2. CASE pc[p] = "new"
  <2>1. Meet(p)
    BY <1>2
    DEF Run, Calc, Goto, RemoveInput, PutInput, FormatError, RemoveTimes, Enter,
        WriteInput, WriteError, ExecError, Exec, ReadError, ReadPredict, PutAll,
        PutTimes, Leave, Answer, ReadInput, Refuse, ReadTimes, ReadAll, Compute
  <2>2. QED
    BY <1>1, <2>1 DEF Meet, UnderWay
<1>3. CASE pc[p] # "new"
  <2>1. clash \subseteq clash'
    BY <1>3
    DEF Run, Calc, Goto, RemoveInput, PutInput, FormatError, RemoveTimes, Enter,
        WriteInput, WriteError, ExecError, Exec, ReadError, ReadPredict, PutAll,
        PutTimes, Leave, Answer, ReadInput, Refuse, ReadTimes, ReadAll, Compute
  <2>2. QED
    BY <1>1, <1>3, <2>1
<1>4. QED
  BY <1>2, <1>3

\* When p moves and its user is still without clash, the user's other requests
\* are not under way.
LEMMA OthersRest ==
  ASSUME TypeOK, Sole, NEW p \in Requests,
         (p \in Runs /\ Run(p)) \/ (p \in Calcs /\ Calc(p)),
         NEW q \in Requests, q # p, userId[q] = userId[p], userId[q] \notin clash'
  PROVE  ~UnderWay(q) /\ ~UnderWay(q)'
<1>1. /\ ~Ended(p)
      /\ pc[p] = "new" => (UnderWay(q) => userId[p] \in clash')
      /\ pc'[q] = pc[q]
      /\ userId[q] \notin clash
  BY OneMoves
<1>2. ~UnderWay(q)
  BY <1>1 DEF Sole, UnderWay, Alone
<1>3. QED
  BY <1>1, <1>2 DEF UnderWay, Ended

LEMMA SoleKept ==
  ASSUME TypeOK, Sole, NEW p \in Requests,
         (p \in Runs /\ Run(p)) \/ (p \in Calcs /\ Calc(p))
  PROVE  Sole'
<1> SUFFICES ASSUME NEW a \in Requests, NEW b \in Requests, UnderWay(a)', UnderWay(b)',
                    userId[a] = userId[b], userId[a] \notin clash'
             PROVE  a = b
  BY DEF Sole, Alone
<1>1. CASE a = p \/ b = p
  BY <1>1, OthersRest
<1>2. CASE a # p /\ b # p
  <2>1. pc'[a] = pc[a] /\ pc'[b] = pc[b] /\ userId[a] \notin clash
    BY <1>2, OneMoves
  <2>2. UnderWay(a) /\ UnderWay(b)
    BY <2>1 DEF UnderWay, Ended
  <2>3. QED
    BY <2>1, <2>2 DEF Sole, Alone
<1>3. QED
  BY <1>1, <1>2

LEMMA RunLone ==
  ASSUME SlabInv, LoneInv, NEW r \in Runs, Run(r)
  PROVE  LoneInv'
<1> DEFINE u == userId[r]
<1>0. /\ TypeOK /\ Sole /\ r \in Requests
      /\ (r \in Runs /\ Run(r)) \/ (r \in Calcs /\ Calc(r))
  BY DEF SlabInv, LoneInv, Requests
<1>1. Sole'
  BY <1>0, SoleKept
<1>2. \A q \in Requests : q # r /\ userId[q] = u /\ userId[q] \notin clash' => ~UnderWay(q)
  BY <1>0, OthersRest
<1>3. /\ clash \subseteq clash'
      /\ \A q \in Requests : q # r => pc'[q] = pc[q]
  BY <1>0, OneMoves
<1>4. /\ UNCHANGED <<used, zSetBy>>
      /\ \A v \in Users : v # u => inputParam'[v] = inputParam[v] /\ timeMap'[v] = timeMap[v]
      /\ \A q \in Runs : q # r => result'[q] = result[q]
  BY <1>0
  DEF Run, RemoveInput, PutInput, FormatError, RemoveTimes, Enter, WriteInput, WriteError,
      ExecError, Exec, ReadError, ReadPredict, PutAll, PutTimes, Leave, Answer, TypeOK,
      cacheVars
<1>5. RunAlone'
  <2> SUFFICES ASSUME NEW q \in Runs, userId[q] \notin clash' PROVE
        /\ pc'[q] = "format" \/ InMonitor(q)' \/ pc'[q] \in {"enter", "answer"}
             => inputParam'[userId[q]] = q
        /\ pc'[q] \in {"enter", "write", "exec", "read", "putAll", "putTimes"}
             => timeMap'[userId[q]] = Null
        /\ pc'[q] \in {"leave", "answer"}
             => timeMap'[userId[q]] = Null \/ timeMap'[userId[q]].by = q
        /\ pc'[q] = "done" => result'[q] = Null \/ result'[q].by = q
    BY DEF RunAlone, Alone
  <2>0. q \in Requests /\ userId[q] \in Users /\ Alone(q)
    BY <1>3, ConstantsTyped DEF Requests, Alone
  <2>1. CASE q # r /\ userId[q] = u
    BY <1>2, <1>3, <1>4, <2>0, <2>1 DEF UnderWay, Ended, InMonitor, RunAlone, LoneInv
  <2>2. CASE q # r /\ userId[q] # u
    BY <1>3, <1>4, <2>0, <2>2 DEF InMonitor, RunAlone, LoneInv
  <2>3. CASE q = r
    <3>1. rows[r] # Null => rows[r].by = r
      BY DEF SlabInv, ResultsAreOwn
    <3>2. CASE RemoveInput(r) \/ PutInput(r) \/ FormatError(r) \/ RemoveTimes(r)
      BY <1>0, <2>0, <2>3, <3>2
      DEF RemoveInput, PutInput, FormatError, RemoveTimes, Goto, TypeOK, InMonitor,
          RunAlone, LoneInv
    <3>3. CASE \/ Enter(r) \/ WriteInput(r) \/ WriteError(r) \/ ExecError(r) \/ Exec(r)
               \/ ReadError(r) \/ ReadPredict(r) \/ PutAll(r) \/ Leave(r)
      BY <1>0, <2>0, <2>3, <3>3
      DEF Enter, WriteInput, WriteError, ExecError, Exec, ReadError, ReadPredict, PutAll,
          Leave, Goto, TypeOK, InMonitor, RunAlone, LoneInv, cacheVars
    <3>4. CASE PutTimes(r) \/ Answer(r)
      BY <1>0, <2>0, <2>3, <3>1, <3>4
      DEF PutTimes, Answer, Goto, TypeOK, InMonitor, RunAlone, LoneInv, cacheVars
    <3>5. QED
      BY <3>2, <3>3, <3>4 DEF Run
  <2>4. QED
    BY <2>1, <2>2, <2>3
<1>6. AtRest'
  <2> SUFFICES ASSUME NEW v \in Users, v \notin clash',
                      \A q \in Runs : userId[q] = v => ~UnderWay(q)'
               PROVE  timeMap'[v] = Null \/ timeMap'[v].by = inputParam'[v]
    BY DEF AtRest
  <2>1. CASE v # u
    <3>1. \A q \in Runs : userId[q] = v => ~UnderWay(q)
      BY <1>3, <2>1 DEF UnderWay, Ended, Requests
    <3>2. QED
      BY <1>3, <1>4, <2>1, <3>1 DEF AtRest, LoneInv
  <2>2. CASE v = u
    <3>1. ~UnderWay(r)' /\ v \notin clash
      BY <1>3, <2>2
    <3>2. Answer(r)
      BY <1>0, <2>2, <3>1
      DEF Run, RemoveInput, PutInput, FormatError, RemoveTimes, Enter, WriteInput,
          WriteError, ExecError, Exec, ReadError, ReadPredict, PutAll, PutTimes, Leave,
          Goto, TypeOK, UnderWay, Ended
    <3>3. QED
      BY <2>2, <3>1, <3>2 DEF Answer, Goto, RunAlone, LoneInv, Alone, cacheVars
  <2>3. QED
    BY <2>1, <2>2
<1>7. CalcAlone'
  <2> SUFFICES ASSUME NEW c \in Calcs, userId[c] \notin clash'
      PROVE  /\ pc'[c] = "times" => used'[c].input = inputParam'[userId[c]]
             /\ pc'[c] = "all" => /\ timeMap'[userId[c]] # Null
                                  /\ used'[c].times = timeMap'[userId[c]].by
             /\ pc'[c] \in {"all", "compute"} => /\ used'[c].input = used'[c].times
                                                 /\ userId[used'[c].times] = userId[c]
                                                 /\ zSetBy'[used'[c].times] = c
             /\ pc'[c] = "compute" => used'[c].all = used'[c].times
             /\ pc'[c] = "done" => /\ used'[c].input = used'[c].times
                                   /\ used'[c].all = used'[c].times
                                   /\ used'[c].z = c
    BY DEF CalcAlone, Alone
  <2>0. c \in Requests /\ c # r /\ userId[c] \in Users /\ Alone(c) /\ pc'[c] = pc[c]
    BY <1>3, ConstantsTyped DEF Requests, Alone
  <2>1. CASE userId[c] = u
    <3>1. ~UnderWay(c)
      BY <1>2, <2>0, <2>1
    <3>2. QED
      BY <1>4, <2>0, <3>1 DEF UnderWay, Ended, CalcAlone, LoneInv
  <2>2. CASE userId[c] # u
    BY <1>4, <2>0, <2>2 DEF CalcAlone, LoneInv
  <2>3. QED
    BY <2>1, <2>2
<1>8. QED
  BY <1>1, <1>5, <1>6, <1>7 DEF LoneInv

LEMMA CalcLone ==
  ASSUME SlabInv, LoneInv, NEW c \in Calcs, Calc(c)
  PROVE  LoneInv'
<1> DEFINE u == userId[c]
<1>0. TypeOK /\ Sole /\ c \in Requests /\ u \in Users
  BY ConstantsTyped DEF SlabInv, LoneInv, Requests
<1>1. Sole'
  BY <1>0, SoleKept
<1>2. \A q \in Requests : q # c /\ userId[q] = u /\ userId[q] \notin clash' => ~UnderWay(q)
  BY <1>0, OthersRest
<1>3. /\ clash \subseteq clash'
      /\ \A q \in Requests : q # c => pc'[q] = pc[q]
      /\ \A r \in Runs : r \in Requests /\ r # c
  BY <1>0, OneMoves, ConstantsTyped DEF Requests
<1>4. /\ UNCHANGED <<inputParam, timeMap, slabAll, result>>
      /\ \A d \in Calcs : d # c => used'[d] = used[d]
  BY <1>0 DEF Calc, ReadInput, Refuse, ReadTimes, ReadAll, Compute, TypeOK, cacheVars
<1>5. RunAlone'
  BY <1>3, <1>4 DEF RunAlone, LoneInv, InMonitor, Alone
<1>6. AtRest'
  BY <1>3, <1>4 DEF AtRest, LoneInv, UnderWay, Ended
<1>7. CalcAlone'
  <2> DEFINE Good(d) ==
        /\ pc[d] = "times" => used[d].input = inputParam[userId[d]]
        /\ pc[d] = "all" => /\ timeMap[userId[d]] # Null
                            /\ used[d].times = timeMap[userId[d]].by
        /\ pc[d] \in {"all", "compute"} => /\ used[d].input = used[d].times
                                           /\ userId[used[d].times] = userId[d]
                                           /\ zSetBy[used[d].times] = d
        /\ pc[d] = "compute" => used[d].all = used[d].times
        /\ pc[d] = "done" => /\ used[d].input = used[d].times
                             /\ used[d].all = used[d].times
                             /\ used[d].z = d
  <2> SUFFICES ASSUME NEW d \in Calcs, userId[d] \notin clash' PROVE Good(d)'
    BY DEF CalcAlone, Alone
  <2>0. d \in Requests /\ Alone(d) /\ Good(d)
    BY <1>3 DEF Requests, Alone, CalcAlone, LoneInv
  <2>1. CASE d # c /\ userId[d] = u
    <3>1. ~UnderWay(d) /\ pc'[d] = pc[d] /\ used'[d] = used[d]
      BY <1>2, <1>3, <1>4, <2>0, <2>1
    <3>2. QED
      BY <2>0, <3>1 DEF UnderWay, Ended
  <2>2. CASE d # c /\ userId[d] # u
    <3>1. pc'[d] = pc[d] /\ used'[d] = used[d]
      BY <1>3, <1>4, <2>0, <2>2
    <3>2. pc[d] \in {"all", "compute"} => zSetBy'[used[d].times] = zSetBy[used[d].times]
      <4>1. CASE ReadTimes(c)
        <5>1. userId[timeMap[u].by] = u
          BY <1>0, <4>1 DEF ReadTimes, SlabInv, ResultsAreOwn
        <5>2. zSetBy' = [zSetBy EXCEPT ![timeMap[u].by] = c]
          BY <4>1 DEF ReadTimes
        <5>3. pc[d] \in {"all", "compute"} =>
                used[d].times # timeMap[u].by /\ used[d].times \in Runs
          BY <2>0, <2>2, <5>1 DEF SlabInv, CalcReady
        <5>4. QED
          BY <1>0, <5>2, <5>3 DEF TypeOK
      <4>2. CASE ~ReadTimes(c)
        BY <4>2 DEF Calc, ReadInput, Refuse, ReadAll, Compute
      <4>3. QED
        BY <4>1, <4>2
    <3>3. QED
      BY <1>4, <2>0, <3>1, <3>2
  <2>3. CASE d = c
    <3>1. CASE ReadInput(c) \/ Refuse(c)
      BY <1>0, <2>3, <3>1 DEF ReadInput, Refuse, Goto, TypeOK, cacheVars
    <3>2. CASE ReadTimes(c)
      <4>1. \A r \in Runs : userId[r] = u => ~UnderWay(r)
        BY <1>2, <1>3, <2>3
      <4>2. timeMap[u].by = inputParam[u] /\ userId[timeMap[u].by] = u
        BY <1>0, <2>0, <2>3, <3>2, <4>1
        DEF AtRest, LoneInv, Alone, ReadTimes, SlabInv, ResultsAreOwn
      <4>3. timeMap[u].by \in Runs
        BY <1>0, <3>2 DEF ReadTimes, TypeOK, Predict
      <4>4. /\ pc[c] = "times" /\ pc'[c] = "all"
            /\ used'[c].input = used[c].input /\ used'[c].times = timeMap[u].by
            /\ zSetBy'[timeMap[u].by] = c
        BY <1>0, <3>2, <4>3 DEF ReadTimes, Goto, TypeOK
      <4>5. QED
        BY <1>4, <2>0, <2>3, <3>2, <4>2, <4>4 DEF ReadTimes
    <3>3. CASE ReadAll(c)
      <4>1. \A r \in Runs : userId[r] = u => ~UnderWay(r)
        BY <1>2, <1>3, <2>3
      <4>2. pc[c] = "all" /\ timeMap[u] # Null
        BY <2>0, <2>3, <3>3 DEF ReadAll, Goto
      <4>3. slabAll[u] = timeMap[u]
        BY <1>0, <4>1, <4>2 DEF SlabInv, PairFromOneRun, UnderWay, Ended
      <4>4. /\ pc'[c] \in {"error", "compute"}
            /\ used'[c].input = used[c].input /\ used'[c].times = used[c].times
            /\ used'[c].all = slabAll[u].by
            /\ zSetBy' = zSetBy
        BY <1>0, <3>3 DEF ReadAll, Goto, TypeOK
      <4>5. QED
        BY <2>0, <2>3, <4>2, <4>3, <4>4
    <3>4. CASE Compute(c)
      <4>1. /\ pc[c] = "compute" /\ pc'[c] = "done"
            /\ used'[c].input = used[c].input /\ used'[c].times = used[c].times
            /\ used'[c].all = used[c].all /\ used'[c].z = zSetBy[used[c].times]
        BY <1>0, <3>4 DEF Compute, Goto, TypeOK
      <4>2. QED
        BY <2>0, <2>3, <4>1
    <3>5. QED
      BY <3>1, <3>2, <3>3, <3>4 DEF Calc
  <2>4. QED
    BY <2>1, <2>2, <2>3
<1>8. QED
  BY <1>1, <1>5, <1>6, <1>7 DEF LoneInv

LEMMA LoneInvariant == Spec => []LoneInv
<1>1. Init => LoneInv
  BY InitLone
<1>2. SlabInv /\ LoneInv /\ [Next]_vars => LoneInv'
  <2> SUFFICES ASSUME SlabInv, LoneInv, [Next]_vars PROVE LoneInv'
    OBVIOUS
  <2>1. CASE UNCHANGED vars
    BY <2>1
    DEF LoneInv, Sole, RunAlone, AtRest, CalcAlone, UnderWay, Ended, Alone, InMonitor,
        vars, cacheVars
  <2>2. QED
    BY <2>1, RunLone, CalcLone DEF Next
<1>3. QED
  BY <1>1, <1>2, SlabInvariant, PTL DEF Spec

\* A user who sends one request at a time gets the rows of that run or none, in
\* whatever way the runs of others use the shared files meanwhile.
THEOREM LoneAnswers == Spec => []AnswerIsOwn
<1>1. LoneInv => AnswerIsOwn
  BY DEF LoneInv, RunAlone, AnswerIsOwn, Alone
<1>2. QED
  BY <1>1, LoneInvariant, PTL

\* The calculations of such a user take input, time row, x rows and height from
\* one run and one POST, though they read them from the cache without a lock.
THEOREM LoneCalculations == Spec => []CalcIsConsistent
<1>1. LoneInv => CalcIsConsistent
  BY DEF LoneInv, CalcAlone, CalcIsConsistent, Alone
<1>2. QED
  BY <1>1, LoneInvariant, PTL
=============================================================================
