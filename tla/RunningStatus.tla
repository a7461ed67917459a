---------------------------- MODULE RunningStatus ----------------------------
(***************************************************************************)
(* The static flag and counter of util/threadPool/RunningStatus.java, by   *)
(* which a request thread learns whether any calculation is still running. *)
(*                                                                         *)
(* operateRunningTask is synchronized, so it is one step.  addRunningTask  *)
(* is not: it stores TRUE into isRunning (MarkRunning) and only then calls *)
(* operateRunningTask(1), so a module that uses this one has to take the   *)
(* two steps separately.  isRunning is not volatile; every store to it is  *)
(* followed or surrounded by a monitor operation of the same thread and    *)
(* the reader sleeps between two reads (an opaque native call HotSpot does *)
(* not move a load across), so a read returns the latest store.            *)
(***************************************************************************)
EXTENDS Integers

VARIABLES
  isRunning,  \* the flag getStateResult polls
  taskCnt     \* tasks added and not yet deleted

statusVars == <<isRunning, taskCnt>>

StatusInit ==
  /\ isRunning = FALSE
  /\ taskCnt = 0

\* First statement of addRunningTask, outside the lock.
MarkRunning ==
  /\ isRunning' = TRUE
  /\ UNCHANGED taskCnt

\* Mutant: the counter is tested before it is changed.
operateTestedFirst(i) ==
  /\ taskCnt' = taskCnt + i
  /\ isRunning' = (isRunning /\ taskCnt # 0)

\* Mutant: the last task but one resets the flag.
operateEagerly(i) ==
  /\ taskCnt' = taskCnt + i
  /\ isRunning' = (isRunning /\ taskCnt + i > 1)

\* The flag is reset, never set, under the lock.
operateRunningTask(i) ==
  /\ taskCnt' = taskCnt + i
  /\ isRunning' = (isRunning /\ taskCnt + i # 0)

deleteRunningTask == operateRunningTask(-1)
=============================================================================
