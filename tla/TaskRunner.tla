----------------------------- MODULE TaskRunner -----------------------------
(***************************************************************************)
(* RunAllWithLimit (internal/service/util/concurrency.go): a caller starts *)
(* one goroutine per task, no more than limit at a time, waits for all of  *)
(* them and returns the first error that was reported, or nil.  RunAll is  *)
(* the same without the semaphore: RunAllWithLimit with a limit no smaller *)
(* than the number of tasks.                                               *)
(***************************************************************************)
EXTENDS Naturals, Sequences, FiniteSets

CONSTANTS
  NumTasks,  \* len(tasks)
  Limit      \* limit; 0 would make the first sem <- true wait for ever

ASSUME RunnerConfig == NumTasks \in Nat /\ Limit \in Nat \ {0}

Tasks == 1..NumTasks

VARIABLES
  caller,   \* where the caller is
  next,     \* the task its loop is at
  wg,       \* the counter of the WaitGroup
  sem,      \* the number of tokens in the channel sem
  task,     \* where the goroutine of a task is
  errCh,    \* the buffer of errCh: the tasks whose error is in it
  open,     \* errCh is not closed
  result,   \* the task whose error is returned, 0 for nil
  failed    \* history: the tasks that have returned an error

callerVars == <<caller, next, result>>
runnerVars == <<callerVars, wg, sem, task, errCh, open, failed>>

RunnerTypeOK ==
  /\ caller \in {"adding", "acquiring", "waiting", "returned"}
  /\ next \in 1..(NumTasks + 1)
  /\ wg \in 0..NumTasks /\ sem \in 0..Limit
  /\ task \in [Tasks -> {"none", "running", "reporting", "releasing", "ending",
                         "ended"}]
  /\ errCh \in Seq(Tasks) /\ Len(errCh) <= 1
  /\ open \in BOOLEAN
  /\ result \in 0..NumTasks
  /\ failed \subseteq Tasks

RunnerInit ==
  /\ caller = "adding" /\ next = 1 /\ result = 0
  /\ wg = 0 /\ sem = 0 /\ errCh = <<>> /\ open = TRUE
  /\ task = [t \in Tasks |-> "none"]
  /\ failed = {}

-----------------------------------------------------------------------------
(* The caller *)

\* wg.Add(1)
AddTask ==
  /\ caller = "adding" /\ next <= NumTasks
  /\ wg' = wg + 1
  /\ caller' = "acquiring"
  /\ UNCHANGED <<next, sem, task, errCh, open, result, failed>>

\* Mutant of StartTask: the token is not waited for.
StartWithoutToken ==
  /\ caller = "acquiring"
  /\ sem' = sem + 1
  /\ task' = [task EXCEPT ![next] = "running"]
  /\ next' = next + 1 /\ caller' = "adding"
  /\ UNCHANGED <<wg, errCh, open, result, failed>>

\* sem <- true, and the go statement.
StartTask ==
  /\ caller = "acquiring"
  /\ sem < Limit
  /\ sem' = sem + 1
  /\ task' = [task EXCEPT ![next] = "running"]
  /\ next' = next + 1 /\ caller' = "adding"
  /\ UNCHANGED <<wg, errCh, open, result, failed>>

EndOfTasks ==
  /\ caller = "adding" /\ next > NumTasks
  /\ caller' = "waiting"
  /\ UNCHANGED <<next, wg, sem, task, errCh, open, result, failed>>

\* Mutant of Join: the last task is not waited for.
JoinBeforeLast ==
  /\ caller = "waiting" /\ wg <= 1
  /\ open' = FALSE
  /\ result' = IF errCh = <<>> THEN 0 ELSE Head(errCh)
  /\ errCh' = <<>>
  /\ caller' = "returned"
  /\ UNCHANGED <<next, wg, sem, task, failed>>

\* wg.Wait() is over: close(errCh), and return the error in it, if any.
Join ==
  /\ caller = "waiting" /\ wg = 0
  /\ open' = FALSE
  /\ result' = IF errCh = <<>> THEN 0 ELSE Head(errCh)
  /\ errCh' = <<>>
  /\ caller' = "returned"
  /\ UNCHANGED <<next, wg, sem, task, failed>>

-----------------------------------------------------------------------------
(* The goroutine of a task *)

TaskGoes(t, from, to) == task[t] = from /\ task' = [task EXCEPT ![t] = to]

TaskSucceeds(t) ==
  /\ TaskGoes(t, "running", "releasing")
  /\ UNCHANGED <<callerVars, wg, sem, errCh, open, failed>>

TaskFails(t) ==
  /\ TaskGoes(t, "running", "reporting")
  /\ failed' = failed \cup {t}
  /\ UNCHANGED <<callerVars, wg, sem, errCh, open>>

\* Mutants of Report: errCh has no buffer; the send waits for room.
ReportUnbuffered(t) ==
  /\ TaskGoes(t, "reporting", "releasing")
  /\ UNCHANGED <<callerVars, wg, sem, errCh, open, failed>>

ReportWaits(t) ==
  /\ errCh = <<>>
  /\ TaskGoes(t, "reporting", "releasing")
  /\ errCh' = <<t>>
  /\ UNCHANGED <<callerVars, wg, sem, open, failed>>

\* The error goes into errCh if there is room. (The context that is then
\* cancelled is nobody's. That errCh is not closed yet is part of
\* ReturnsAfterAll.)
Report(t) ==
  /\ TaskGoes(t, "reporting", "releasing")
  /\ errCh' = IF errCh = <<>> THEN <<t>> ELSE errCh
  /\ UNCHANGED <<callerVars, wg, sem, open, failed>>

\* The deferred calls run last in, first out: <-sem ...
Release(t) ==
  /\ sem > 0
  /\ TaskGoes(t, "releasing", "ending")
  /\ sem' = sem - 1
  /\ UNCHANGED <<callerVars, wg, errCh, open, failed>>

\* ... then wg.Done().
Done(t) ==
  /\ TaskGoes(t, "ending", "ended")
  /\ wg' = wg - 1
  /\ UNCHANGED <<callerVars, sem, errCh, open, failed>>

-----------------------------------------------------------------------------
CallerStep == AddTask \/ StartTask \/ EndOfTasks \/ Join

TaskStep(t) ==
  TaskSucceeds(t) \/ TaskFails(t) \/ Report(t) \/ Release(t) \/ Done(t)

RunnerNext == CallerStep \/ \E t \in Tasks : TaskStep(t)

RunnerSpec == RunnerInit /\ [][RunnerNext]_runnerVars

\* Goroutines are scheduled fairly, and every task returns.
FairRunnerSpec ==
  /\ RunnerSpec
  /\ WF_runnerVars(CallerStep)
  /\ \A t \in Tasks : WF_runnerVars(TaskStep(t))

-----------------------------------------------------------------------------
(* Properties *)

\* "Run all goroutines with limit": the tasks running at any time are no more
\* than the limit.
AtMostLimit ==
  Cardinality({t \in Tasks : task[t] \in {"running", "reporting"}}) <= Limit

\* The call returns only when every task's goroutine is over: none is left
\* behind, and none reports to a closed errCh, which would panic.
ReturnsAfterAll == ~open => \A t \in Tasks : task[t] = "ended"

\* It returns nil exactly when no task failed, else the error of one that did,
\* however many failed together and whichever came first.
ReturnsAnError ==
  caller = "returned" =>
    IF failed = {} THEN result = 0 ELSE result \in failed

\* The call returns: no task that fails waits for ever to report, and the
\* caller gets every token it waits for.
CallReturns == <>(caller = "returned")
=============================================================================
