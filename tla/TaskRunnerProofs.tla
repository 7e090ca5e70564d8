-------------------------- MODULE TaskRunnerProofs --------------------------
(***************************************************************************)
(* RunAllWithLimit is correct for every number of tasks and every limit:   *)
(* never more tasks than the limit, no return before all are over, and the *)
(* result is an error exactly when a task failed.                          *)
(***************************************************************************)
EXTENDS TaskRunner, FiniteSetTheorems, TLAPS

\* The goroutines that hold a token of sem, and those that wg counts.
Holding == {t \in Tasks : task[t] \in {"running", "reporting", "releasing"}}
Counted == Holding \cup {t \in Tasks : task[t] = "ending"}

\* The loop has passed exactly the tasks that have been started.
LoopInv ==
  /\ \A t \in Tasks : task[t] = "none" <=> t >= next
  /\ caller = "acquiring" => next <= NumTasks
  /\ caller \in {"waiting", "returned"} => next = NumTasks + 1

\* The semaphore and the wait group count what they are meant to count.
CountInv ==
  /\ sem = Cardinality(Holding)
  /\ wg = Cardinality(Counted) + (IF caller = "acquiring" THEN 1 ELSE 0)

\* errCh is closed by the return, when all goroutines are over.
CloseInv ==
  /\ open <=> caller # "returned"
  /\ ReturnsAfterAll

\* An error is on its way to errCh, in it, or returned.
ErrorInv ==
  /\ \A t \in Tasks : task[t] = "reporting" => t \in failed
  /\ \A t \in failed : task[t] \notin {"none", "running"}
  /\ errCh # <<>> => errCh[1] \in failed
  /\ open /\ errCh = <<>> => \A t \in failed : task[t] = "reporting"
  /\ ReturnsAnError

RunnerIInv ==
  /\ RunnerTypeOK
  /\ LoopInv
  /\ CountInv
  /\ CloseInv
  /\ ErrorInv

-----------------------------------------------------------------------------
(* Counting *)

\* A set of tasks is finite, and no larger than the range it lies in.
LEMMA TaskSets ==
  ASSUME NEW S \in SUBSET Tasks
  PROVE  IsFiniteSet(S) /\ Cardinality(S) \in Nat
<1>1. IsFiniteSet(Tasks)
  BY FS_Interval, RunnerConfig DEF Tasks
<1> QED  BY <1>1, FS_Subset, FS_CardinalityType

LEMMA TasksBelow ==
  ASSUME NEW S \in SUBSET Tasks, NEW n \in Nat, \A t \in S : t <= n
  PROVE  Cardinality(S) <= n
<1>1. S \in SUBSET (1..n)
  BY RunnerConfig DEF Tasks
<1>2. IsFiniteSet(1..n) /\ Cardinality(1..n) <= n
  BY FS_Interval
<1>3. Cardinality(S) <= Cardinality(1..n)
  BY <1>1, <1>2, FS_Subset
<1>4. Cardinality(S) \in Nat /\ Cardinality(1..n) \in Nat
  BY <1>2, TaskSets, FS_CardinalityType
<1> QED  BY <1>2, <1>3, <1>4

\* What one task's step does to the size of a set of tasks.
LEMMA OneMore ==
  ASSUME NEW S \in SUBSET Tasks, NEW t \in Tasks, t \notin S
  PROVE  Cardinality(S \cup {t}) = Cardinality(S) + 1
BY TaskSets, FS_AddElement

LEMMA OneLess ==
  ASSUME NEW S \in SUBSET Tasks, NEW t \in S
  PROVE  Cardinality(S \ {t}) = Cardinality(S) - 1 /\ Cardinality(S) > 0
<1>1. Cardinality(S \ {t}) = Cardinality(S) - 1
  BY TaskSets, FS_RemoveElement
<1>2. Cardinality(S \ {t}) \in Nat /\ Cardinality(S) \in Nat
  <2>1. S \ {t} \in SUBSET Tasks
    OBVIOUS
  <2> QED  BY <2>1, TaskSets
<1> QED  BY <1>1, <1>2

-----------------------------------------------------------------------------
(* The invariant holds initially and every step preserves it. *)

LEMMA RunnerInitial == RunnerInit => RunnerIInv
<1> SUFFICES ASSUME RunnerInit PROVE RunnerIInv
  OBVIOUS
<1>1. RunnerTypeOK /\ LoopInv /\ CloseInv /\ ErrorInv
  BY RunnerConfig DEF RunnerInit, RunnerTypeOK, LoopInv, CloseInv, ErrorInv,
     ReturnsAfterAll, ReturnsAnError, Tasks
<1>2. Holding = {} /\ Counted = {}
  BY DEF RunnerInit, Holding, Counted
<1>3. CountInv
  BY <1>2, FS_EmptySet DEF RunnerInit, CountInv
<1> QED  BY <1>1, <1>3 DEF RunnerIInv

LEMMA AddTaskKeepsInv ==
  ASSUME RunnerIInv, AddTask
  PROVE  RunnerIInv'
<1> USE RunnerConfig
<1>1. Holding' = Holding /\ Counted' = Counted
  BY DEF AddTask, Holding, Counted
<1>2. Cardinality(Counted) <= NumTasks - 1
  <2>1. \A t \in Counted : t <= next - 1
    BY DEF RunnerIInv, RunnerTypeOK, LoopInv, Counted, Holding, Tasks
  <2>2. next \in Nat /\ next - 1 \in Nat /\ next <= NumTasks
    BY DEF AddTask, RunnerIInv, RunnerTypeOK
  <2>3. Counted \in SUBSET Tasks
    BY DEF Counted, Holding
  <2>4. Cardinality(Counted) <= next - 1 /\ Cardinality(Counted) \in Nat
    BY <2>1, <2>2, <2>3, TasksBelow, TaskSets
  <2> QED  BY <2>2, <2>4
<1>3. wg = Cardinality(Counted) /\ sem = Cardinality(Holding)
  <2>1. Counted \in SUBSET Tasks
    BY DEF Counted, Holding
  <2> QED  BY <2>1, TaskSets DEF AddTask, RunnerIInv, CountInv
<1>4. RunnerTypeOK' /\ LoopInv' /\ CloseInv' /\ ErrorInv'
  BY <1>2, <1>3 DEF AddTask, RunnerIInv, RunnerTypeOK, LoopInv, CloseInv,
     ErrorInv, ReturnsAfterAll, ReturnsAnError, Tasks
<1>5. CountInv'
  BY <1>1, <1>3 DEF AddTask, CountInv
<1> QED  BY <1>4, <1>5 DEF RunnerIInv

LEMMA StartTaskKeepsInv ==
  ASSUME RunnerIInv, StartTask
  PROVE  RunnerIInv'
<1> USE RunnerConfig
<1>1. next \in Tasks /\ task[next] = "none"
  BY DEF StartTask, RunnerIInv, RunnerTypeOK, LoopInv, Tasks
<1>2. /\ next \notin Holding /\ Holding' = Holding \cup {next}
      /\ next \notin Counted /\ Counted' = Counted \cup {next}
  BY <1>1 DEF StartTask, RunnerIInv, RunnerTypeOK, Holding, Counted
<1>3. /\ Cardinality(Holding') = Cardinality(Holding) + 1
      /\ Cardinality(Counted') = Cardinality(Counted) + 1
  <2>1. Holding \in SUBSET Tasks /\ Counted \in SUBSET Tasks
    BY DEF Holding, Counted
  <2> QED  BY <1>1, <1>2, <2>1, OneMore
<1>4. RunnerTypeOK' /\ LoopInv' /\ CloseInv' /\ ErrorInv'
  <2>1. RunnerTypeOK'
    BY <1>1 DEF StartTask, RunnerIInv, RunnerTypeOK, LoopInv, Tasks
  <2>2. LoopInv'
    BY <1>1 DEF StartTask, RunnerIInv, RunnerTypeOK, LoopInv, Tasks
  <2>3. CloseInv'
    BY <1>1 DEF StartTask, RunnerIInv, RunnerTypeOK, CloseInv, ReturnsAfterAll
  <2>4. ErrorInv'
    BY <1>1 DEF StartTask, RunnerIInv, RunnerTypeOK, ErrorInv, ReturnsAnError
  <2> QED  BY <2>1, <2>2, <2>3, <2>4
<1>5. CountInv'
  <2>1. Cardinality(Holding) \in Nat /\ Cardinality(Counted) \in Nat
    <3>1. Holding \in SUBSET Tasks /\ Counted \in SUBSET Tasks
      BY DEF Holding, Counted
    <3> QED  BY <3>1, TaskSets
  <2> QED  BY <1>3, <2>1 DEF StartTask, RunnerIInv, CountInv
<1> QED  BY <1>4, <1>5 DEF RunnerIInv

LEMMA CallerEndsKeepsInv ==
  ASSUME RunnerIInv, EndOfTasks \/ Join
  PROVE  RunnerIInv'
<1> USE RunnerConfig
<1>1. Holding' = Holding /\ Counted' = Counted
  BY DEF EndOfTasks, Join, Holding, Counted
<1>2. CountInv'
  BY <1>1 DEF EndOfTasks, Join, RunnerIInv, CountInv
<1>3. CASE EndOfTasks
  <2>1. RunnerTypeOK' /\ LoopInv' /\ CloseInv' /\ ErrorInv'
    BY <1>3 DEF EndOfTasks, RunnerIInv, RunnerTypeOK, LoopInv, CloseInv,
       ErrorInv, ReturnsAfterAll, ReturnsAnError, Tasks
  <2> QED  BY <1>2, <2>1 DEF RunnerIInv
<1>4. CASE Join
  <2>1. Counted = {}
    <3>1. Counted \in SUBSET Tasks
      BY DEF Counted, Holding
    <3>2. Cardinality(Counted) = 0
      BY <1>4, <3>1, TaskSets DEF Join, RunnerIInv, CountInv
    <3> QED  BY <3>1, <3>2, TaskSets, FS_EmptySet
  <2>2. \A t \in Tasks : task[t] = "ended"
    BY <1>4, <2>1 DEF Join, RunnerIInv, RunnerTypeOK, LoopInv, Counted, Holding,
       Tasks
  <2>3. RunnerTypeOK'
    <3>1. errCh # <<>> => Head(errCh) \in Tasks
      BY DEF RunnerIInv, RunnerTypeOK
    <3>2. <<>> \in Seq(Tasks) /\ Len(<<>>) <= 1
      OBVIOUS
    <3>3. result' \in 0..NumTasks /\ errCh' = <<>>
      BY <1>4, <3>1 DEF Join, Tasks
    <3> QED  BY <1>4, <3>2, <3>3 DEF Join, RunnerIInv, RunnerTypeOK
  <2>4. LoopInv' /\ CloseInv'
    BY <1>4, <2>2 DEF Join, RunnerIInv, LoopInv, CloseInv, ReturnsAfterAll
  <2>5. ErrorInv'
    <3>1. errCh = <<>> => failed = {}
      BY <1>4, <2>2 DEF Join, RunnerIInv, RunnerTypeOK, ErrorInv, CloseInv
    <3>2. ReturnsAnError'
      BY <1>4, <3>1 DEF Join, RunnerIInv, RunnerTypeOK, ErrorInv, ReturnsAnError
    <3> QED  BY <1>4, <2>2, <3>2 DEF Join, RunnerIInv, RunnerTypeOK, ErrorInv
  <2> QED  BY <1>2, <2>3, <2>4, <2>5 DEF RunnerIInv
<1> QED  BY <1>3, <1>4

\* A running task that returns still holds its token and is still counted.
LEMMA ReturnKeepsInv ==
  ASSUME RunnerIInv, NEW t \in Tasks, TaskSucceeds(t) \/ TaskFails(t) \/ Report(t)
  PROVE  RunnerIInv'
<1> USE RunnerConfig
<1>1. /\ task[t] \in {"running", "reporting"}
      /\ task' = [task EXCEPT ![t] = task'[t]]
      /\ task'[t] \in {"reporting", "releasing"}
  BY DEF TaskSucceeds, TaskFails, Report, TaskGoes, RunnerIInv, RunnerTypeOK
<1>2. Holding' = Holding /\ Counted' = Counted
  BY <1>1 DEF Holding, Counted, RunnerIInv, RunnerTypeOK
<1>3. UNCHANGED <<callerVars, wg, sem, open>>
  BY DEF TaskSucceeds, TaskFails, Report
<1>4. CountInv'
  BY <1>2, <1>3 DEF RunnerIInv, CountInv, callerVars
<1>5. RunnerTypeOK'
  <2>1. errCh' \in Seq(Tasks) /\ Len(errCh') <= 1 /\ failed' \subseteq Tasks
    <3>1. <<t>> \in Seq(Tasks) /\ Len(<<t>>) = 1
      OBVIOUS
    <3>2. errCh' = errCh \/ errCh' = <<t>>
      BY DEF TaskSucceeds, TaskFails, Report
    <3>3. failed' \subseteq Tasks
      BY DEF TaskSucceeds, TaskFails, Report, RunnerIInv, RunnerTypeOK
    <3>4. errCh \in Seq(Tasks) /\ Len(errCh) <= 1
      BY DEF RunnerIInv, RunnerTypeOK
    <3>5. CASE errCh' = errCh
      BY <3>3, <3>4, <3>5
    <3>6. CASE errCh' = <<t>>
      BY <3>1, <3>3, <3>6
    <3> QED  BY <3>2, <3>5, <3>6
  <2> QED  BY <1>1, <1>3, <2>1 DEF RunnerIInv, RunnerTypeOK, callerVars
<1>6. open /\ caller # "returned"
  BY <1>1 DEF RunnerIInv, CloseInv, ReturnsAfterAll
<1>7. LoopInv' /\ CloseInv'
  BY <1>1, <1>3, <1>6 DEF RunnerIInv, RunnerTypeOK, LoopInv, CloseInv,
     ReturnsAfterAll, callerVars
<1>6x. ErrorInv'
  <2>1. CASE TaskSucceeds(t)
    BY <1>3, <1>6, <2>1 DEF TaskSucceeds, TaskGoes, RunnerIInv, RunnerTypeOK,
       ErrorInv, ReturnsAnError, callerVars
  <2>2. CASE TaskFails(t)
    BY <1>3, <1>6, <2>2 DEF TaskFails, TaskGoes, RunnerIInv, RunnerTypeOK,
       ErrorInv, ReturnsAnError, callerVars
  <2>3. CASE Report(t)
    <3>1. /\ task[t] = "reporting" /\ task' = [task EXCEPT ![t] = "releasing"]
          /\ failed' = failed /\ t \in failed
      BY <2>3 DEF Report, TaskGoes, RunnerIInv, ErrorInv
    <3>2. errCh' # <<>> /\ errCh'[1] \in failed
      BY <2>3, <3>1 DEF Report, RunnerIInv, ErrorInv
    <3> QED  BY <1>3, <1>6, <3>1, <3>2 DEF RunnerIInv, RunnerTypeOK, ErrorInv,
             ReturnsAnError, callerVars
  <2> QED  BY <2>1, <2>2, <2>3
<1> QED  BY <1>4, <1>5, <1>7, <1>6x DEF RunnerIInv

LEMMA ReleaseKeepsInv ==
  ASSUME RunnerIInv, NEW t \in Tasks, Release(t)
  PROVE  RunnerIInv'
<1> USE RunnerConfig
<1>1. task[t] = "releasing" /\ task' = [task EXCEPT ![t] = "ending"]
  BY DEF Release, TaskGoes
<1>2. t \in Holding /\ Holding' = Holding \ {t} /\ Counted' = Counted
  BY <1>1 DEF Holding, Counted, RunnerIInv, RunnerTypeOK
<1>3. Cardinality(Holding') = Cardinality(Holding) - 1
  <2>1. Holding \in SUBSET Tasks
    BY DEF Holding
  <2> QED  BY <1>2, <2>1, OneLess
<1>4. CountInv'
  BY <1>2, <1>3 DEF Release, RunnerIInv, CountInv, callerVars
<1>5. RunnerTypeOK' /\ LoopInv' /\ CloseInv' /\ ErrorInv'
  BY <1>1 DEF Release, RunnerIInv, RunnerTypeOK, LoopInv, CloseInv, ErrorInv,
     ReturnsAfterAll, ReturnsAnError, callerVars
<1> QED  BY <1>4, <1>5 DEF RunnerIInv

LEMMA DoneKeepsInv ==
  ASSUME RunnerIInv, NEW t \in Tasks, Done(t)
  PROVE  RunnerIInv'
<1> USE RunnerConfig
<1>1. task[t] = "ending" /\ task' = [task EXCEPT ![t] = "ended"]
  BY DEF Done, TaskGoes
<1>2. t \in Counted /\ Counted' = Counted \ {t} /\ Holding' = Holding
  BY <1>1 DEF Holding, Counted, RunnerIInv, RunnerTypeOK
<1>3. /\ Cardinality(Counted') = Cardinality(Counted) - 1
      /\ Cardinality(Counted) > 0 /\ Cardinality(Counted) \in Nat
  <2>1. Counted \in SUBSET Tasks
    BY DEF Counted, Holding
  <2> QED  BY <1>2, <2>1, OneLess, TaskSets
<1>4. CountInv'
  BY <1>2, <1>3 DEF Done, RunnerIInv, CountInv, callerVars
<1>5. wg > 0
  BY <1>3 DEF RunnerIInv, CountInv
<1>6. RunnerTypeOK' /\ LoopInv' /\ CloseInv' /\ ErrorInv'
  BY <1>1, <1>5 DEF Done, RunnerIInv, RunnerTypeOK, LoopInv, CloseInv, ErrorInv,
     ReturnsAfterAll, ReturnsAnError, callerVars
<1> QED  BY <1>4, <1>6 DEF RunnerIInv

\* The strengthened invariant holds in every reachable state.
THEOREM RunnerInvariance == RunnerSpec => []RunnerIInv
<1>1. RunnerInit => RunnerIInv
  BY RunnerInitial
<1>2. RunnerIInv /\ [RunnerNext]_runnerVars => RunnerIInv'
  <2> SUFFICES ASSUME RunnerIInv, [RunnerNext]_runnerVars PROVE RunnerIInv'
    OBVIOUS
  <2>1. CASE CallerStep
    BY <2>1, AddTaskKeepsInv, StartTaskKeepsInv, CallerEndsKeepsInv DEF CallerStep
  <2>2. ASSUME NEW t \in Tasks, TaskStep(t) PROVE RunnerIInv'
    BY <2>2, ReturnKeepsInv, ReleaseKeepsInv, DoneKeepsInv DEF TaskStep
  <2>3. CASE UNCHANGED runnerVars
    BY <2>3 DEF runnerVars, callerVars, RunnerIInv, RunnerTypeOK, LoopInv,
       CountInv, CloseInv, ErrorInv, ReturnsAfterAll, ReturnsAnError, Holding,
       Counted
  <2> QED  BY <2>1, <2>2, <2>3 DEF RunnerNext
<1> QED  BY <1>1, <1>2, PTL DEF RunnerSpec

-----------------------------------------------------------------------------
(* What follows *)

\* RunAllWithLimit's variables always have their types: sem never exceeds its
\* capacity and the wait group's counter never becomes negative.
THEOREM RunnerTypeCorrect == RunnerSpec => []RunnerTypeOK
<1>1. RunnerIInv => RunnerTypeOK
  BY DEF RunnerIInv
<1> QED  BY <1>1, RunnerInvariance, PTL

\* Whatever the number of tasks, no more than Limit of them run at a time.
THEOREM LimitKept == RunnerSpec => []AtMostLimit
<1>1. RunnerIInv => AtMostLimit
  <2> SUFFICES ASSUME RunnerIInv PROVE AtMostLimit
    OBVIOUS
  <2> DEFINE Running == {t \in Tasks : task[t] \in {"running", "reporting"}}
  <2>1. Holding \in SUBSET Tasks /\ Running \in SUBSET Tasks
    BY DEF Holding
  <2>2. Running \in SUBSET Holding
    BY DEF Holding
  <2>3. Cardinality(Running) <= Cardinality(Holding)
    BY <2>1, <2>2, TaskSets, FS_Subset
  <2>4. Cardinality(Running) \in Nat /\ Cardinality(Holding) \in Nat
    BY <2>1, TaskSets
  <2>5. Cardinality(Holding) <= Limit
    BY DEF RunnerIInv, RunnerTypeOK, CountInv
  <2>6. Cardinality(Running) <= Limit
    BY <2>3, <2>4, <2>5, RunnerConfig
  <2> QED  BY <2>6 DEF AtMostLimit
<1> QED  BY <1>1, RunnerInvariance, PTL

\* The call outlives every goroutine it started, and no goroutine finds errCh
\* closed.
THEOREM AllTasksEnd == RunnerSpec => []ReturnsAfterAll
<1>1. RunnerIInv => ReturnsAfterAll
  BY DEF RunnerIInv, CloseInv
<1> QED  BY <1>1, RunnerInvariance, PTL

\* The call returns nil if and only if no task failed, and otherwise the error
\* of a task.
THEOREM ErrorsAreReturned == RunnerSpec => []ReturnsAnError
<1>1. RunnerIInv => ReturnsAnError
  BY DEF RunnerIInv, ErrorInv
<1> QED  BY <1>1, RunnerInvariance, PTL
-----------------------------------------------------------------------------
(* The call goes on until it returns, and it does not go on for ever. What  *)
(* CallReturns says under fairness is that these two meet.                  *)

\* The guards of the steps: what the caller and a goroutine need to go on.
CallerCanGoOn ==
  \/ caller = "adding"
  \/ caller = "acquiring" /\ sem < Limit
  \/ caller = "waiting" /\ wg = 0

TaskCanGoOn(t) ==
  \/ task[t] \in {"running", "reporting", "ending"}
  \/ task[t] = "releasing" /\ sem > 0

\* Until the call returns its caller or one of its goroutines can go on, and no
\* goroutine ever waits: its error finds room or is dropped, and its deferred
\* <-sem finds the token it put there, or another's.
NeverStuck ==
  /\ caller # "returned" => CallerCanGoOn \/ \E t \in Tasks : TaskCanGoOn(t)
  /\ \A t \in Tasks : task[t] \notin {"none", "ended"} => TaskCanGoOn(t)

\* The tasks that have yet to leave the phase ph of a goroutine.
NotPast(ph) ==
  LET upTo == [running   |-> {"none", "running"},
               reporting |-> {"none", "running", "reporting"},
               releasing |-> {"none", "running", "reporting", "releasing"},
               ending    |-> {"none", "running", "reporting", "releasing", "ending"}]
  IN  {t \in Tasks : task[t] \in upTo[ph]}

CallerStepsLeft ==
  2 * (NumTasks + 1 - next)
    + (CASE caller = "adding" -> 2
         [] caller \in {"acquiring", "waiting"} -> 1
         [] caller = "returned" -> 0)

\* A bound of the steps that the caller and the goroutines have still to make.
StepsLeft ==
  CallerStepsLeft + Cardinality(NotPast("running")) + Cardinality(NotPast("reporting"))
    + Cardinality(NotPast("releasing")) + Cardinality(NotPast("ending"))

\* A set that a goroutine of its own is counted in is not empty.
LEMMA HoldersWait ==
  ASSUME NEW S \in SUBSET Tasks
  PROVE  Cardinality(S) > 0 <=> S # {}
<1>1. IsFiniteSet(S) /\ Cardinality(S) \in Nat
  BY TaskSets
<1> QED  BY <1>1, FS_EmptySet

\* The invariant keeps the call from being stuck.
LEMMA InvNeverStuck == RunnerIInv => NeverStuck
<1> SUFFICES ASSUME RunnerIInv PROVE NeverStuck
  OBVIOUS
<1> USE RunnerConfig
<1>1. Holding \in SUBSET Tasks /\ Counted \in SUBSET Tasks
  BY DEF Holding, Counted
<1>2. \A t \in Tasks : task[t] \notin {"none", "ended"} => TaskCanGoOn(t)
  <2> SUFFICES ASSUME NEW t \in Tasks, task[t] \notin {"none", "ended"}
               PROVE  TaskCanGoOn(t)
    OBVIOUS
  <2>1. task[t] \in {"running", "reporting", "releasing", "ending"}
    BY DEF RunnerIInv, RunnerTypeOK
  <2>2. CASE task[t] = "releasing"
    <3>1. t \in Holding
      BY <2>2 DEF Holding
    <3>2. sem > 0
      BY <1>1, <3>1, HoldersWait DEF RunnerIInv, CountInv
    <3> QED  BY <2>2, <3>2 DEF TaskCanGoOn
  <2> QED  BY <2>1, <2>2 DEF TaskCanGoOn
<1>3. caller # "returned" => CallerCanGoOn \/ \E t \in Tasks : TaskCanGoOn(t)
  <2>1. CASE caller = "acquiring"
    <3>1. sem < Limit \/ sem > 0
      BY DEF RunnerIInv, RunnerTypeOK
    <3>2. CASE sem > 0
      <4>1. PICK t \in Holding : TRUE
        BY <1>1, <3>2, HoldersWait DEF RunnerIInv, CountInv
      <4>2. t \in Tasks /\ TaskCanGoOn(t)
        BY <1>2, <4>1 DEF Holding
      <4> QED  BY <4>2
    <3> QED  BY <2>1, <3>1, <3>2 DEF CallerCanGoOn
  <2>2. CASE caller = "waiting"
    <3>1. wg = Cardinality(Counted) /\ wg \in Nat
      BY <1>1, <2>2, TaskSets DEF RunnerIInv, CountInv, RunnerTypeOK
    <3>2. CASE wg > 0
      <4>1. PICK t \in Counted : TRUE
        BY <1>1, <3>1, <3>2, HoldersWait
      <4>2. t \in Tasks /\ TaskCanGoOn(t)
        BY <1>2, <4>1 DEF Counted, Holding
      <4> QED  BY <4>2
    <3> QED  BY <2>2, <3>1, <3>2 DEF CallerCanGoOn
  <2> QED  BY <2>1, <2>2 DEF CallerCanGoOn, RunnerIInv, RunnerTypeOK
<1> QED  BY <1>2, <1>3 DEF NeverStuck

\* RunAllWithLimit never deadlocks, for every number of tasks and every limit: with
\* a limit of 1 as with more tokens than tasks, and whatever tasks fail.
THEOREM CallNeverStuck == RunnerSpec => []NeverStuck
BY InvNeverStuck, RunnerInvariance, PTL

\* The phases that a task's step and a task that stays leave to be counted.
LEMMA PhasesShrink ==
  ASSUME RunnerIInv, NEW ph \in {"running", "reporting", "releasing", "ending"},
         \/ CallerStep
         \/ \E t \in Tasks : TaskStep(t)
  PROVE  /\ NotPast(ph)' \subseteq NotPast(ph)
         /\ NotPast(ph) \in SUBSET Tasks
         /\ CallerStep => NotPast(ph)' = NotPast(ph)
<1>1. NotPast(ph) \in SUBSET Tasks
  BY DEF NotPast
<1>2. CASE StartTask
  <2>1. next \in Tasks /\ task[next] = "none"
    BY <1>2 DEF StartTask, RunnerIInv, RunnerTypeOK, LoopInv, Tasks
  <2>2. task' = [task EXCEPT ![next] = "running"] /\ task \in [Tasks -> {"none", "running", "reporting", "releasing", "ending", "ended"}]
    BY <1>2 DEF StartTask, RunnerIInv, RunnerTypeOK
  <2> QED  BY <1>1, <2>1, <2>2 DEF NotPast
<1>3. CASE AddTask \/ EndOfTasks \/ Join
  BY <1>1, <1>3 DEF AddTask, EndOfTasks, Join, NotPast
<1>4. ASSUME NEW t \in Tasks, TaskStep(t)
      PROVE  NotPast(ph)' \subseteq NotPast(ph)
  BY <1>4 DEF TaskStep, TaskSucceeds, TaskFails, Report, Release, Done, TaskGoes, NotPast,
     RunnerIInv, RunnerTypeOK
<1>5. ASSUME NEW t \in Tasks, TaskStep(t) PROVE ~CallerStep
  BY <1>5 DEF TaskStep, CallerStep, TaskSucceeds, TaskFails, Report, Release, Done, TaskGoes,
     AddTask, StartTask, EndOfTasks, Join, callerVars, RunnerIInv, RunnerTypeOK
<1> QED  BY <1>1, <1>2, <1>3, <1>4, <1>5 DEF CallerStep

\* The step of a goroutine takes it out of the phase it was in.
LEMMA TaskLeavesPhase ==
  ASSUME RunnerIInv, NEW t \in Tasks, TaskStep(t)
  PROVE  \E ph \in {"running", "reporting", "releasing", "ending"} :
            t \in NotPast(ph) /\ t \notin NotPast(ph)'
<1>1. PICK ph \in {"running", "reporting", "releasing", "ending"} : task[t] = ph
  BY DEF TaskStep, TaskSucceeds, TaskFails, Report, Release, Done, TaskGoes
<1>2. t \in NotPast(ph)
  BY <1>1 DEF NotPast
<1>3. t \notin NotPast(ph)'
  BY <1>1 DEF TaskStep, TaskSucceeds, TaskFails, Report, Release, Done, TaskGoes, NotPast,
     RunnerIInv, RunnerTypeOK
<1> QED  BY <1>1, <1>2, <1>3

\* A subset is no larger, and smaller if something is missing from it.
LEMMA SmallerSet ==
  ASSUME NEW S \in SUBSET Tasks, NEW T, T \subseteq S
  PROVE  /\ Cardinality(T) \in Nat /\ Cardinality(S) \in Nat
         /\ Cardinality(T) <= Cardinality(S)
         /\ T # S => Cardinality(T) < Cardinality(S)
<1>1. IsFiniteSet(S) /\ Cardinality(S) \in Nat /\ Cardinality(T) \in Nat
  BY TaskSets
<1> QED  BY <1>1, FS_Subset
\* A sum falls when one of its terms does and none grows.
LEMMA SumFalls ==
  ASSUME NEW k \in Nat, NEW a \in Nat, NEW b \in Nat, NEW c \in Nat, NEW d \in Nat,
         NEW k1 \in Nat, NEW a1 \in Nat, NEW b1 \in Nat, NEW c1 \in Nat, NEW d1 \in Nat,
         k1 <= k, a1 <= a, b1 <= b, c1 <= c, d1 <= d,
         k1 < k \/ a1 < a \/ b1 < b \/ c1 < c \/ d1 < d
  PROVE  /\ k + a + b + c + d \in Nat /\ k1 + a1 + b1 + c1 + d1 \in Nat
         /\ k1 + a1 + b1 + c1 + d1 < k + a + b + c + d
OBVIOUS

\* Every step brings the call nearer to its end.
LEMMA StepsFall ==
  ASSUME RunnerIInv, RunnerNext
  PROVE  StepsLeft \in Nat /\ StepsLeft' \in Nat /\ StepsLeft' < StepsLeft
<1> USE RunnerConfig
<1> DEFINE Phases == {"running", "reporting", "releasing", "ending"}
<1>1. \A ph \in Phases : /\ NotPast(ph)' \subseteq NotPast(ph)
                         /\ NotPast(ph) \in SUBSET Tasks
                         /\ CallerStep => NotPast(ph)' = NotPast(ph)
  BY PhasesShrink DEF RunnerNext
<1>2. \A ph \in Phases : /\ Cardinality(NotPast(ph)') \in Nat
                         /\ Cardinality(NotPast(ph)) \in Nat
                         /\ Cardinality(NotPast(ph)') <= Cardinality(NotPast(ph))
                         /\ NotPast(ph)' # NotPast(ph) =>
                              Cardinality(NotPast(ph)') < Cardinality(NotPast(ph))
  BY <1>1, SmallerSet
<1>3. CallerStepsLeft \in Nat
  BY DEF RunnerIInv, RunnerTypeOK, CallerStepsLeft
<1>4. CallerStepsLeft' \in Nat
  <2>1. RunnerTypeOK'
    BY AddTaskKeepsInv, StartTaskKeepsInv, CallerEndsKeepsInv, ReturnKeepsInv,
       ReleaseKeepsInv, DoneKeepsInv DEF RunnerNext, CallerStep, TaskStep, RunnerIInv
  <2> QED  BY <2>1 DEF RunnerTypeOK, CallerStepsLeft
<1>5. /\ CallerStepsLeft' <= CallerStepsLeft
      /\ \/ CallerStepsLeft' < CallerStepsLeft
         \/ \E ph \in Phases : NotPast(ph)' # NotPast(ph)
  <2>1. CASE CallerStep
    <3> USE DEF CallerStepsLeft, RunnerIInv, RunnerTypeOK
    <3>1. CASE AddTask
      BY <3>1 DEF AddTask
    <3>2. CASE StartTask
      BY <3>2, SMTT(30) DEF StartTask
    <3>3. CASE EndOfTasks
      BY <3>3 DEF EndOfTasks
    <3>4. CASE Join
      BY <3>4 DEF Join
    <3> QED  BY <2>1, <3>1, <3>2, <3>3, <3>4 DEF CallerStep
  <2>2. CASE \E t \in Tasks : TaskStep(t)
    <3>1. PICK t \in Tasks : TaskStep(t)
      BY <2>2
    <3>2. CallerStepsLeft' = CallerStepsLeft
      BY <3>1 DEF TaskStep, TaskSucceeds, TaskFails, Report, Release, Done, callerVars,
         CallerStepsLeft
    <3>3. \E ph \in Phases : NotPast(ph)' # NotPast(ph)
      BY <3>1, TaskLeavesPhase
    <3> QED  BY <1>3, <3>2, <3>3
  <2> QED  BY <2>1, <2>2 DEF RunnerNext
<1>6. PICK k \in Nat, a \in Nat, b \in Nat, c \in Nat, d \in Nat :
        /\ k = CallerStepsLeft
        /\ a = Cardinality(NotPast("running")) /\ b = Cardinality(NotPast("reporting"))
        /\ c = Cardinality(NotPast("releasing")) /\ d = Cardinality(NotPast("ending"))
  BY <1>2, <1>3
<1>7. PICK k1 \in Nat, a1 \in Nat, b1 \in Nat, c1 \in Nat, d1 \in Nat :
        /\ k1 = CallerStepsLeft'
        /\ a1 = Cardinality(NotPast("running")') /\ b1 = Cardinality(NotPast("reporting")')
        /\ c1 = Cardinality(NotPast("releasing")') /\ d1 = Cardinality(NotPast("ending")')
  BY <1>2, <1>4
<1>8. k1 <= k /\ a1 <= a /\ b1 <= b /\ c1 <= c /\ d1 <= d
  BY <1>2, <1>5, <1>6, <1>7
<1>9. k1 < k \/ a1 < a \/ b1 < b \/ c1 < c \/ d1 < d
  BY <1>2, <1>5, <1>6, <1>7
<1>10. StepsLeft = k + a + b + c + d /\ StepsLeft' = k1 + a1 + b1 + c1 + d1
  BY <1>6, <1>7 DEF StepsLeft
<1> QED  BY <1>8, <1>9, <1>10, SumFalls

\* The bound: no call makes more than 6 steps for each task, and 2.
LEMMA FirstStepsLeft == RunnerInit => StepsLeft <= 6 * NumTasks + 2
<1> SUFFICES ASSUME RunnerInit PROVE StepsLeft <= 6 * NumTasks + 2
  OBVIOUS
<1> USE RunnerConfig
<1>1. Cardinality(Tasks) = NumTasks /\ IsFiniteSet(Tasks)
  BY FS_Interval DEF Tasks
<1>2. \A ph \in {"running", "reporting", "releasing", "ending"} : NotPast(ph) = Tasks
  BY DEF RunnerInit, NotPast
<1>3. CallerStepsLeft = 2 * NumTasks + 2
  BY DEF RunnerInit, CallerStepsLeft
<1> QED  BY <1>1, <1>2, <1>3 DEF StepsLeft

\* A call of RunAllWithLimit makes no more than that number of steps, whatever the
\* order they are taken in: with CallNeverStuck, it returns under every schedule
\* that goes on as long as something can.
THEOREM EveryStepCounts ==
  RunnerSpec => /\ StepsLeft <= 6 * NumTasks + 2
                /\ [][StepsLeft' \in Nat /\ StepsLeft' < StepsLeft]_runnerVars
<1>1. RunnerIInv /\ [RunnerNext]_runnerVars
        => [StepsLeft' \in Nat /\ StepsLeft' < StepsLeft]_runnerVars
  BY StepsFall
<1> QED  BY <1>1, FirstStepsLeft, RunnerInvariance, PTL DEF RunnerSpec
=============================================================================
