------------------------------- MODULE Engine -------------------------------
(***************************************************************************)
(* The scheduler: Engine::executionLoop() on the worker threads, addJob()  *)
(* on the threads that submit queries, requestDebugState() on the          *)
(* debugger's thread, and waitForEngineIdle(), the barrier job with which  *)
(* the tools wait for the queue to drain.                                  *)
(*                                                                         *)
(* m_mutex is not a variable: every critical section of the code is one    *)
(* action.  What a worker does between two of them touches only the job it *)
(* has popped, which no other thread can reach, so it is part of the       *)
(* critical section that follows.                                          *)
(*                                                                         *)
(* A job is reduced to what performSlice() shows the scheduler: how many   *)
(* of its SolveContexts are still to be visited for the first time, which  *)
(* is where a debugger can halt it.  The root of an empty goal, that of    *)
(* the barrier job, never reaches the debug tests.  A SolveJob never ends  *)
(* a slice READY or BLOCKED, so those two branches are not modelled.       *)
(***************************************************************************)
EXTENDS Naturals, Sequences, FiniteSets

CONSTANTS
  Jobs,         \* the jobs that may be submitted
  Barriers,     \* those among them that waitForEngineIdle() makes
  Adders,       \* the threads that submit jobs
  Workers,      \* the threads in executionLoop()
  Requests,     \* the states the debugger may ask for
  MaxVisits,    \* a bound on the SolveContexts of one job
  None

\* DebugListener::ChangeReason.
ChangeReasons ==
  {"START", "STEP_INTO", "STEP_OVER", "STEP_OUT", "STOP", "DETACH", "REGULAR"}

ASSUME EngineAssumption ==
  /\ Barriers \subseteq Jobs
  /\ None \notin Jobs
  /\ IsFiniteSet(Workers) /\ Workers # {}
  /\ Requests \subseteq ChangeReasons \ {"REGULAR"}
  /\ MaxVisits \in Nat \ {0}

VARIABLES
  readyJobs,            \* m_lsReadyJobs
  isDebugHalted,        \* m_isDebugHalted
  debugTargetState,     \* m_debugTargetState
  nThreadsWaiting,      \* m_nThreadsWaiting
  wpc,                  \* "looping", "waiting", "woken", "slice", "telling"
  running,              \* the job a worker has popped
  jobTarget,            \* Job::m_debugTargetState
  jobState,             \* Job::m_state
  sliceCount,           \* whether a job had no slice, one, or more
  visits,               \* contexts of a job still to be visited first
  apc,                  \* "idle", "adding", "waiting" for the barrier
  adding,               \* the job a thread is submitting or waiting for
  added,                \* history: the jobs in the order they were queued
  finished              \* history: the jobs in the order they finished

engineVars == <<readyJobs, isDebugHalted, debugTargetState, nThreadsWaiting>>
workerVars == <<wpc, running>>
jobVars    == <<jobTarget, jobState, sliceCount, visits>>
adderVars  == <<apc, adding>>
history    == <<added, finished>>
vars == <<engineVars, workerVars, jobVars, adderVars, history>>

-----------------------------------------------------------------------------

JobsIn(s) == {s[k] : k \in 1..Len(s)}

Waiting == {w \in Workers : wpc[w] = "waiting"}

\* m_cond.notify_one(), called only while a thread is counted as waiting.
\* A thread that was notified but has not the mutex back is still counted.
NotifyOne ==
  IF nThreadsWaiting > 0 /\ Waiting # {}
    THEN \E w \in Waiting : wpc' = [wpc EXCEPT ![w] = "woken"]
    ELSE UNCHANGED wpc

Init ==
  /\ readyJobs = <<>>
  /\ isDebugHalted = FALSE
  /\ debugTargetState = "REGULAR"
  /\ nThreadsWaiting = 0
  /\ wpc = [w \in Workers |-> "looping"]
  /\ running = [w \in Workers |-> None]
  /\ jobTarget = [j \in Jobs |-> "REGULAR"]
  /\ jobState = [j \in Jobs |-> "CREATED"]
  /\ sliceCount = [j \in Jobs |-> 0]
  /\ visits \in [Jobs -> 0..MaxVisits]
  /\ \A j \in Jobs : visits[j] = 0 <=> j \in Barriers
  /\ apc = [a \in Adders |-> "idle"]
  /\ adding = [a \in Adders |-> None]
  /\ added = <<>>
  /\ finished = <<>>

-----------------------------------------------------------------------------
(* addJob() and waitForEngineIdle().                                       *)

\* The first critical section: the target state is only copied to the job.
AddJobRead(a, j) ==
  /\ apc[a] = "idle"
  /\ j \in Jobs \ (JobsIn(added) \cup {adding[b] : b \in Adders})
  /\ apc' = [apc EXCEPT ![a] = "adding"]
  /\ adding' = [adding EXCEPT ![a] = j]
  /\ jobTarget' = [jobTarget EXCEPT ![j] = debugTargetState]
  /\ UNCHANGED <<engineVars, workerVars, jobState, sliceCount, visits, history>>

\* A slip: the job is queued without a signal.
AddJobPushSilent(a) ==
  /\ apc[a] = "adding"
  /\ readyJobs' = Append(readyJobs, adding[a])
  /\ added' = Append(added, adding[a])
  /\ apc' = [apc EXCEPT ![a] = IF adding[a] \in Barriers THEN "waiting" ELSE "idle"]
  /\ adding' = [adding EXCEPT ![a] = IF adding[a] \in Barriers THEN @ ELSE None]
  /\ UNCHANGED <<isDebugHalted, debugTargetState, nThreadsWaiting, workerVars,
                 jobVars, finished>>

\* The second: the job is queued and a sleeping worker is signalled.
AddJobPush(a) ==
  /\ apc[a] = "adding"
  /\ readyJobs' = Append(readyJobs, adding[a])
  /\ added' = Append(added, adding[a])
  /\ NotifyOne
  /\ apc' = [apc EXCEPT ![a] = IF adding[a] \in Barriers THEN "waiting" ELSE "idle"]
  /\ adding' = [adding EXCEPT ![a] = IF adding[a] \in Barriers THEN @ ELSE None]
  /\ UNCHANGED <<isDebugHalted, debugTargetState, nThreadsWaiting, running,
                 jobVars, finished>>

\* waitForEngineIdle() returns: onFinished() of the barrier has been called.
IdleReached(a) ==
  /\ apc[a] = "waiting"
  /\ adding[a] \in JobsIn(finished)
  /\ apc' = [apc EXCEPT ![a] = "idle"]
  /\ adding' = [adding EXCEPT ![a] = None]
  /\ UNCHANGED <<engineVars, workerVars, jobVars, history>>

-----------------------------------------------------------------------------
(* executionLoop().                                                        *)

\* A slip: the sleeping thread is not counted.
SleepUncounted(w) ==
  /\ wpc[w] \in {"looping", "woken"}
  /\ readyJobs = <<>> \/ isDebugHalted
  /\ wpc' = [wpc EXCEPT ![w] = "waiting"]
  /\ UNCHANGED <<engineVars, running, jobVars, adderVars, history>>

\* No job, or debug halted: m_cond.wait().  A woken thread takes itself off
\* the count before it looks again.
Sleep(w) ==
  /\ wpc[w] \in {"looping", "woken"}
  /\ readyJobs = <<>> \/ isDebugHalted
  /\ wpc' = [wpc EXCEPT ![w] = "waiting"]
  /\ nThreadsWaiting' = nThreadsWaiting + (IF wpc[w] = "looping" THEN 1 ELSE 0)
  /\ UNCHANGED <<readyJobs, isDebugHalted, debugTargetState, running, jobVars,
                 adderVars, history>>

\* Condition variables may wake spuriously.
SpuriousWake(w) ==
  /\ wpc[w] = "waiting"
  /\ wpc' = [wpc EXCEPT ![w] = "woken"]
  /\ UNCHANGED <<engineVars, running, jobVars, adderVars, history>>

\* The first ready job is popped with the engine's target state, and its
\* slice starts.
TakeJob(w) ==
  LET j == Head(readyJobs) IN
  /\ wpc[w] \in {"looping", "woken"}
  /\ readyJobs # <<>>
  /\ ~isDebugHalted
  /\ readyJobs' = Tail(readyJobs)
  /\ nThreadsWaiting' = nThreadsWaiting - (IF wpc[w] = "woken" THEN 1 ELSE 0)
  /\ wpc' = [wpc EXCEPT ![w] = "slice"]
  /\ running' = [running EXCEPT ![w] = j]
  /\ jobTarget' = [jobTarget EXCEPT ![j] = debugTargetState]
  /\ sliceCount' = [sliceCount EXCEPT ![j] = IF @ = 0 THEN 1 ELSE 2]
  /\ UNCHANGED <<isDebugHalted, debugTargetState, jobState, visits, adderVars,
                 added, finished>>

\* A slip: START halts a job in every slice.
SliceHaltsAlways(j) == visits[j] > 0 /\ jobTarget[j] \in {"START", "STEP_INTO"}

\* performSlice() reaches a context it has not visited before and leaves.
SliceHalts(j) ==
  /\ visits[j] > 0
  /\ \/ sliceCount[j] = 1 /\ jobTarget[j] = "START"
     \/ jobTarget[j] = "STEP_INTO"

\* A slip: the halted job goes to the end of the queue.
HaltBehind(w) ==
  LET j == running[w] IN
  /\ wpc[w] = "slice"
  /\ SliceHalts(j)
  /\ visits' = [visits EXCEPT ![j] = @ - 1]
  /\ jobState' = [jobState EXCEPT ![j] = "DEBUGHALTED"]
  /\ isDebugHalted' = TRUE
  /\ debugTargetState' = "REGULAR"
  /\ readyJobs' = Append(readyJobs, j)
  /\ wpc' = [wpc EXCEPT ![w] = "telling"]
  /\ running' = [running EXCEPT ![w] = None]
  /\ UNCHANGED <<nThreadsWaiting, jobTarget, sliceCount, adderVars, history>>

\* The slice ends DEBUGHALTED.
Halt(w) ==
  LET j == running[w] IN
  /\ wpc[w] = "slice"
  /\ SliceHalts(j)
  /\ visits' = [visits EXCEPT ![j] = @ - 1]
  /\ jobState' = [jobState EXCEPT ![j] = "DEBUGHALTED"]
  /\ isDebugHalted' = TRUE
  /\ debugTargetState' = "REGULAR"
  /\ readyJobs' = <<j>> \o readyJobs
  /\ wpc' = [wpc EXCEPT ![w] = "telling"]
  /\ running' = [running EXCEPT ![w] = None]
  /\ UNCHANGED <<nThreadsWaiting, jobTarget, sliceCount, adderVars, history>>

\* onDebugStateChanged(), called without the mutex after Halt.
TellListener(w) ==
  /\ wpc[w] = "telling"
  /\ wpc' = [wpc EXCEPT ![w] = "looping"]
  /\ UNCHANGED <<engineVars, running, jobVars, adderVars, history>>

\* A slip: the worker keeps its reference to the job it has finished.
FinishKeepsJob(w) ==
  LET j == running[w] IN
  /\ wpc[w] = "slice"
  /\ ~SliceHalts(j)
  /\ visits' = [visits EXCEPT ![j] = 0]
  /\ jobState' = [jobState EXCEPT ![j] = "FINISHED"]
  /\ finished' = Append(finished, j)
  /\ wpc' = [wpc EXCEPT ![w] = "looping"]
  /\ UNCHANGED <<engineVars, running, jobTarget, sliceCount, adderVars, added>>

\* The slice ends FINISHED: the search is exhausted, or STOP or DETACH hit
\* the job in its first slice.  onFinished() is called, the job is dropped.
Finish(w) ==
  LET j == running[w] IN
  /\ wpc[w] = "slice"
  /\ ~SliceHalts(j)
  /\ visits' = [visits EXCEPT ![j] = 0]
  /\ jobState' = [jobState EXCEPT ![j] = "FINISHED"]
  /\ finished' = Append(finished, j)
  /\ wpc' = [wpc EXCEPT ![w] = "looping"]
  /\ running' = [running EXCEPT ![w] = None]
  /\ UNCHANGED <<engineVars, jobTarget, sliceCount, adderVars, added>>

-----------------------------------------------------------------------------

\* A slip: the halt is lifted and nobody is signalled.
RequestDebugStateSilent(r) ==
  /\ debugTargetState' = r
  /\ isDebugHalted' = (isDebugHalted /\ readyJobs = <<>>)
  /\ jobTarget' = [j \in Jobs |->
                     IF readyJobs # <<>> /\ j = Head(readyJobs) THEN r ELSE jobTarget[j]]
  /\ UNCHANGED <<readyJobs, nThreadsWaiting, workerVars, jobState, sliceCount,
                 visits, adderVars, added, finished>>

\* requestDebugState(): run(), stepInto() and the others.
RequestDebugState(r) ==
  /\ debugTargetState' = r
  /\ IF readyJobs = <<>>
       THEN UNCHANGED <<isDebugHalted, jobTarget, wpc>>
       ELSE /\ jobTarget' = [jobTarget EXCEPT ![Head(readyJobs)] = r]
            /\ isDebugHalted' = FALSE
            /\ NotifyOne
  /\ UNCHANGED <<readyJobs, nThreadsWaiting, running, jobState, sliceCount,
                 visits, adderVars, added, finished>>

-----------------------------------------------------------------------------

AdderStep(a) ==
  \/ \E j \in Jobs : AddJobRead(a, j)
  \/ AddJobPush(a)
  \/ IdleReached(a)

WorkerStep(w) ==
  \/ Sleep(w)
  \/ TakeJob(w)
  \/ Halt(w)
  \/ TellListener(w)
  \/ Finish(w)

Next ==
  \/ \E a \in Adders : AdderStep(a)
  \/ \E w \in Workers : WorkerStep(w) \/ SpuriousWake(w)
  \/ \E r \in Requests : RequestDebugState(r)

Spec == Init /\ [][Next]_vars

\* Threads run: a worker that is not asleep continues, and a submission that
\* was begun is completed.  Nothing is assumed of the debugger, of spurious
\* wake-ups or of which jobs are submitted.
Fairness ==
  /\ \A w \in Workers : WF_vars(WorkerStep(w))
  /\ \A a \in Adders : WF_vars(AddJobPush(a)) /\ WF_vars(IdleReached(a))

FairSpec == Spec /\ Fairness

-----------------------------------------------------------------------------
(* Properties.                                                             *)

\* Every variable has its type: the queues hold jobs, the states are those
\* of the C++ enumerations, and a worker runs a job exactly in its slice.
TypeOK ==
  /\ readyJobs \in Seq(Jobs)
  /\ isDebugHalted \in BOOLEAN
  /\ debugTargetState \in ChangeReasons
  /\ nThreadsWaiting \in Nat
  /\ wpc \in [Workers -> {"looping", "waiting", "woken", "slice", "telling"}]
  /\ running \in [Workers -> Jobs \cup {None}]
  /\ \A w \in Workers : running[w] # None <=> wpc[w] = "slice"
  /\ jobTarget \in [Jobs -> ChangeReasons]
  /\ jobState \in [Jobs -> {"CREATED", "DEBUGHALTED", "FINISHED"}]
  /\ sliceCount \in [Jobs -> 0..2]
  /\ visits \in [Jobs -> 0..MaxVisits]
  /\ apc \in [Adders -> {"idle", "adding", "waiting"}]
  /\ adding \in [Adders -> Jobs \cup {None}]
  /\ \A a \in Adders : adding[a] # None <=> apc[a] # "idle"
  /\ added \in Seq(Jobs)
  /\ finished \in Seq(Jobs)

\* While the engine is debug halted, the job at the front of the ready queue
\* is one that halted: getDebugStack(), getDebugLocation() and
\* getDebugProperties() inspect that front job, and the next request is
\* handed to it.
HaltedJobInFront ==
  isDebugHalted =>
    /\ readyJobs # <<>>
    /\ jobState[Head(readyJobs)] = "DEBUGHALTED"

\* No wake-up is lost: with a job to run and no debugger halting the engine,
\* some worker is awake.  addJob() and requestDebugState() signal only when
\* the count of sleepers says somebody sleeps.
NoLostWakeup ==
  readyJobs # <<>> /\ ~isDebugHalted => Waiting # Workers

\* With one worker, jobs finish in the order they were queued, whatever the
\* debugger does: so the barrier of waitForEngineIdle() finishes after every
\* query that was submitted before it.
FinishInOrder ==
  Cardinality(Workers) = 1 =>
    /\ Len(finished) <= Len(added)
    /\ \A k \in 1..Len(finished) : finished[k] = added[k]

\* With one worker the scheduler is a queue, whatever signals, halts and
\* debuggers do within it: the job in its hands comes first, and a job that
\* is halted or put back has not moved.
TheWorker == CHOOSE w \in Workers : TRUE

InHand == IF running[TheWorker] = None THEN <<>> ELSE <<running[TheWorker]>>

Queue == INSTANCE JobQueue WITH pending <- InHand \o readyJobs, done <- finished

ImplementsJobQueue == Queue!Spec

\* A queued job finishes, unless the debugger holds the engine halted.
JobsProgress ==
  \A j \in Jobs : j \in JobsIn(readyJobs) ~> (j \in JobsIn(finished) \/ isDebugHalted)

\* A debugger's request that finds the engine halted sets the front job
\* going: that job finishes or halts again at a later context.
RequestResumes ==
  \A j \in Jobs, n \in 0..MaxVisits :
    (/\ ~isDebugHalted
     /\ readyJobs # <<>> /\ j = Head(readyJobs)
     /\ jobState[j] = "DEBUGHALTED" /\ visits[j] = n)
      ~> (j \in JobsIn(finished) \/ visits[j] < n)

=============================================================================
