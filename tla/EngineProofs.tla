---------------------------- MODULE EngineProofs ----------------------------
(***************************************************************************)
(* For any jobs, submitting threads, workers and requests: the scheduler   *)
(* keeps every job in one place, a halted engine has a halted job in       *)
(* front, and no wake-up is lost.  With one worker, jobs finish in the     *)
(* order they were queued.                                                 *)
(***************************************************************************)
EXTENDS Engine, FiniteSetTheorems, SequenceTheorems, TLAPS

\* The threads m_nThreadsWaiting counts: asleep, or signalled and not yet back.
Counted == {w \in Workers : wpc[w] \in {"waiting", "woken"}}

CountInv == nThreadsWaiting = Cardinality(Counted)

\* A job is being submitted, ready, or in the hands of one worker.
PlaceInv ==
  /\ \A i, k \in 1..Len(readyJobs) : readyJobs[i] = readyJobs[k] => i = k
  /\ \A w \in Workers : running[w] \notin JobsIn(readyJobs)
  /\ \A w, u \in Workers : running[w] = running[u] => w = u \/ running[w] = None
  /\ \A w \in Workers : running[w] # None => running[w] \in JobsIn(added)
  /\ JobsIn(readyJobs) \subseteq JobsIn(added)
  /\ \A a \in Adders : apc[a] = "adding" => adding[a] \notin JobsIn(added)
  /\ \A a, c \in Adders :
       apc[a] = "adding" /\ adding[a] = adding[c] => a = c

\* With one worker: what was queued is what finished, then what runs, then
\* what is ready, in that order.
RunLen(w) == IF running[w] = None THEN 0 ELSE 1

OrderInv(w) ==
  /\ Len(added) = Len(finished) + RunLen(w) + Len(readyJobs)
  /\ \A k \in 1..Len(finished) : finished[k] = added[k]
  /\ running[w] # None => running[w] = added[Len(finished) + 1]
  /\ \A k \in 1..Len(readyJobs) :
       readyJobs[k] = added[Len(finished) + RunLen(w) + k]

-----------------------------------------------------------------------------

\* What appending, popping and pushing in front do to the jobs of a queue.
LEMMA JobsInAppend ==
  ASSUME NEW s \in Seq(Jobs), NEW j \in Jobs
  PROVE  JobsIn(Append(s, j)) = JobsIn(s) \cup {j}
<1>1. Len(Append(s, j)) = Len(s) + 1 /\ Append(s, j)[Len(s) + 1] = j
      /\ \A k \in 1..Len(s) : Append(s, j)[k] = s[k]
  OBVIOUS
<1> QED BY <1>1 DEF JobsIn

\* Popping takes the first job and adds none.
LEMMA JobsInTail ==
  ASSUME NEW s \in Seq(Jobs), s # <<>>
  PROVE  /\ Head(s) \in JobsIn(s)
         /\ JobsIn(Tail(s)) \subseteq JobsIn(s)
<1>1. Len(s) \in Nat \ {0} /\ Head(s) = s[1] /\ Len(Tail(s)) = Len(s) - 1
      /\ \A k \in 1..Len(Tail(s)) : Tail(s)[k] = s[k + 1]
  OBVIOUS
<1> QED BY <1>1 DEF JobsIn

\* Pushing in front shifts the others by one.
LEMMA JobsInFront ==
  ASSUME NEW s \in Seq(Jobs), NEW j \in Jobs
  PROVE  /\ <<j>> \o s \in Seq(Jobs)
         /\ Len(<<j>> \o s) = Len(s) + 1
         /\ (<<j>> \o s)[1] = j
         /\ \A k \in 2..(Len(s) + 1) : (<<j>> \o s)[k] = s[k - 1]
         /\ JobsIn(<<j>> \o s) = JobsIn(s) \cup {j}
         /\ <<j>> \o s # <<>>
         /\ Head(<<j>> \o s) = j
<1>1. /\ <<j>> \o s \in Seq(Jobs)
      /\ Len(<<j>> \o s) = Len(s) + 1
      /\ (<<j>> \o s)[1] = j
      /\ \A k \in 2..(Len(s) + 1) : (<<j>> \o s)[k] = s[k - 1]
  OBVIOUS
<1>2. JobsIn(<<j>> \o s) = JobsIn(s) \cup {j}
  <2> DEFINE t == <<j>> \o s
  <2>1. ASSUME NEW x \in JobsIn(t) PROVE x \in JobsIn(s) \cup {j}
    <3>1. PICK k \in 1..(Len(s) + 1) : x = t[k]
      BY <1>1 DEF JobsIn
    <3>2. CASE k = 1
      BY <1>1, <3>1, <3>2
    <3>3. CASE k # 1
      <4>1. k - 1 \in 1..Len(s) /\ x = s[k - 1]
        BY <1>1, <3>1, <3>3
      <4> QED BY <4>1 DEF JobsIn
    <3> QED BY <3>2, <3>3
  <2>2. ASSUME NEW x \in JobsIn(s) PROVE x \in JobsIn(t)
    <3>1. PICK k \in 1..Len(s) : x = s[k]
      BY DEF JobsIn
    <3>2. k + 1 \in 1..Len(t) /\ t[k + 1] = x
      BY <1>1, <3>1
    <3> QED BY <3>2 DEF JobsIn
  <2>3. j \in JobsIn(t)
    <3>1. 1 \in 1..Len(t) /\ t[1] = j
      BY <1>1
    <3> QED BY <3>1 DEF JobsIn
  <2> HIDE DEF t
  <2>4. JobsIn(t) = JobsIn(s) \cup {j}
    BY <2>1, <2>2, <2>3
  <2> QED BY <2>4 DEF t
<1>3. <<j>> \o s # <<>>
  BY <1>1
<1>4. Head(<<j>> \o s) = j
  BY <1>1, <1>3
<1> QED BY <1>1, <1>2, <1>3, <1>4

-----------------------------------------------------------------------------

\* What the count of sleepers is in the next state, from what a step does to
\* one thread, or to none.
LEMMA CountStays ==
  ASSUME CountInv, nThreadsWaiting' = nThreadsWaiting, Counted' = Counted
  PROVE  CountInv'
  BY DEF CountInv

\* A thread goes to sleep and counts itself.
LEMMA CountGrows ==
  ASSUME CountInv, EngineAssumption, NEW w \in Workers, w \notin Counted,
         nThreadsWaiting' = nThreadsWaiting + 1, Counted' = Counted \cup {w}
  PROVE  CountInv'
<1>1. IsFiniteSet(Counted)
  BY FS_Subset DEF Counted, EngineAssumption
<1>2. Cardinality(Counted \cup {w}) = Cardinality(Counted) + 1
  BY <1>1, FS_AddElement
<1> QED BY <1>2 DEF CountInv

\* A woken thread takes itself off the count.
LEMMA CountShrinks ==
  ASSUME CountInv, EngineAssumption, NEW w \in Counted,
         nThreadsWaiting' = nThreadsWaiting - 1, Counted' = Counted \ {w}
  PROVE  CountInv'
<1>1. IsFiniteSet(Counted)
  BY FS_Subset DEF Counted, EngineAssumption
<1>2. Cardinality(Counted \ {w}) = Cardinality(Counted) - 1
  BY <1>1, FS_RemoveElement
<1> QED BY <1>2 DEF CountInv

\* A signal turns at most one sleeper into a woken thread.
LEMMA NotifyCounted ==
  ASSUME wpc \in [Workers -> {"looping", "waiting", "woken", "slice", "telling"}],
         NotifyOne
  PROVE  /\ wpc' \in [Workers -> {"looping", "waiting", "woken", "slice", "telling"}]
         /\ Counted' = Counted
         /\ \A w \in Workers : wpc'[w] = "slice" <=> wpc[w] = "slice"
         /\ Waiting' \subseteq Waiting
         /\ nThreadsWaiting > 0 /\ Waiting # {} => Waiting' # Waiting
<1>1. CASE nThreadsWaiting > 0 /\ Waiting # {}
  <2>1. PICK w \in Waiting : wpc' = [wpc EXCEPT ![w] = "woken"]
    BY <1>1 DEF NotifyOne
  <2> QED BY <2>1 DEF Waiting, Counted
<1>2. CASE ~(nThreadsWaiting > 0 /\ Waiting # {})
  BY <1>2 DEF NotifyOne, Waiting, Counted
<1> QED BY <1>1, <1>2


IInv == TypeOK /\ CountInv /\ PlaceInv /\ HaltedJobInFront /\ NoLostWakeup

\* Init establishes the inductive invariant.
LEMMA InitIInv == Init => IInv
<1> SUFFICES ASSUME Init PROVE IInv
  OBVIOUS
<1>1. TypeOK
  <2>1. isDebugHalted \in BOOLEAN
    BY DEF Init
  <2>2. /\ readyJobs \in Seq(Jobs) /\ added \in Seq(Jobs) /\ finished \in Seq(Jobs)
        /\ nThreadsWaiting \in Nat
        /\ debugTargetState \in ChangeReasons
    BY DEF Init, ChangeReasons
  <2>3. /\ wpc \in [Workers -> {"looping", "waiting", "woken", "slice", "telling"}]
        /\ running \in [Workers -> Jobs \cup {None}]
        /\ \A w \in Workers : running[w] # None <=> wpc[w] = "slice"
    BY DEF Init
  <2>4. /\ jobTarget \in [Jobs -> ChangeReasons]
        /\ jobState \in [Jobs -> {"CREATED", "DEBUGHALTED", "FINISHED"}]
        /\ sliceCount \in [Jobs -> 0..2]
        /\ visits \in [Jobs -> 0..MaxVisits]
    BY DEF Init, ChangeReasons
  <2>5. /\ apc \in [Adders -> {"idle", "adding", "waiting"}]
        /\ adding \in [Adders -> Jobs \cup {None}]
        /\ \A a \in Adders : adding[a] # None <=> apc[a] # "idle"
    BY DEF Init
  <2> QED BY <2>1, <2>2, <2>3, <2>4, <2>5 DEF TypeOK
<1>2. CountInv
  <2>1. Counted = {}
    BY DEF Init, Counted
  <2> QED BY <2>1, FS_EmptySet DEF Init, CountInv
<1>3. PlaceInv
  BY DEF Init, PlaceInv, JobsIn
<1>4. HaltedJobInFront /\ NoLostWakeup
  BY DEF Init, HaltedJobInFront, NoLostWakeup
<1> QED BY <1>1, <1>2, <1>3, <1>4 DEF IInv

\* A worker with a job has one of Jobs, and only in its slice.
LEMMA RunningIsJob ==
  ASSUME TypeOK, NEW w \in Workers, wpc[w] = "slice"
  PROVE  running[w] \in Jobs
  BY DEF TypeOK

\* Type correctness of each step.
LEMMA NextTypeOK ==
  ASSUME EngineAssumption, TypeOK, CountInv, [Next]_vars
  PROVE  TypeOK'
<1>1. CASE UNCHANGED vars
  BY <1>1 DEF TypeOK, vars, engineVars, workerVars, jobVars, adderVars, history
<1>2. ASSUME NEW a \in Adders, NEW j \in Jobs, AddJobRead(a, j)
      PROVE TypeOK'
  BY <1>2, EngineAssumption DEF TypeOK, AddJobRead, EngineAssumption, engineVars, workerVars, history
<1>3. ASSUME NEW a \in Adders, AddJobPush(a) PROVE TypeOK'
  <2>1. adding[a] \in Jobs
    BY <1>3 DEF TypeOK, AddJobPush
  <2>2. /\ wpc' \in [Workers -> {"looping", "waiting", "woken", "slice", "telling"}]
        /\ \A w \in Workers : wpc'[w] = "slice" <=> wpc[w] = "slice"
    BY <1>3, NotifyCounted DEF TypeOK, AddJobPush
  <2> QED BY <1>3, <2>1, <2>2, EngineAssumption
          DEF TypeOK, AddJobPush, jobVars, EngineAssumption
<1>4. ASSUME NEW a \in Adders, IdleReached(a) PROVE TypeOK'
  BY <1>4 DEF TypeOK, IdleReached, engineVars, workerVars, jobVars, history
<1>5. ASSUME NEW w \in Workers, Sleep(w) PROVE TypeOK'
  BY <1>5 DEF TypeOK, Sleep, jobVars, adderVars, history
<1>6. ASSUME NEW w \in Workers, SpuriousWake(w) PROVE TypeOK'
  BY <1>6 DEF TypeOK, SpuriousWake, engineVars, jobVars, adderVars, history
<1>7. ASSUME NEW w \in Workers, TakeJob(w) PROVE TypeOK'
  <2>1. Head(readyJobs) \in Jobs /\ Tail(readyJobs) \in Seq(Jobs)
    BY <1>7 DEF TypeOK, TakeJob
  <2>2. nThreadsWaiting' \in Nat
    <3>1. CASE wpc[w] = "woken"
      <4>1. w \in Counted /\ IsFiniteSet(Counted)
        BY <3>1, EngineAssumption, FS_Subset DEF Counted, EngineAssumption
      <4>2. Cardinality(Counted) \in Nat /\ Cardinality(Counted) # 0
        BY <4>1, FS_CardinalityType, FS_EmptySet
      <4> QED BY <1>7, <3>1, <4>2 DEF CountInv, TakeJob
    <3>2. CASE wpc[w] # "woken"
      BY <1>7, <3>2 DEF TypeOK, TakeJob
    <3> QED BY <3>1, <3>2
  <2>3. Head(readyJobs) # None
    BY <2>1, EngineAssumption DEF EngineAssumption
  <2> QED BY <1>7, <2>1, <2>2, <2>3 DEF TypeOK, TakeJob, adderVars
<1>8. ASSUME NEW w \in Workers, Halt(w) PROVE TypeOK'
  <2>1. running[w] \in Jobs
    BY <1>8, RunningIsJob DEF Halt
  <2>2. readyJobs' \in Seq(Jobs)
    BY <1>8, <2>1, JobsInFront DEF Halt, TypeOK
  <2>3. visits' \in [Jobs -> 0..MaxVisits]
    BY <1>8, <2>1, EngineAssumption DEF Halt, SliceHalts, TypeOK, EngineAssumption
  <2> QED BY <1>8, <2>1, <2>2, <2>3 DEF TypeOK, Halt, adderVars, history, ChangeReasons
<1>9. ASSUME NEW w \in Workers, TellListener(w) PROVE TypeOK'
  BY <1>9 DEF TypeOK, TellListener, engineVars, jobVars, adderVars, history
<1>10. ASSUME NEW w \in Workers, Finish(w) PROVE TypeOK'
  <2>1. running[w] \in Jobs
    BY <1>10, RunningIsJob DEF Finish
  <2> QED BY <1>10, <2>1, EngineAssumption DEF TypeOK, Finish, engineVars, adderVars, EngineAssumption
<1>11. ASSUME NEW r \in Requests, RequestDebugState(r) PROVE TypeOK'
  <2>1. r \in ChangeReasons
    BY EngineAssumption DEF EngineAssumption
  <2>2. /\ wpc' \in [Workers -> {"looping", "waiting", "woken", "slice", "telling"}]
        /\ \A w \in Workers : wpc'[w] = "slice" <=> wpc[w] = "slice"
    BY <1>11, NotifyCounted DEF TypeOK, RequestDebugState
  <2>3. jobTarget' \in [Jobs -> ChangeReasons]
    BY <1>11, <2>1 DEF TypeOK, RequestDebugState
  <2>7. isDebugHalted' \in BOOLEAN
    <3>1. CASE readyJobs = <<>>
      BY <1>11, <3>1 DEF TypeOK, RequestDebugState
    <3>2. CASE readyJobs # <<>>
      BY <1>11, <3>2 DEF RequestDebugState
    <3> QED BY <3>1, <3>2
  <2>4. debugTargetState' \in ChangeReasons
    BY <1>11, <2>1 DEF RequestDebugState
  <2>5. \A w \in Workers : running'[w] # None <=> wpc'[w] = "slice"
    BY <1>11, <2>2 DEF TypeOK, RequestDebugState
  <2>6. UNCHANGED <<readyJobs, nThreadsWaiting, running, jobState, sliceCount,
                    visits, adderVars, added, finished>>
    BY <1>11 DEF RequestDebugState
  <2> QED BY <2>2, <2>3, <2>4, <2>5, <2>6, <2>7 DEF TypeOK, adderVars
<1> QED BY <1>1, <1>2, <1>3, <1>4, <1>5, <1>6, <1>7, <1>8, <1>9, <1>10, <1>11
        DEF Next, AdderStep, WorkerStep

\* The count of sleepers stays exact.
LEMMA NextCountInv ==
  ASSUME EngineAssumption, TypeOK, CountInv, [Next]_vars
  PROVE  CountInv'
<1> USE DEF Counted
<1>1. CASE UNCHANGED vars
  BY <1>1, CountStays DEF vars, engineVars, workerVars
<1>2. ASSUME NEW a \in Adders, NEW j \in Jobs, AddJobRead(a, j) PROVE CountInv'
  BY <1>2, CountStays DEF AddJobRead, engineVars, workerVars
<1>3. ASSUME NEW a \in Adders, AddJobPush(a) PROVE CountInv'
  BY <1>3, NotifyCounted, CountStays DEF AddJobPush, TypeOK
<1>4. ASSUME NEW a \in Adders, IdleReached(a) PROVE CountInv'
  BY <1>4, CountStays DEF IdleReached, engineVars, workerVars
<1>5. ASSUME NEW w \in Workers, Sleep(w) PROVE CountInv'
  <2>1. CASE wpc[w] = "looping"
    <3>1. nThreadsWaiting' = nThreadsWaiting + 1 /\ w \notin Counted
      BY <1>5, <2>1 DEF Sleep
    <3>2. Counted' = Counted \cup {w}
      BY <1>5, <2>1 DEF Sleep, TypeOK
    <3> QED BY <3>1, <3>2, CountGrows
  <2>2. CASE wpc[w] = "woken"
    <3>1. nThreadsWaiting' = nThreadsWaiting
      BY <1>5, <2>2 DEF Sleep, TypeOK
    <3>2. Counted' = Counted
      BY <1>5, <2>2 DEF Sleep, TypeOK
    <3> QED BY <3>1, <3>2, CountStays
  <2> QED BY <1>5, <2>1, <2>2 DEF Sleep
<1>6. ASSUME NEW w \in Workers, SpuriousWake(w) PROVE CountInv'
  <2>1. Counted' = Counted
    BY <1>6 DEF SpuriousWake, TypeOK
  <2> QED BY <1>6, <2>1, CountStays DEF SpuriousWake, engineVars
<1>7. ASSUME NEW w \in Workers, TakeJob(w) PROVE CountInv'
  <2>1. CASE wpc[w] = "looping"
    <3>1. nThreadsWaiting' = nThreadsWaiting
      BY <1>7, <2>1 DEF TakeJob, TypeOK
    <3>2. Counted' = Counted
      BY <1>7, <2>1 DEF TakeJob, TypeOK
    <3> QED BY <3>1, <3>2, CountStays
  <2>2. CASE wpc[w] = "woken"
    <3>1. nThreadsWaiting' = nThreadsWaiting - 1 /\ w \in Counted
      BY <1>7, <2>2 DEF TakeJob
    <3>2. Counted' = Counted \ {w}
      BY <1>7, <2>2 DEF TakeJob, TypeOK
    <3> QED BY <3>1, <3>2, CountShrinks
  <2> QED BY <1>7, <2>1, <2>2 DEF TakeJob
<1>8. ASSUME NEW w \in Workers, Halt(w) PROVE CountInv'
  <2>1. Counted' = Counted
    BY <1>8 DEF Halt, TypeOK
  <2> QED BY <1>8, <2>1, CountStays DEF Halt
<1>9. ASSUME NEW w \in Workers, TellListener(w) PROVE CountInv'
  <2>1. Counted' = Counted
    BY <1>9 DEF TellListener, TypeOK
  <2> QED BY <1>9, <2>1, CountStays DEF TellListener, engineVars
<1>10. ASSUME NEW w \in Workers, Finish(w) PROVE CountInv'
  <2>1. Counted' = Counted
    BY <1>10 DEF Finish, TypeOK
  <2> QED BY <1>10, <2>1, CountStays DEF Finish, engineVars
<1>11. ASSUME NEW r \in Requests, RequestDebugState(r) PROVE CountInv'
  <2>1. Counted' = Counted
    BY <1>11, NotifyCounted DEF RequestDebugState, TypeOK
  <2> QED BY <1>11, <2>1, CountStays DEF RequestDebugState
<1> QED BY <1>1, <1>2, <1>3, <1>4, <1>5, <1>6, <1>7, <1>8, <1>9, <1>10, <1>11
        DEF Next, AdderStep, WorkerStep


\* Every job stays in one place.
LEMMA NextPlaceInv ==
  ASSUME EngineAssumption, TypeOK, PlaceInv, [Next]_vars
  PROVE  PlaceInv'
<1>1. CASE UNCHANGED vars
  BY <1>1 DEF PlaceInv, JobsIn, vars, engineVars, workerVars, adderVars, history
<1>2. ASSUME NEW a \in Adders, NEW j \in Jobs, AddJobRead(a, j) PROVE PlaceInv'
  <2>1. /\ UNCHANGED <<readyJobs, running, added>>
        /\ j \notin JobsIn(added)
        /\ \A c \in Adders : adding[c] # j
        /\ adding' = [adding EXCEPT ![a] = j]
        /\ apc' = [apc EXCEPT ![a] = "adding"]
    BY <1>2 DEF AddJobRead, engineVars, workerVars, history
  <2>2. JobsIn(readyJobs)' = JobsIn(readyJobs) /\ JobsIn(added)' = JobsIn(added)
    BY <2>1 DEF JobsIn
  <2>3. \A c \in Adders : apc'[c] = "adding" => adding'[c] \notin JobsIn(added)'
    BY <2>1, <2>2 DEF PlaceInv, TypeOK
  <2>4. \A c, d \in Adders : apc'[c] = "adding" /\ adding'[c] = adding'[d] => c = d
    BY <2>1 DEF PlaceInv, TypeOK
  <2> QED BY <2>1, <2>2, <2>3, <2>4 DEF PlaceInv
<1>3. ASSUME NEW a \in Adders, AddJobPush(a) PROVE PlaceInv'
  <2> DEFINE j == adding[a]
  <2>1. j \in Jobs /\ j \notin JobsIn(added) /\ j # None
    BY <1>3, EngineAssumption DEF TypeOK, AddJobPush, PlaceInv, EngineAssumption
  <2>2. /\ readyJobs' = Append(readyJobs, j) /\ added' = Append(added, j)
        /\ running' = running
        /\ adding' = [adding EXCEPT ![a] = IF adding[a] \in Barriers THEN @ ELSE None]
        /\ apc' = [apc EXCEPT ![a] = IF adding[a] \in Barriers THEN "waiting" ELSE "idle"]
    BY <1>3 DEF AddJobPush
  <2>3. /\ JobsIn(readyJobs)' = JobsIn(readyJobs) \cup {j}
        /\ JobsIn(added)' = JobsIn(added) \cup {j}
    <3>1. JobsIn(Append(readyJobs, j)) = JobsIn(readyJobs) \cup {j}
      BY <2>1, JobsInAppend DEF TypeOK
    <3>2. JobsIn(Append(added, j)) = JobsIn(added) \cup {j}
      BY <2>1, JobsInAppend DEF TypeOK
    <3> QED BY <2>2, <3>1, <3>2 DEF JobsIn
  <2>4. \A i, k \in 1..Len(readyJobs') : readyJobs'[i] = readyJobs'[k] => i = k
    <3>1. /\ Len(readyJobs') = Len(readyJobs) + 1
          /\ readyJobs'[Len(readyJobs) + 1] = j
          /\ \A k \in 1..Len(readyJobs) : readyJobs'[k] = readyJobs[k]
      BY <2>1, <2>2 DEF TypeOK
    <3>2. \A k \in 1..Len(readyJobs) : readyJobs[k] # j
      BY <2>1 DEF PlaceInv, JobsIn
    <3>3. Len(readyJobs) \in Nat
      BY DEF TypeOK
    <3> HIDE DEF j
    <3>4. ASSUME NEW i \in 1..Len(readyJobs'), NEW k \in 1..Len(readyJobs'),
                 readyJobs'[i] = readyJobs'[k]
          PROVE  i = k
      <4>1. CASE i = Len(readyJobs) + 1
        BY <3>1, <3>2, <3>3, <3>4, <4>1
      <4>2. CASE k = Len(readyJobs) + 1
        BY <3>1, <3>2, <3>3, <3>4, <4>2
      <4>3. CASE i # Len(readyJobs) + 1 /\ k # Len(readyJobs) + 1
        <5>1. i \in 1..Len(readyJobs) /\ k \in 1..Len(readyJobs)
          BY <3>1, <3>3, <4>3
        <5>2. readyJobs[i] = readyJobs[k]
          BY <3>1, <3>4, <5>1
        <5> QED BY <5>1, <5>2 DEF PlaceInv
      <4> QED BY <4>1, <4>2, <4>3
    <3> QED BY <3>4
  <2>5. \A w \in Workers : running'[w] \notin JobsIn(readyJobs)'
    BY <2>1, <2>2, <2>3 DEF PlaceInv, TypeOK
  <2>6. \A c \in Adders : apc'[c] = "adding" =>
          c # a /\ apc[c] = "adding" /\ adding'[c] = adding[c]
    BY <2>2 DEF TypeOK
  <2>7. \A c \in Adders : apc'[c] = "adding" => adding'[c] \notin JobsIn(added)'
    BY <2>3, <2>6, <1>3 DEF PlaceInv, AddJobPush
  <2>8. \A c, d \in Adders : apc'[c] = "adding" /\ adding'[c] = adding'[d] => c = d
    <3> SUFFICES ASSUME NEW c \in Adders, NEW d \in Adders,
                        apc'[c] = "adding", adding'[c] = adding'[d]
                 PROVE  c = d
      OBVIOUS
    <3>1. c # a /\ apc[c] = "adding" /\ adding'[c] = adding[c] /\ adding[c] # None
      BY <2>6 DEF TypeOK
    <3>2. adding'[d] \in {adding[d], None}
      BY <2>2 DEF TypeOK
    <3>3. adding[c] = adding[d]
      BY <3>1, <3>2
    <3> QED BY <3>1, <3>3 DEF PlaceInv
  <2> QED BY <2>2, <2>3, <2>4, <2>5, <2>7, <2>8 DEF PlaceInv
<1>4. ASSUME NEW a \in Adders, IdleReached(a) PROVE PlaceInv'
  <2>1. /\ UNCHANGED <<readyJobs, running, added>>
        /\ adding' = [adding EXCEPT ![a] = None] /\ apc' = [apc EXCEPT ![a] = "idle"]
    BY <1>4 DEF IdleReached, engineVars, workerVars, history
  <2>2. JobsIn(readyJobs)' = JobsIn(readyJobs) /\ JobsIn(added)' = JobsIn(added)
    BY <2>1 DEF JobsIn
  <2>3. \A c \in Adders : apc'[c] = "adding" =>
          c # a /\ apc[c] = "adding" /\ adding'[c] = adding[c] /\ adding[c] # None
    BY <2>1 DEF TypeOK
  <2>4. \A c, d \in Adders : apc'[c] = "adding" /\ adding'[c] = adding'[d] => c = d
    <3> SUFFICES ASSUME NEW c \in Adders, NEW d \in Adders,
                        apc'[c] = "adding", adding'[c] = adding'[d]
                 PROVE  c = d
      OBVIOUS
    <3>1. adding'[d] \in {adding[d], None}
      BY <2>1 DEF TypeOK
    <3> QED BY <2>3, <3>1 DEF PlaceInv
  <2> QED BY <2>1, <2>2, <2>3, <2>4 DEF PlaceInv
<1>5. ASSUME UNCHANGED <<readyJobs, running, adderVars, added>> PROVE PlaceInv'
  BY <1>5 DEF PlaceInv, JobsIn, adderVars
<1>6. ASSUME NEW w \in Workers, TakeJob(w) PROVE PlaceInv'
  <2> DEFINE j == Head(readyJobs)
  <2>1. /\ readyJobs # <<>> /\ readyJobs' = Tail(readyJobs)
        /\ running' = [running EXCEPT ![w] = j]
        /\ UNCHANGED <<adderVars, added>>
    BY <1>6 DEF TakeJob
  <2>2. /\ Len(readyJobs) \in Nat \ {0} /\ j = readyJobs[1] /\ j \in Jobs
        /\ Len(readyJobs') = Len(readyJobs) - 1
        /\ \A k \in 1..Len(readyJobs') : readyJobs'[k] = readyJobs[k + 1]
    BY <2>1 DEF TypeOK
  <2>3. JobsIn(readyJobs)' \subseteq JobsIn(readyJobs) /\ j \in JobsIn(readyJobs)
    <3>1. j \in JobsIn(readyJobs) /\ JobsIn(Tail(readyJobs)) \subseteq JobsIn(readyJobs)
      BY <2>1, JobsInTail DEF TypeOK
    <3> QED BY <2>1, <3>1 DEF JobsIn
  <2>4. j \notin JobsIn(readyJobs)'
    <3>1. \A k \in 1..Len(readyJobs') : readyJobs'[k] # j
      BY <2>2 DEF PlaceInv
    <3> QED BY <3>1 DEF JobsIn
  <2>5. \A i, k \in 1..Len(readyJobs') : readyJobs'[i] = readyJobs'[k] => i = k
    BY <2>2 DEF PlaceInv
  <2> HIDE DEF j
  <2>6. \A u \in Workers : running'[u] \notin JobsIn(readyJobs)'
    BY <2>1, <2>3, <2>4 DEF PlaceInv, TypeOK
  <2>7. \A u, v \in Workers : running'[u] = running'[v] => u = v \/ running'[u] = None
    BY <2>1, <2>3 DEF PlaceInv, TypeOK
  <2>8. JobsIn(added)' = JobsIn(added)
    BY <2>1 DEF JobsIn
  <2>9. \A u \in Workers : running'[u] # None => running'[u] \in JobsIn(added)'
    BY <2>1, <2>3, <2>8 DEF PlaceInv, TypeOK
  <2> QED BY <2>1, <2>3, <2>5, <2>6, <2>7, <2>8, <2>9 DEF PlaceInv, adderVars
<1>7. ASSUME NEW w \in Workers, Halt(w) PROVE PlaceInv'
  <2> DEFINE j == running[w]
  <2>1. /\ wpc[w] = "slice" /\ readyJobs' = <<j>> \o readyJobs
        /\ running' = [running EXCEPT ![w] = None]
        /\ UNCHANGED <<adderVars, added>>
    BY <1>7 DEF Halt, history
  <2>2. j \in Jobs /\ j # None
    BY <2>1, RunningIsJob, EngineAssumption DEF EngineAssumption
  <2>3. /\ Len(readyJobs') = Len(readyJobs) + 1 /\ readyJobs'[1] = j
        /\ \A k \in 2..(Len(readyJobs) + 1) : readyJobs'[k] = readyJobs[k - 1]
        /\ JobsIn(<<j>> \o readyJobs) = JobsIn(readyJobs) \cup {j}
    BY <2>1, <2>2, JobsInFront DEF TypeOK
  <2>4. JobsIn(readyJobs)' = JobsIn(readyJobs) \cup {j}
    BY <2>1, <2>3 DEF JobsIn
  <2>5. \A k \in 1..Len(readyJobs) : readyJobs[k] # j
    BY DEF PlaceInv, JobsIn
  <2> HIDE DEF j
  <2>6. \A i, k \in 1..Len(readyJobs') : readyJobs'[i] = readyJobs'[k] => i = k
    <3> SUFFICES ASSUME NEW i \in 1..Len(readyJobs'), NEW k \in 1..Len(readyJobs'),
                        readyJobs'[i] = readyJobs'[k]
                 PROVE  i = k
      OBVIOUS
    <3>1. Len(readyJobs) \in Nat
      BY DEF TypeOK
    <3>2. CASE i = 1
      BY <2>3, <2>5, <3>1, <3>2
    <3>3. CASE k = 1
      BY <2>3, <2>5, <3>1, <3>3
    <3>4. CASE i # 1 /\ k # 1
      <4>1. i - 1 \in 1..Len(readyJobs) /\ k - 1 \in 1..Len(readyJobs)
        BY <2>3, <3>1, <3>4
      <4>2. readyJobs[i - 1] = readyJobs[k - 1]
        BY <2>3, <3>1, <3>4
      <4>3. i - 1 = k - 1
        BY <4>1, <4>2 DEF PlaceInv
      <4> QED BY <4>3
    <3> QED BY <3>2, <3>3, <3>4
  <2>7. \A u \in Workers : running'[u] \notin JobsIn(readyJobs)'
    <3> SUFFICES ASSUME NEW u \in Workers PROVE running'[u] \notin JobsIn(readyJobs)'
      OBVIOUS
    <3>1. CASE u = w
      <4>1. running'[u] = None /\ None \notin Jobs
        BY <2>1, <3>1, EngineAssumption DEF TypeOK, EngineAssumption
      <4>2. JobsIn(readyJobs) \subseteq Jobs
        BY DEF TypeOK, JobsIn
      <4> QED BY <2>2, <2>4, <4>1, <4>2
    <3>2. CASE u # w
      BY <2>1, <2>2, <2>4, <3>2 DEF PlaceInv, TypeOK, j
    <3> QED BY <3>1, <3>2
  <2>8. \A u, v \in Workers : running'[u] = running'[v] => u = v \/ running'[u] = None
    BY <2>1 DEF PlaceInv, TypeOK
  <2>9. JobsIn(added)' = JobsIn(added)
    BY <2>1 DEF JobsIn
  <2>10. \A u \in Workers : running'[u] # None => running'[u] \in JobsIn(added)'
    BY <2>1, <2>9 DEF PlaceInv, TypeOK
  <2>11. JobsIn(readyJobs)' \subseteq JobsIn(added)'
    BY <2>2, <2>4, <2>9 DEF PlaceInv, j
  <2> QED BY <2>1, <2>6, <2>7, <2>8, <2>9, <2>10, <2>11 DEF PlaceInv, adderVars
<1>8. ASSUME NEW w \in Workers, Finish(w) PROVE PlaceInv'
  <2>1. /\ UNCHANGED <<readyJobs, adderVars, added>>
        /\ running' = [running EXCEPT ![w] = None]
    BY <1>8 DEF Finish, engineVars
  <2>2. None \notin JobsIn(readyJobs)
    BY EngineAssumption DEF TypeOK, JobsIn, EngineAssumption
  <2>3. JobsIn(readyJobs)' = JobsIn(readyJobs) /\ JobsIn(added)' = JobsIn(added)
    BY <2>1 DEF JobsIn
  <2>4. \A u \in Workers : running'[u] = IF u = w THEN None ELSE running[u]
    BY <2>1 DEF TypeOK
  <2> QED BY <2>1, <2>2, <2>3, <2>4 DEF PlaceInv, adderVars
<1> QED
  <2>1. \A w \in Workers : Sleep(w) \/ SpuriousWake(w) \/ TellListener(w)
          => UNCHANGED <<readyJobs, running, adderVars, added>>
    BY DEF Sleep, SpuriousWake, TellListener, engineVars, history
  <2>2. \A r \in Requests : RequestDebugState(r)
          => UNCHANGED <<readyJobs, running, adderVars, added>>
    BY DEF RequestDebugState
  <2> QED BY <1>1, <1>2, <1>3, <1>4, <1>5, <1>6, <1>7, <1>8, <2>1, <2>2
          DEF Next, AdderStep, WorkerStep


\* While halted, a halted job stays in front.
LEMMA NextHaltedJobInFront ==
  ASSUME EngineAssumption, TypeOK, PlaceInv, HaltedJobInFront, [Next]_vars
  PROVE  HaltedJobInFront'
<1>1. ASSUME UNCHANGED <<readyJobs, isDebugHalted, jobState>>
      PROVE  HaltedJobInFront'
  BY <1>1 DEF HaltedJobInFront
<1>2. ASSUME NEW a \in Adders, AddJobPush(a) PROVE HaltedJobInFront'
  <2> SUFFICES ASSUME isDebugHalted'
               PROVE  readyJobs' # <<>> /\ jobState'[Head(readyJobs')] = "DEBUGHALTED"
    BY DEF HaltedJobInFront
  <2>1. /\ readyJobs # <<>> /\ jobState[Head(readyJobs)] = "DEBUGHALTED"
        /\ readyJobs' = Append(readyJobs, adding[a]) /\ jobState' = jobState
    BY <1>2 DEF HaltedJobInFront, AddJobPush, jobVars
  <2>2. adding[a] \in Jobs
    BY <1>2 DEF TypeOK, AddJobPush
  <2>3. Len(readyJobs) \in Nat /\ Len(readyJobs) > 0 /\ Head(readyJobs) = readyJobs[1]
    BY <2>1 DEF TypeOK
  <2>4. Len(readyJobs') = Len(readyJobs) + 1 /\ readyJobs' \in Seq(Jobs)
    BY <2>1, <2>2 DEF TypeOK
  <2>5. \A k \in 1..Len(readyJobs) : readyJobs'[k] = readyJobs[k]
    BY <2>1, <2>2 DEF TypeOK
  <2>6. readyJobs' # <<>> /\ Head(readyJobs') = readyJobs'[1]
    BY <2>3, <2>4
  <2>7. readyJobs'[1] = readyJobs[1]
    BY <2>3, <2>5
  <2> QED BY <2>1, <2>3, <2>6, <2>7
<1>3. ASSUME NEW w \in Workers, TakeJob(w) PROVE HaltedJobInFront'
  BY <1>3 DEF HaltedJobInFront, TakeJob
<1>4. ASSUME NEW w \in Workers, Halt(w) PROVE HaltedJobInFront'
  <2>1. running[w] \in Jobs
    BY <1>4, RunningIsJob DEF Halt
  <2>2. readyJobs' # <<>> /\ Head(readyJobs') = running[w]
    BY <1>4, <2>1, JobsInFront DEF Halt, TypeOK
  <2>3. jobState'[running[w]] = "DEBUGHALTED"
    BY <1>4, <2>1 DEF Halt, TypeOK
  <2> QED BY <2>2, <2>3 DEF HaltedJobInFront
<1>5. ASSUME NEW w \in Workers, Finish(w) PROVE HaltedJobInFront'
  <2> SUFFICES ASSUME isDebugHalted'
               PROVE  readyJobs' # <<>> /\ jobState'[Head(readyJobs')] = "DEBUGHALTED"
    BY DEF HaltedJobInFront
  <2>1. /\ readyJobs # <<>> /\ jobState[Head(readyJobs)] = "DEBUGHALTED"
        /\ readyJobs' = readyJobs
        /\ jobState' = [jobState EXCEPT ![running[w]] = "FINISHED"]
    BY <1>5 DEF HaltedJobInFront, Finish, engineVars
  <2>2. Head(readyJobs) \in JobsIn(readyJobs) /\ Head(readyJobs) \in Jobs
    BY <2>1, JobsInTail DEF TypeOK
  <2>3. Head(readyJobs) # running[w]
    BY <2>2 DEF PlaceInv
  <2> QED BY <2>1, <2>2, <2>3 DEF TypeOK
<1>6. ASSUME NEW r \in Requests, RequestDebugState(r) PROVE HaltedJobInFront'
  <2>1. CASE readyJobs = <<>>
    BY <1>6, <2>1 DEF HaltedJobInFront, RequestDebugState
  <2>2. CASE readyJobs # <<>>
    BY <1>6, <2>2 DEF HaltedJobInFront, RequestDebugState
  <2> QED BY <2>1, <2>2
<1> QED
  <2>1. \A a \in Adders : (\E j \in Jobs : AddJobRead(a, j)) \/ IdleReached(a)
          => UNCHANGED <<readyJobs, isDebugHalted, jobState>>
    BY DEF AddJobRead, IdleReached, engineVars, jobVars
  <2>2. \A w \in Workers : Sleep(w) \/ SpuriousWake(w) \/ TellListener(w)
          => UNCHANGED <<readyJobs, isDebugHalted, jobState>>
    BY DEF Sleep, SpuriousWake, TellListener, engineVars, jobVars
  <2>3. UNCHANGED vars => UNCHANGED <<readyJobs, isDebugHalted, jobState>>
    BY DEF vars, engineVars, jobVars
  <2> QED BY <1>1, <1>2, <1>3, <1>4, <1>5, <1>6, <2>1, <2>2, <2>3
          DEF Next, AdderStep, WorkerStep

\* A signal is sent whenever a sleeper may be all there is.
LEMMA NotifyAwake ==
  ASSUME EngineAssumption, TypeOK, CountInv, NotifyOne
  PROVE  Waiting' # Workers
<1>1. Waiting \subseteq Workers /\ Waiting' \subseteq Waiting
  BY NotifyCounted DEF Waiting, TypeOK
<1>2. CASE Waiting = {}
  BY <1>1, <1>2, EngineAssumption DEF EngineAssumption
<1>3. CASE Waiting # {}
  <2>1. nThreadsWaiting > 0
    <3>1. IsFiniteSet(Counted) /\ Counted # {}
      BY <1>3, FS_Subset, EngineAssumption DEF Counted, Waiting, EngineAssumption
    <3>2. Cardinality(Counted) \in Nat /\ Cardinality(Counted) # 0
      BY <3>1, FS_CardinalityType, FS_EmptySet
    <3> QED BY <3>2 DEF CountInv
  <2>2. Waiting' # Waiting
    BY <1>3, <2>1, NotifyCounted DEF TypeOK
  <2> QED BY <1>1, <2>2
<1> QED BY <1>2, <1>3

\* No step leaves a job ready with everybody asleep.
LEMMA NextNoLostWakeup ==
  ASSUME EngineAssumption, TypeOK, CountInv, NoLostWakeup, [Next]_vars
  PROVE  NoLostWakeup'
<1>1. ASSUME UNCHANGED <<readyJobs, isDebugHalted, wpc>> PROVE NoLostWakeup'
  BY <1>1 DEF NoLostWakeup, Waiting
<1>2. ASSUME NEW a \in Adders, AddJobPush(a) PROVE NoLostWakeup'
  BY <1>2, NotifyAwake DEF NoLostWakeup, AddJobPush
<1>3. ASSUME NEW w \in Workers, Sleep(w) PROVE NoLostWakeup'
  BY <1>3 DEF NoLostWakeup, Sleep
<1>4. ASSUME NEW w \in Workers, wpc' = [wpc EXCEPT ![w] = wpc'[w]], wpc'[w] # "waiting"
      PROVE  NoLostWakeup'
  <2>1. w \notin Waiting'
    BY <1>4 DEF Waiting
  <2> QED BY <2>1 DEF NoLostWakeup
<1>5. ASSUME NEW w \in Workers,
             SpuriousWake(w) \/ TakeJob(w) \/ Halt(w) \/ TellListener(w) \/ Finish(w)
      PROVE  wpc' = [wpc EXCEPT ![w] = wpc'[w]] /\ wpc'[w] # "waiting"
  BY <1>5 DEF TypeOK, SpuriousWake, TakeJob, Halt, TellListener, Finish
<1>6. ASSUME NEW r \in Requests, RequestDebugState(r) PROVE NoLostWakeup'
  <2>1. CASE readyJobs = <<>>
    BY <1>6, <2>1 DEF NoLostWakeup, RequestDebugState
  <2>2. CASE readyJobs # <<>>
    BY <1>6, <2>2, NotifyAwake DEF NoLostWakeup, RequestDebugState
  <2> QED BY <2>1, <2>2
<1> QED
  <2>1. \A a \in Adders : (\E j \in Jobs : AddJobRead(a, j)) \/ IdleReached(a)
          => UNCHANGED <<readyJobs, isDebugHalted, wpc>>
    BY DEF AddJobRead, IdleReached, engineVars, workerVars
  <2>2. UNCHANGED vars => UNCHANGED <<readyJobs, isDebugHalted, wpc>>
    BY DEF vars, engineVars, workerVars
  <2> QED BY <1>1, <1>2, <1>3, <1>4, <1>5, <1>6, <2>1, <2>2
          DEF Next, AdderStep, WorkerStep


\* The inductive invariant holds of every behaviour: the base of the theorems.
THEOREM Inductive == ASSUME EngineAssumption PROVE Spec => []IInv
<1>1. IInv /\ [Next]_vars => IInv'
  BY NextTypeOK, NextCountInv, NextPlaceInv, NextHaltedJobInFront,
     NextNoLostWakeup DEF IInv
<1> QED BY InitIInv, <1>1, PTL DEF Spec

\* TypeOK, for every number of jobs, threads and contexts.
THEOREM TypeCorrect == ASSUME EngineAssumption PROVE Spec => []TypeOK
<1>1. IInv => TypeOK
  BY DEF IInv
<1> QED BY Inductive, <1>1, PTL

\* What the debugger inspects while the engine is halted is a halted job.
THEOREM InspectsHaltedJob == ASSUME EngineAssumption PROVE Spec => []HaltedJobInFront
<1>1. IInv => HaltedJobInFront
  BY DEF IInv
<1> QED BY Inductive, <1>1, PTL

\* The signal is never withheld from the last sleeper: with any number of
\* workers, a ready job of an engine that is not halted finds one awake.
THEOREM WakeupsKept == ASSUME EngineAssumption PROVE Spec => []NoLostWakeup
<1>1. IInv => NoLostWakeup
  BY DEF IInv
<1> QED BY Inductive, <1>1, PTL

-----------------------------------------------------------------------------
(* One worker: first in, first out.                                        *)

\* The steps of the only worker, and of the others, keep the order.
LEMMA NextOrderInv ==
  ASSUME EngineAssumption, TypeOK, NEW w \in Workers, Workers = {w},
         OrderInv(w), [Next]_vars
  PROVE  OrderInv(w)'
<1>0. /\ Len(added) \in Nat /\ Len(finished) \in Nat /\ Len(readyJobs) \in Nat
      /\ RunLen(w) \in Nat
  BY DEF TypeOK, RunLen
<1>1. ASSUME UNCHANGED <<readyJobs, running, added, finished>> PROVE OrderInv(w)'
  BY <1>1 DEF OrderInv, RunLen
<1>2. ASSUME NEW a \in Adders, AddJobPush(a) PROVE OrderInv(w)'
  <2> DEFINE j == adding[a]
  <2>1. /\ readyJobs' = Append(readyJobs, j) /\ added' = Append(added, j)
        /\ UNCHANGED <<running, finished>> /\ j \in Jobs
    BY <1>2 DEF AddJobPush, TypeOK
  <2>2. /\ Len(added') = Len(added) + 1 /\ added'[Len(added) + 1] = j
        /\ \A k \in 1..Len(added) : added'[k] = added[k]
        /\ Len(readyJobs') = Len(readyJobs) + 1
        /\ readyJobs'[Len(readyJobs) + 1] = j
        /\ \A k \in 1..Len(readyJobs) : readyJobs'[k] = readyJobs[k]
    BY <2>1 DEF TypeOK
  <2> HIDE DEF j
  <2>3. RunLen(w)' = RunLen(w)
    BY <2>1 DEF RunLen
  <2>4. Len(added') = Len(finished') + RunLen(w)' + Len(readyJobs')
    <3>1. Len(added) = Len(finished) + RunLen(w) + Len(readyJobs)
      BY DEF OrderInv
    <3>2. Len(finished') = Len(finished)
      BY <2>1
    <3>3. Len(added') = Len(added) + 1 /\ Len(readyJobs') = Len(readyJobs) + 1
      BY <2>2
    <3> QED BY <1>0, <2>3, <3>1, <3>2, <3>3
  <2>5. \A k \in 1..Len(finished') : finished'[k] = added'[k]
    BY <1>0, <2>1, <2>2 DEF OrderInv
  <2>6. running'[w] # None => running'[w] = added'[Len(finished') + 1]
    <3>1. running[w] # None => Len(finished) + 1 \in 1..Len(added)
      BY <1>0 DEF OrderInv, RunLen
    <3> QED BY <2>1, <2>2, <3>1 DEF OrderInv
  <2>7. ASSUME NEW k \in 1..Len(readyJobs')
        PROVE readyJobs'[k] = added'[Len(finished') + RunLen(w)' + k]
    <3>1. CASE k = Len(readyJobs) + 1
      <4>1. readyJobs'[k] = j /\ added'[Len(added) + 1] = j
        BY <2>2, <3>1
      <4>2. Len(added) = Len(finished) + RunLen(w) + Len(readyJobs)
        BY DEF OrderInv
      <4>3. Len(finished') + RunLen(w)' + k = Len(added) + 1
        BY <1>0, <2>1, <2>3, <3>1, <4>2
      <4> QED BY <4>1, <4>3
    <3>2. CASE k # Len(readyJobs) + 1
      <4>1. k \in 1..Len(readyJobs) /\ Len(finished) + RunLen(w) + k \in 1..Len(added)
        <5>1. k \in 1..Len(readyJobs)
          BY <1>0, <2>2, <3>2
        <5>2. Len(added) = Len(finished) + RunLen(w) + Len(readyJobs)
          BY DEF OrderInv
        <5> QED BY <1>0, <5>1, <5>2
      <4> QED BY <2>1, <2>2, <2>3, <4>1 DEF OrderInv
    <3> QED BY <3>1, <3>2
  <2> QED BY <2>4, <2>5, <2>6, <2>7 DEF OrderInv
<1>3. ASSUME TakeJob(w) PROVE OrderInv(w)'
  <2>1. /\ readyJobs # <<>> /\ readyJobs' = Tail(readyJobs)
        /\ running' = [running EXCEPT ![w] = Head(readyJobs)]
        /\ UNCHANGED <<added, finished>> /\ running[w] = None
    BY <1>3 DEF TakeJob, TypeOK
  <2>2. /\ Len(readyJobs) > 0 /\ Head(readyJobs) = readyJobs[1]
        /\ Head(readyJobs) \in Jobs
        /\ Len(readyJobs') = Len(readyJobs) - 1
        /\ \A k \in 1..Len(readyJobs') : readyJobs'[k] = readyJobs[k + 1]
    BY <1>0, <2>1 DEF TypeOK
  <2>3. running'[w] = readyJobs[1] /\ running'[w] # None
    BY <2>1, <2>2, EngineAssumption DEF TypeOK, EngineAssumption
  <2>4. RunLen(w) = 0 /\ RunLen(w)' = 1
    BY <2>1, <2>3 DEF RunLen
  <2>5. Len(added') = Len(finished') + RunLen(w)' + Len(readyJobs')
    <3>1. Len(added) = Len(finished) + RunLen(w) + Len(readyJobs)
      BY DEF OrderInv
    <3>2. Len(added') = Len(added) /\ Len(finished') = Len(finished)
      BY <2>1
    <3>3. Len(readyJobs') = Len(readyJobs) - 1
      BY <2>2
    <3> QED BY <1>0, <2>4, <3>1, <3>2, <3>3
  <2>6. \A k \in 1..Len(finished') : finished'[k] = added'[k]
    BY <2>1 DEF OrderInv
  <2>7. running'[w] = added'[Len(finished') + 1]
    BY <1>0, <2>1, <2>2, <2>3, <2>4 DEF OrderInv
  <2>8. ASSUME NEW k \in 1..Len(readyJobs')
        PROVE readyJobs'[k] = added'[Len(finished') + RunLen(w)' + k]
    <3>1. k + 1 \in 1..Len(readyJobs) /\ readyJobs'[k] = readyJobs[k + 1]
      BY <1>0, <2>2
    <3>2. readyJobs[k + 1] = added[Len(finished) + 0 + (k + 1)]
      BY <2>4, <3>1 DEF OrderInv
    <3> QED BY <1>0, <2>1, <2>4, <3>1, <3>2
  <2> QED BY <2>5, <2>6, <2>7, <2>8 DEF OrderInv
<1>4. ASSUME Halt(w) PROVE OrderInv(w)'
  <2> DEFINE j == running[w]
  <2>1. /\ readyJobs' = <<j>> \o readyJobs /\ running' = [running EXCEPT ![w] = None]
        /\ UNCHANGED <<added, finished>> /\ j \in Jobs /\ j # None
    BY <1>4, RunningIsJob, EngineAssumption DEF Halt, history, EngineAssumption
  <2>2. /\ Len(readyJobs') = Len(readyJobs) + 1 /\ readyJobs'[1] = j
        /\ \A k \in 2..(Len(readyJobs) + 1) : readyJobs'[k] = readyJobs[k - 1]
    BY <2>1, JobsInFront DEF TypeOK
  <2>3. RunLen(w) = 1 /\ RunLen(w)' = 0 /\ running'[w] = None
    BY <2>1 DEF RunLen, TypeOK
  <2>4. j = added[Len(finished) + 1]
    BY <2>1 DEF OrderInv
  <2> HIDE DEF j
  <2>5. Len(added') = Len(finished') + RunLen(w)' + Len(readyJobs')
    <3>1. Len(added) = Len(finished) + RunLen(w) + Len(readyJobs)
      BY DEF OrderInv
    <3>2. Len(added') = Len(added)
      BY <2>1
    <3> QED BY <1>0, <2>1, <2>2, <2>3, <3>1, <3>2
  <2>6. \A k \in 1..Len(finished') : finished'[k] = added'[k]
    BY <2>1 DEF OrderInv
  <2>7. ASSUME NEW k \in 1..Len(readyJobs')
        PROVE readyJobs'[k] = added'[Len(finished') + RunLen(w)' + k]
    <3>1. CASE k = 1
      BY <1>0, <2>1, <2>2, <2>3, <2>4, <3>1
    <3>2. CASE k # 1
      <4>1. k - 1 \in 1..Len(readyJobs) /\ readyJobs'[k] = readyJobs[k - 1]
        BY <1>0, <2>2, <3>2
      <4>2. readyJobs[k - 1] = added[Len(finished) + 1 + (k - 1)]
        BY <2>3, <4>1 DEF OrderInv
      <4> QED BY <1>0, <2>1, <2>3, <4>1, <4>2
    <3> QED BY <3>1, <3>2
  <2> QED BY <2>3, <2>5, <2>6, <2>7 DEF OrderInv
<1>5. ASSUME Finish(w) PROVE OrderInv(w)'
  <2> DEFINE j == running[w]
  <2>1. /\ finished' = Append(finished, j) /\ running' = [running EXCEPT ![w] = None]
        /\ UNCHANGED <<added, readyJobs>> /\ j \in Jobs /\ j # None
    BY <1>5, RunningIsJob, EngineAssumption DEF Finish, engineVars, EngineAssumption
  <2>2. /\ Len(finished') = Len(finished) + 1 /\ finished'[Len(finished) + 1] = j
        /\ \A k \in 1..Len(finished) : finished'[k] = finished[k]
    BY <2>1 DEF TypeOK
  <2>3. RunLen(w) = 1 /\ RunLen(w)' = 0 /\ running'[w] = None
    BY <2>1 DEF RunLen, TypeOK
  <2>4. j = added[Len(finished) + 1]
    BY <2>1 DEF OrderInv
  <2> HIDE DEF j
  <2>5. Len(added') = Len(finished') + RunLen(w)' + Len(readyJobs')
    <3>1. Len(added) = Len(finished) + RunLen(w) + Len(readyJobs)
      BY DEF OrderInv
    <3>2. Len(added') = Len(added)
      BY <2>1
    <3> QED BY <1>0, <2>1, <2>2, <2>3, <3>1, <3>2
  <2>6. \A k \in 1..Len(finished') : finished'[k] = added'[k]
    BY <1>0, <2>1, <2>2, <2>4 DEF OrderInv
  <2>7. ASSUME NEW k \in 1..Len(readyJobs')
        PROVE readyJobs'[k] = added'[Len(finished') + RunLen(w)' + k]
    <3>1. k \in 1..Len(readyJobs) /\ readyJobs'[k] = readyJobs[k]
      BY <2>1
    <3>2. readyJobs[k] = added[Len(finished) + RunLen(w) + k]
      BY <3>1 DEF OrderInv
    <3>3. Len(finished') + RunLen(w)' + k = Len(finished) + RunLen(w) + k
      BY <1>0, <2>2, <2>3, <3>1
    <3> QED BY <2>1, <3>1, <3>2, <3>3
  <2> QED BY <2>3, <2>5, <2>6, <2>7 DEF OrderInv
<1> QED
  <2>1. \A a \in Adders : (\E j \in Jobs : AddJobRead(a, j)) \/ IdleReached(a)
          => UNCHANGED <<readyJobs, running, added, finished>>
    BY DEF AddJobRead, IdleReached, engineVars, workerVars, history
  <2>2. Sleep(w) \/ SpuriousWake(w) \/ TellListener(w)
          => UNCHANGED <<readyJobs, running, added, finished>>
    BY DEF Sleep, SpuriousWake, TellListener, engineVars, history
  <2>3. \A r \in Requests : RequestDebugState(r)
          => UNCHANGED <<readyJobs, running, added, finished>>
    BY DEF RequestDebugState
  <2>4. UNCHANGED vars => UNCHANGED <<readyJobs, running, added, finished>>
    BY DEF vars, engineVars, workerVars, history
  <2> QED BY <1>1, <1>2, <1>3, <1>4, <1>5, <2>1, <2>2, <2>3, <2>4
          DEF Next, AdderStep, WorkerStep

\* FinishInOrder: with one worker, jobs finish in the order they were queued,
\* halted and resumed as often as the debugger likes.
THEOREM FirstInFirstOut == ASSUME EngineAssumption PROVE Spec => []FinishInOrder
<1>1. CASE Cardinality(Workers) = 1
  <2>1. PICK w : Workers = {w}
    BY <1>1, FS_Singleton, EngineAssumption DEF EngineAssumption
  <2>2. w \in Workers
    BY <2>1
  <2>3. Init => OrderInv(w)
    BY <2>2 DEF Init, OrderInv, RunLen
  <2>4. IInv /\ OrderInv(w) /\ [Next]_vars => OrderInv(w)'
    BY <2>1, <2>2, NextOrderInv DEF IInv
  <2>5. TypeOK /\ OrderInv(w) => FinishInOrder
    BY DEF TypeOK, OrderInv, FinishInOrder, RunLen
  <2>6. IInv => TypeOK
    BY DEF IInv
  <2> QED BY Inductive, <2>3, <2>4, <2>5, <2>6, PTL DEF Spec
<1>2. CASE Cardinality(Workers) # 1
  <2>1. FinishInOrder
    BY <1>2 DEF FinishInOrder
  <2> QED BY <2>1, PTL
<1> QED BY <1>1, <1>2

-----------------------------------------------------------------------------

\* Three ways to write a queue: with an empty front, with its head in front,
\* and with a job at the end.
LEMMA QueueShapes ==
  ASSUME NEW s \in Seq(Jobs), NEW t \in Seq(Jobs), NEW j \in Jobs
  PROVE  /\ <<>> \o s = s
         /\ s # <<>> => <<Head(s)>> \o Tail(s) = s
         /\ t \o Append(s, j) = Append(t \o s, j)
         /\ <<j>> \o s # <<>> /\ Head(<<j>> \o s) = j /\ Tail(<<j>> \o s) = s
<1>1. <<>> \o s = s
  BY ConcatEmptySeq
<1>2. s # <<>> => <<Head(s)>> \o Tail(s) = s
  OBVIOUS
<1>3. t \o Append(s, j) = Append(t \o s, j)
  OBVIOUS
<1>4. <<j>> \o s # <<>> /\ Head(<<j>> \o s) = j
  BY JobsInFront
<1>5. Tail(<<j>> \o s) = s
  OBVIOUS
<1> QED BY <1>1, <1>2, <1>3, <1>4, <1>5

\* Init is an empty queue.
LEMMA InitQueue ==
  ASSUME Workers # {}, Init
  PROVE  Queue!Init
<1>1. TheWorker \in Workers
  BY DEF TheWorker
<1>2. InHand = <<>> /\ readyJobs = <<>>
  BY <1>1 DEF Init, InHand
<1> QED BY <1>2 DEF Init, Queue!Init

\* Each step of one worker's engine is a step of the queue, or none.
LEMMA NextQueue ==
  ASSUME EngineAssumption, TypeOK, NEW w, Workers = {w}, [Next]_vars
  PROVE  [Queue!Next]_(Queue!vars)
<1> DEFINE pending == InHand \o readyJobs
<1>1. TheWorker = w /\ w \in Workers
  BY DEF TheWorker
<1>2. readyJobs \in Seq(Jobs) /\ InHand \in Seq(Jobs)
  BY <1>1 DEF TypeOK, InHand
<1>3. ASSUME UNCHANGED <<readyJobs, running, finished>>
      PROVE  UNCHANGED Queue!vars
  BY <1>3 DEF Queue!vars, InHand
<1>4. CASE UNCHANGED vars
  BY <1>3, <1>4 DEF vars, engineVars, workerVars, history
<1>5. ASSUME NEW a \in Adders, NEW j \in Jobs, AddJobRead(a, j)
      PROVE  UNCHANGED Queue!vars
  BY <1>3, <1>5 DEF AddJobRead, engineVars, workerVars, history
<1>6. ASSUME NEW a \in Adders, AddJobPush(a) PROVE Queue!Next
  <2>1. adding[a] \in Jobs
    BY <1>6 DEF TypeOK, AddJobPush
  <2>2. InHand' = InHand /\ readyJobs' = Append(readyJobs, adding[a])
        /\ finished' = finished
    BY <1>6 DEF AddJobPush, InHand
  <2>3. pending' = Append(pending, adding[a])
    BY <1>2, <2>1, <2>2, QueueShapes
  <2>4. Queue!Add(adding[a])
    BY <2>2, <2>3 DEF Queue!Add
  <2> QED BY <2>1, <2>4 DEF Queue!Next
<1>7. ASSUME NEW a \in Adders, IdleReached(a) PROVE UNCHANGED Queue!vars
  BY <1>3, <1>7 DEF IdleReached, engineVars, workerVars, history
<1>8. CASE Sleep(w)
  BY <1>3, <1>8 DEF Sleep, history
<1>9. CASE SpuriousWake(w)
  BY <1>3, <1>9 DEF SpuriousWake, engineVars, history
<1>10. ASSUME TakeJob(w) PROVE UNCHANGED Queue!vars
  <2>1. InHand = <<>> /\ InHand' = <<Head(readyJobs)>>
    BY <1>1, <1>10, EngineAssumption DEF TakeJob, TypeOK, InHand, EngineAssumption
  <2>2. readyJobs # <<>> /\ readyJobs' = Tail(readyJobs) /\ finished' = finished
    BY <1>10 DEF TakeJob
  <2>3. Head(readyJobs) \in Jobs
    BY <1>2, <2>2
  <2>4. pending' = pending
    BY <1>2, <2>1, <2>2, <2>3, QueueShapes
  <2> QED BY <2>2, <2>4 DEF Queue!vars
<1>11. ASSUME Halt(w) PROVE UNCHANGED Queue!vars
  <2>1. running[w] \in Jobs /\ running[w] # None
    BY <1>1, <1>11, RunningIsJob, EngineAssumption DEF Halt, EngineAssumption
  <2>2. InHand = <<running[w]>> /\ InHand' = <<>>
    BY <1>1, <1>11, <2>1 DEF Halt, TypeOK, InHand
  <2>3. readyJobs' = <<running[w]>> \o readyJobs /\ finished' = finished
    BY <1>11 DEF Halt, history
  <2>4. readyJobs' \in Seq(Jobs)
    BY <1>2, <2>1, <2>3, JobsInFront
  <2>5. pending' = pending
    BY <2>1, <2>2, <2>3, <2>4, QueueShapes
  <2> QED BY <2>3, <2>5 DEF Queue!vars
<1>12. CASE TellListener(w)
  BY <1>3, <1>12 DEF TellListener, engineVars, history
<1>13. ASSUME Finish(w) PROVE Queue!Next
  <2>1. running[w] \in Jobs /\ running[w] # None
    BY <1>1, <1>13, RunningIsJob, EngineAssumption DEF Finish, EngineAssumption
  <2>2. InHand = <<running[w]>> /\ InHand' = <<>>
    BY <1>1, <1>13, <2>1 DEF Finish, TypeOK, InHand
  <2>3. readyJobs' = readyJobs /\ finished' = Append(finished, running[w])
    BY <1>13 DEF Finish, engineVars
  <2>4. /\ pending # <<>> /\ Head(pending) = running[w]
        /\ Tail(pending) = readyJobs /\ pending' = readyJobs
    BY <1>2, <2>1, <2>2, <2>3, QueueShapes
  <2>5. Queue!Finish
    BY <2>3, <2>4 DEF Queue!Finish
  <2> QED BY <2>5 DEF Queue!Next
<1>14. ASSUME NEW r \in Requests, RequestDebugState(r) PROVE UNCHANGED Queue!vars
  BY <1>3, <1>14 DEF RequestDebugState
<1> QED BY <1>4, <1>5, <1>6, <1>7, <1>8, <1>9, <1>10, <1>11, <1>12, <1>13, <1>14
        DEF Next, AdderStep, WorkerStep

\* The engine of unify-run, with its one worker thread, implements the queue
\* that main() and the parser rely on: first in, first out, each job once.
THEOREM EngineIsQueue ==
  ASSUME EngineAssumption, Cardinality(Workers) = 1
  PROVE  Spec => ImplementsJobQueue
<1>1. PICK w : Workers = {w}
  BY FS_Singleton, EngineAssumption DEF EngineAssumption
<1>2. Init => Queue!Init
  BY InitQueue, EngineAssumption DEF EngineAssumption
<1>3. IInv /\ [Next]_vars => [Queue!Next]_(Queue!vars)
  BY <1>1, NextQueue DEF IInv
<1> QED BY Inductive, <1>2, <1>3, PTL DEF Spec, ImplementsJobQueue, Queue!Spec

=============================================================================
