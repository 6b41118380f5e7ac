---------------------------- MODULE RuntimeProofs ----------------------------
(***************************************************************************)
(* For any files, programs and typed items: a query's search starts from   *)
(* all that came before it, and main() leaves with an empty queue.  Run on *)
(* one program, and nothing typed after it, unify-run tells by its exit    *)
(* code whether an error was met.                                          *)
(*                                                                         *)
(* What the parser has done so far is a beginning of the texts with their  *)
(* imports put in place.  RuntimeReference defines that expansion by       *)
(* recursion through the files.  That files may import each other in       *)
(* circles does no harm, for each is expanded once: this is proved before  *)
(* anything is said of it, since without it the definition would say       *)
(* nothing.                                                                *)
(***************************************************************************)
EXTENDS RuntimeReference, SequenceLemmas

Entries == [clause : Clauses, by : Nat]

JobRecords ==
  [query : Questions, onFinished : {"program", "session", "barrier"},
   above : SUBSET Nat, root : Nat, asserted : Nat]

Frames == [file : DOMAIN contents, pos : Nat \ {0}, errors : Nat]

\* What every part of the state is, as the steps keep it.
Shapes ==
  /\ contents \in Corpora
  /\ listClauses \in Seq(Entries)
  /\ jobs \in Seq(JobRecords)
  /\ pending \in Seq(Nat)
  /\ done \in Seq(Nat)

\* The parser's recursion, and where it stands in each file.
FramesInv ==
  /\ importedFiles \subseteq DOMAIN contents
  /\ frames \in Seq(Frames)
  /\ \A k \in 1..Len(frames) : frames[k].pos <= Len(contents[frames[k].file]) + 1
  /\ mainpc = "parsing" <=> frames # <<>>

\* The queue is the jobs not finished, in the order they were submitted.
QueueInv ==
  /\ Len(jobs) = Len(done) + Len(pending)
  /\ \A k \in 1..Len(done) : done[k] = k
  /\ \A k \in 1..Len(pending) : pending[k] = Len(done) + k

\* A job is searched only while it is in front of the queue.
WorkerInv ==
  /\ workerpc \in {"idle", "running", "counting", "dropping"}
  /\ workerpc \in {"running", "counting"} => pending # <<>>

\* What each job saw when it was submitted, and when its search began.
JobsInv ==
  \A k \in 1..Len(jobs) :
    /\ jobs[k].above \subseteq 1..Len(listClauses)
    /\ jobs[k].root <= Len(listClauses)
    /\ jobs[k].asserted <= Len(jobs[k].query.asserts)

\* Between texts the queue is empty.
QuietInv == mainpc \in {"prompt", "done"} => pending = <<>>

ResultInv == result \in {None, 0, 1}

IInv ==
  /\ Shapes /\ FramesInv /\ QueueInv /\ WorkerInv /\ JobsInv
  /\ SeesEarlierWork /\ QuietInv /\ ResultInv

-----------------------------------------------------------------------------

\* The event at hand is one of the kinds a text is made of.
LEMMA EventTyped ==
  ASSUME Shapes, FramesInv, AtEvent
  PROVE  /\ frames # <<>> /\ TopFrame \in Frames
         /\ TopFrame.pos <= Len(contents[TopFrame.file])
         /\ IsEvent(Event)
<1>1. frames # <<>> /\ Len(frames) \in Nat \ {0}
  BY DEF FramesInv, AtEvent
<1>2. TopFrame \in Frames
  BY <1>1 DEF FramesInv, TopFrame, Last
<1>3. TopFrame.file \in DOMAIN contents /\ TopFrame.pos \in Nat \ {0}
  BY <1>2 DEF Frames
<1>4. TopFrame.pos <= Len(contents[TopFrame.file])
  BY DEF AtEvent
<1>5. Len(contents[TopFrame.file]) \in Nat
  BY <1>3, CorporaAssumption DEF CorporaAssumption, Shapes
<1>6. TopFrame.pos \in 1..Len(contents[TopFrame.file])
  BY <1>3, <1>4, <1>5
<1>7. IsEvent(contents[TopFrame.file][TopFrame.pos])
  BY <1>3, <1>6, CorporaAssumption DEF CorporaAssumption, Shapes
<1> QED BY <1>1, <1>2, <1>4, <1>7 DEF Event

\* Replacing the last element of a sequence.
LEMMA FrontReplaced ==
  ASSUME NEW S, NEW s \in Seq(S), s # <<>>, NEW e \in S
  PROVE  /\ Front(s) \o <<e>> \in Seq(S)
         /\ Len(Front(s) \o <<e>>) = Len(s)
         /\ \A k \in 1..Len(s) :
              (Front(s) \o <<e>>)[k] = IF k = Len(s) THEN e ELSE s[k]
<1> DEFINE t == SubSeq(s, 1, Len(s) - 1) \o <<e>>
<1>1. Front(s) \o <<e>> = t
  BY DEF Front
<1>2. /\ t \in Seq(S) /\ Len(t) = Len(s) /\ t[Len(s)] = e
      /\ \A k \in 1..(Len(s) - 1) : t[k] = s[k]
  BY LastReplaced
<1>3. Len(s) \in Nat
  OBVIOUS
<1>4. \A k \in 1..Len(s) : k = Len(s) \/ k \in 1..(Len(s) - 1)
  BY <1>3
<1> HIDE DEF t
<1>5. \A k \in 1..Len(s) : t[k] = IF k = Len(s) THEN e ELSE s[k]
  BY <1>2, <1>4
<1> QED BY <1>1, <1>2, <1>5

\* Appending one element.
LEMMA Appended ==
  ASSUME NEW S, NEW s \in Seq(S), NEW e \in S
  PROVE  /\ Append(s, e) \in Seq(S)
         /\ Len(Append(s, e)) = Len(s) + 1
         /\ Len(s) \in Nat
         /\ Append(s, e)[Len(s) + 1] = e
         /\ \A k \in 1..Len(s) : Append(s, e)[k] = s[k]
  OBVIOUS

-----------------------------------------------------------------------------
(* The queue, by what a step does to it.                                   *)

\* Submitting a job puts its number at the end.
LEMMA AddKeepsQueue ==
  ASSUME Shapes, QueueInv, NEW j \in JobRecords,
         jobs' = Append(jobs, j), Queue!Add(Len(jobs'))
  PROVE  /\ jobs' \in Seq(JobRecords) /\ pending' \in Seq(Nat) /\ done' = done
         /\ QueueInv' /\ pending' # <<>>
         /\ Len(jobs') = Len(jobs) + 1 /\ jobs'[Len(jobs) + 1] = j
         /\ \A k \in 1..Len(jobs) : jobs'[k] = jobs[k]
<1>1. /\ jobs' \in Seq(JobRecords) /\ Len(jobs) \in Nat
      /\ Len(jobs') = Len(jobs) + 1 /\ jobs'[Len(jobs) + 1] = j
      /\ \A k \in 1..Len(jobs) : jobs'[k] = jobs[k]
  BY Appended DEF Shapes
<1> DEFINE n == Len(jobs')
<1>2. n \in Nat /\ pending' = Append(pending, n) /\ done' = done
  BY <1>1 DEF Queue!Add
<1>3. n = Len(jobs) + 1
  BY <1>1
<1> HIDE DEF n
<1>4. /\ pending' \in Seq(Nat) /\ Len(pending') = Len(pending) + 1
      /\ Len(pending) \in Nat
      /\ pending'[Len(pending) + 1] = n
      /\ \A k \in 1..Len(pending) : pending'[k] = pending[k]
  BY <1>2, Appended DEF Shapes
<1>5. Len(done) \in Nat
  BY DEF Shapes
<1>6. Len(jobs') = Len(done') + Len(pending')
  BY <1>1, <1>2, <1>4, <1>5 DEF QueueInv
<1>7. \A k \in 1..Len(done') : done'[k] = k
  BY <1>2 DEF QueueInv
<1>8. ASSUME NEW k \in 1..Len(pending') PROVE pending'[k] = Len(done') + k
  <2>1. CASE k = Len(pending) + 1
    BY <1>2, <1>3, <1>4, <1>5, <2>1 DEF QueueInv
  <2>2. CASE k # Len(pending) + 1
    <3>1. k \in 1..Len(pending)
      BY <1>4, <2>2
    <3> QED BY <1>2, <1>4, <3>1 DEF QueueInv
  <2> QED BY <2>1, <2>2
<1>9. pending' # <<>>
  BY <1>4
<1> QED BY <1>1, <1>2, <1>4, <1>6, <1>7, <1>8, <1>9 DEF QueueInv

\* Finishing one takes the number in front.
LEMMA FinishKeepsQueue ==
  ASSUME Shapes, QueueInv, Queue!Finish, UNCHANGED jobs
  PROVE  /\ pending' \in Seq(Nat) /\ done' \in Seq(Nat)
         /\ QueueInv' /\ Len(done') = Len(done) + 1
<1>1. /\ pending # <<>> /\ pending' = Tail(pending)
      /\ done' = Append(done, Head(pending))
  BY DEF Queue!Finish
<1>2. /\ Len(pending) \in Nat \ {0} /\ Head(pending) = pending[1]
      /\ pending' \in Seq(Nat) /\ Len(pending') = Len(pending) - 1
      /\ \A k \in 1..Len(pending') : pending'[k] = pending[k + 1]
  BY <1>1 DEF Shapes
<1>3. Head(pending) \in Nat /\ Head(pending) = Len(done) + 1 /\ Len(done) \in Nat
  BY <1>2 DEF QueueInv, Shapes
<1>4. /\ done' \in Seq(Nat) /\ Len(done') = Len(done) + 1
      /\ done'[Len(done) + 1] = Head(pending)
      /\ \A k \in 1..Len(done) : done'[k] = done[k]
  BY <1>1, <1>3, Appended DEF Shapes
<1>5. Len(jobs') = Len(done') + Len(pending')
  <2>1. Len(jobs') = Len(jobs) /\ Len(jobs) = Len(done) + Len(pending)
    BY DEF QueueInv
  <2> QED BY <1>2, <1>3, <1>4, <2>1
<1>6. ASSUME NEW k \in 1..Len(done') PROVE done'[k] = k
  <2>1. CASE k = Len(done) + 1
    BY <1>3, <1>4, <2>1
  <2>2. CASE k # Len(done) + 1
    <3>1. k \in 1..Len(done)
      BY <1>3, <1>4, <2>2
    <3> QED BY <1>4, <3>1 DEF QueueInv
  <2> QED BY <2>1, <2>2
<1>7. ASSUME NEW k \in 1..Len(pending') PROVE pending'[k] = Len(done') + k
  <2>1. k + 1 \in 1..Len(pending) /\ pending'[k] = pending[k + 1]
    BY <1>2
  <2>2. pending[k + 1] = Len(done) + (k + 1)
    BY <2>1 DEF QueueInv
  <2> QED BY <1>3, <1>4, <2>1, <2>2
<1> QED BY <1>2, <1>4, <1>5, <1>6, <1>7 DEF QueueInv

\* The job in front is the first that has not finished.
LEMMA RunningNext ==
  ASSUME Shapes, QueueInv, pending # <<>>
  PROVE  /\ Running = Len(done) + 1
         /\ Running \in 1..Len(jobs)
         /\ jobs[Running] \in JobRecords
<1>1. Len(pending) \in Nat \ {0} /\ Head(pending) = pending[1] /\ Len(done) \in Nat
  BY DEF Shapes
<1>2. Running = Len(done) + 1
  BY <1>1 DEF QueueInv, Running
<1>3. Running \in 1..Len(jobs)
  BY <1>1, <1>2 DEF QueueInv
<1> QED BY <1>2, <1>3 DEF Shapes

\* The lengths are numbers.
LEMMA RunningNumber ==
  ASSUME Shapes, QueueInv, pending # <<>>
  PROVE  Running \in Nat /\ Len(done) \in Nat /\ Len(jobs) \in Nat
<1>1. Len(done) \in Nat /\ Len(jobs) \in Nat
  BY DEF Shapes
<1> QED BY <1>1, RunningNext

\* The worker gives the job in front another value of the same shape.
LEMMA RunningReplaced ==
  ASSUME Shapes, QueueInv, pending # <<>>, NEW j \in JobRecords,
         jobs' = [jobs EXCEPT ![Running] = j]
  PROVE  /\ jobs' \in Seq(JobRecords) /\ Len(jobs') = Len(jobs)
         /\ jobs'[Running] = j
         /\ \A k \in 1..Len(jobs) : k # Running => jobs'[k] = jobs[k]
<1>1. Running \in 1..Len(jobs)
  BY RunningNext
<1> QED BY <1>1, ExceptSeq DEF Shapes

-----------------------------------------------------------------------------
(* What jobs see, by what a step does to the list and to the jobs.         *)

\* The condition of SeesEarlierWork on one job.
Sees(k) ==
  \A i \in 1..Len(listClauses) :
    i \in jobs[k].above \/ listClauses[i].by \in 1..(k - 1) => i <= jobs[k].root

\* A new job has a record of its shape, with what is listed above it.
LEMMA JobTyped ==
  ASSUME Shapes, NEW q \in Questions, NEW l \in {"program", "session", "barrier"}
  PROVE  /\ Job(q, l) \in JobRecords
         /\ Job(q, l).above \subseteq 1..Len(listClauses)
         /\ Job(q, l).root = Len(listClauses)
         /\ Job(q, l).asserted = 0 /\ Job(q, l).query = q
<1>1. Len(listClauses) \in Nat
  BY DEF Shapes
<1>2. 1..Len(listClauses) \subseteq Nat
  BY <1>1
<1>3. {i \in 1..Len(listClauses) : listClauses[i].by = 0} \in SUBSET Nat
  BY <1>2
<1> QED BY <1>1, <1>3 DEF Job, JobRecords

\* Neither the list nor a job changes, and no further job starts.
LEMMA JobsStay ==
  ASSUME JobsInv, SeesEarlierWork, UNCHANGED <<listClauses, jobs>>,
         \A k \in 1..Len(jobs) : Started(k)' => Started(k)
  PROVE  JobsInv' /\ SeesEarlierWork'
  BY DEF JobsInv, SeesEarlierWork

\* A clause is appended that no started job must see.
LEMMA ListGrows ==
  ASSUME Shapes, JobsInv, NEW e \in Entries,
         listClauses' = Append(listClauses, e),
         NEW k \in 1..Len(jobs), Sees(k), e.by \notin 1..(k - 1),
         jobs'[k].above = jobs[k].above, jobs'[k].root = jobs[k].root
  PROVE  Sees(k)'
<1>1. /\ Len(listClauses) \in Nat /\ Len(listClauses') = Len(listClauses) + 1
      /\ listClauses'[Len(listClauses) + 1] = e
      /\ \A i \in 1..Len(listClauses) : listClauses'[i] = listClauses[i]
  BY Appended DEF Shapes
<1>2. jobs[k].above \subseteq 1..Len(listClauses)
  BY DEF JobsInv
<1>3. ASSUME NEW i \in 1..Len(listClauses'),
             i \in jobs'[k].above \/ listClauses'[i].by \in 1..(k - 1)
      PROVE  i <= jobs'[k].root
  <2>1. i # Len(listClauses) + 1
    BY <1>1, <1>2, <1>3
  <2>2. i \in 1..Len(listClauses)
    BY <1>1, <2>1
  <2> QED BY <1>1, <1>3, <2>2 DEF Sees
<1> QED BY <1>3 DEF Sees

\* The bounds of JobsInv hold in a list that has grown.
LEMMA BoundsGrow ==
  ASSUME Shapes, JobsInv, NEW e \in Entries,
         listClauses' = Append(listClauses, e), Len(jobs') = Len(jobs),
         \A k \in 1..Len(jobs) :
           /\ jobs'[k].above = jobs[k].above /\ jobs'[k].root = jobs[k].root
           /\ jobs'[k].asserted <= Len(jobs'[k].query.asserts)
  PROVE  JobsInv'
<1>1. Len(listClauses) \in Nat /\ Len(listClauses') = Len(listClauses) + 1
  BY Appended DEF Shapes
<1>2. ASSUME NEW k \in 1..Len(jobs')
      PROVE  /\ jobs'[k].above \subseteq 1..Len(listClauses')
             /\ jobs'[k].root <= Len(listClauses')
             /\ jobs'[k].asserted <= Len(jobs'[k].query.asserts)
  <2>1. k \in 1..Len(jobs)
    BY <1>2
  <2>2. jobs[k].above \subseteq 1..Len(listClauses) /\ jobs[k].root <= Len(listClauses)
    BY <2>1 DEF JobsInv
  <2>3. jobs[k].root \in Nat
    <3>1. jobs[k] \in JobRecords
      BY <2>1 DEF Shapes
    <3> QED BY <3>1 DEF JobRecords
  <2>4. 1..Len(listClauses) \subseteq 1..Len(listClauses')
    BY <1>1
  <2>5. jobs[k].root <= Len(listClauses')
    BY <1>1, <2>2, <2>3
  <2>6. jobs[k].above \subseteq 1..Len(listClauses')
    BY <2>2, <2>4
  <2> QED BY <2>1, <2>5, <2>6
<1> QED BY <1>2 DEF JobsInv

\* A job that is submitted has not started.
LEMMA SubmitKeepsJobs ==
  ASSUME Shapes, QueueInv, WorkerInv, JobsInv, SeesEarlierWork,
         NEW q \in Questions, NEW l \in {"program", "session", "barrier"},
         jobs' = Append(jobs, Job(q, l)), Queue!Add(Len(jobs')),
         UNCHANGED <<listClauses, workerpc>>
  PROVE  JobsInv' /\ SeesEarlierWork'
<1>1. /\ Len(jobs') = Len(jobs) + 1 /\ jobs'[Len(jobs) + 1] = Job(q, l)
      /\ \A k \in 1..Len(jobs) : jobs'[k] = jobs[k]
      /\ done' = done
  BY JobTyped, AddKeepsQueue
<1>2. Len(jobs) \in Nat /\ Len(done) \in Nat /\ Len(pending) \in Nat
  BY DEF Shapes
<1>3. listClauses' = listClauses /\ workerpc' = workerpc
  OBVIOUS
<1>4. ASSUME NEW k \in 1..Len(jobs'), k # Len(jobs) + 1 PROVE k \in 1..Len(jobs)
  BY <1>1, <1>2, <1>4
<1>5. JobsInv'
  <2> SUFFICES ASSUME NEW k \in 1..Len(jobs')
               PROVE  /\ jobs'[k].above \subseteq 1..Len(listClauses)
                      /\ jobs'[k].root <= Len(listClauses)
                      /\ jobs'[k].asserted <= Len(jobs'[k].query.asserts)
    BY <1>3 DEF JobsInv
  <2>1. CASE k = Len(jobs) + 1
    <3>1. Len(q.asserts) \in Nat /\ Len(listClauses) \in Nat
      BY DEF Questions, Shapes
    <3> QED BY <1>1, <2>1, <3>1, JobTyped
  <2>2. CASE k # Len(jobs) + 1
    BY <1>1, <1>4, <2>2 DEF JobsInv
  <2> QED BY <2>1, <2>2
<1>6. ASSUME NEW k \in 1..Len(jobs'), Started(k)' PROVE Sees(k)'
  <2>1. Started(k)
    BY <1>1, <1>3, <1>6 DEF Started
  <2>2. k # Len(jobs) + 1
    <3>1. CASE k <= Len(done)
      BY <1>2, <3>1 DEF QueueInv
    <3>2. CASE k = Len(done) + 1 /\ workerpc \in {"running", "counting"}
      <4>1. Len(pending) # 0
        BY <3>2 DEF WorkerInv, Shapes
      <4> QED BY <1>2, <3>2, <4>1 DEF QueueInv
    <3> QED BY <2>1, <3>1, <3>2 DEF Started
  <2>3. k \in 1..Len(jobs)
    BY <1>4, <2>2
  <2> QED BY <1>1, <1>3, <2>1, <2>3 DEF SeesEarlierWork, Sees
<1>7. SeesEarlierWork'
  BY <1>6 DEF SeesEarlierWork, Sees
<1> QED BY <1>5, <1>7

\* The first slice takes the snapshot of the whole list.
LEMMA StartKeepsJobs ==
  ASSUME Shapes, QueueInv, JobsInv, SeesEarlierWork, StartJob
  PROVE  /\ jobs' \in Seq(JobRecords) /\ Len(jobs') = Len(jobs)
         /\ JobsInv' /\ SeesEarlierWork'
<1> DEFINE j == [jobs[Running] EXCEPT !.root = Len(listClauses)]
<1>1. /\ pending # <<>> /\ workerpc = "idle" /\ workerpc' = "running"
      /\ UNCHANGED <<listClauses, pending, done>>
      /\ jobs' = [jobs EXCEPT ![Running] = j]
  BY DEF StartJob, queueVars
<1>2. /\ Running = Len(done) + 1 /\ Running \in 1..Len(jobs)
      /\ jobs[Running] \in JobRecords
  BY <1>1, RunningNext
<1>3. Len(listClauses) \in Nat /\ Len(done) \in Nat
  BY DEF Shapes
<1>4. /\ j \in JobRecords /\ j.root = Len(listClauses)
      /\ j.above = jobs[Running].above /\ j.query = jobs[Running].query
      /\ j.asserted = jobs[Running].asserted
  BY <1>2, <1>3 DEF JobRecords
<1> HIDE DEF j
<1>5. /\ jobs' \in Seq(JobRecords) /\ Len(jobs') = Len(jobs) /\ jobs'[Running] = j
      /\ \A k \in 1..Len(jobs) : k # Running => jobs'[k] = jobs[k]
  BY <1>1, <1>4, RunningReplaced
<1>6. JobsInv'
  <2> SUFFICES ASSUME NEW k \in 1..Len(jobs)
               PROVE  /\ jobs'[k].above \subseteq 1..Len(listClauses)
                      /\ jobs'[k].root <= Len(listClauses)
                      /\ jobs'[k].asserted <= Len(jobs'[k].query.asserts)
    BY <1>1, <1>5 DEF JobsInv
  <2>1. CASE k = Running
    BY <1>3, <1>4, <1>5, <2>1 DEF JobsInv
  <2>2. CASE k # Running
    BY <1>5, <2>2 DEF JobsInv
  <2> QED BY <2>1, <2>2
<1>7. ASSUME NEW k \in 1..Len(jobs), Started(k)' PROVE Sees(k)'
  <2>1. CASE k = Running
    <3>1. \A i \in 1..Len(listClauses) : i <= jobs'[k].root
      BY <1>3, <1>4, <1>5, <2>1
    <3> QED BY <1>1, <3>1 DEF Sees
  <2>2. CASE k # Running
    <3>1. Started(k)
      BY <1>1, <1>2, <1>3, <1>7, <2>2 DEF Started
    <3> QED BY <1>1, <1>5, <2>2, <3>1 DEF SeesEarlierWork, Sees
  <2> QED BY <2>1, <2>2
<1>8. SeesEarlierWork'
  BY <1>5, <1>7 DEF SeesEarlierWork, Sees
<1> QED BY <1>5, <1>6, <1>8

\* What the running job asserts, no job ahead of it has asserted.
LEMMA AssertKeepsJobs ==
  ASSUME Shapes, QueueInv, WorkerInv, JobsInv, SeesEarlierWork, AssertClause
  PROVE  /\ jobs' \in Seq(JobRecords) /\ Len(jobs') = Len(jobs)
         /\ listClauses' \in Seq(Entries)
         /\ JobsInv' /\ SeesEarlierWork'
<1> DEFINE n == jobs[Running].asserted + 1
           j == [jobs[Running] EXCEPT !.asserted = n]
           e == [clause |-> Query.asserts[n], by |-> Running]
<1>1. /\ workerpc = "running" /\ UNCHANGED <<workerpc, pending, done>>
      /\ n <= Len(Query.asserts)
      /\ listClauses' = Append(listClauses, e)
      /\ jobs' = [jobs EXCEPT ![Running] = j]
  BY DEF AssertClause, queueVars
<1>2. /\ Running = Len(done) + 1 /\ Running \in 1..Len(jobs)
      /\ jobs[Running] \in JobRecords /\ pending # <<>>
  BY <1>1, RunningNext DEF WorkerInv
<1>3. n \in Nat \ {0} /\ Query \in Questions
  BY <1>2 DEF JobRecords, Query
<1>4. Query.asserts[n] \in Clauses
  <2>1. Query.asserts \in Seq(Clauses)
    BY <1>3 DEF Questions
  <2>2. Len(Query.asserts) \in Nat
    BY <2>1
  <2>3. n \in 1..Len(Query.asserts)
    BY <1>1, <1>3, <2>2
  <2> QED BY <2>1, <2>3, ElementOfSeq
<1>5. /\ j \in JobRecords /\ j.asserted = n
      /\ j.above = jobs[Running].above /\ j.query = jobs[Running].query
      /\ j.root = jobs[Running].root
  BY <1>2, <1>3 DEF JobRecords
<1>6. e \in Entries /\ e.by = Running
  BY <1>2, <1>4, RunningNumber DEF Entries
<1> HIDE DEF e, j, n
<1>7. /\ jobs' \in Seq(JobRecords) /\ Len(jobs') = Len(jobs) /\ jobs'[Running] = j
      /\ \A k \in 1..Len(jobs) : k # Running => jobs'[k] = jobs[k]
  BY <1>1, <1>2, <1>5, RunningReplaced
<1>8. listClauses' \in Seq(Entries)
  BY <1>1, <1>6, Appended DEF Shapes
<1>9. ASSUME NEW k \in 1..Len(jobs)
      PROVE  /\ jobs'[k].above = jobs[k].above /\ jobs'[k].root = jobs[k].root
             /\ jobs'[k].asserted <= Len(jobs'[k].query.asserts)
  <2>1. CASE k = Running
    BY <1>1, <1>5, <1>7, <2>1 DEF Query
  <2>2. CASE k # Running
    BY <1>7, <2>2 DEF JobsInv
  <2> QED BY <2>1, <2>2
<1>10. JobsInv'
  BY <1>1, <1>6, <1>7, <1>9, BoundsGrow
<1>11. ASSUME NEW k \in 1..Len(jobs), Started(k)' PROVE Sees(k)'
  <2>1. Started(k)
    BY <1>1, <1>11 DEF Started
  <2>2. k <= Running
    BY <1>2, <2>1, RunningNumber DEF Started
  <2>3. e.by \notin 1..(k - 1)
    BY <1>2, <1>6, <2>2
  <2>4. Sees(k)
    BY <2>1 DEF SeesEarlierWork, Sees
  <2> QED BY <1>1, <1>6, <1>9, <2>3, <2>4, ListGrows
<1>12. SeesEarlierWork'
  BY <1>7, <1>11 DEF SeesEarlierWork, Sees
<1> QED BY <1>7, <1>8, <1>10, <1>12

-----------------------------------------------------------------------------
(* The parser's frames.                                                    *)

\* A frame stands in a file, or at its end.
Stands(x) == x.pos <= Len(contents[x.file]) + 1

\* A file's length is a number.
LEMMA FileLength ==
  ASSUME Shapes, NEW f \in DOMAIN contents
  PROVE  Len(contents[f]) \in Nat
  BY CorporaAssumption DEF CorporaAssumption, Shapes

\* A call starts at the beginning of its file.
LEMMA FrameTyped ==
  ASSUME Shapes, NEW f \in DOMAIN contents
  PROVE  Frame(f) \in Frames /\ Stands(Frame(f))
<1>1. Len(contents[f]) \in Nat
  BY FileLength
<1>2. Frame(f) \in Frames
  BY DEF Frame, Frames
<1>3. Frame(f).pos = 1 /\ Frame(f).file = f
  BY DEF Frame
<1> QED BY <1>1, <1>2, <1>3 DEF Stands

\* The event at hand is passed.
LEMMA PastTyped ==
  ASSUME Shapes, FramesInv, AtEvent, NEW n \in Nat
  PROVE  Past(n) \in Frames /\ Stands(Past(n)) /\ Past(n).file = TopFrame.file
<1>1. TopFrame \in Frames /\ TopFrame.pos <= Len(contents[TopFrame.file])
  BY EventTyped
<1>2. /\ TopFrame.file \in DOMAIN contents /\ TopFrame.pos \in Nat \ {0}
      /\ TopFrame.errors \in Nat
  BY <1>1 DEF Frames
<1>3. Len(contents[TopFrame.file]) \in Nat
  BY <1>2, FileLength
<1> DEFINE t == TopFrame
           p == t.pos + 1
           m == t.errors + n
<1>4. /\ Past(n) = [t EXCEPT !.pos = p, !.errors = m] /\ t \in Frames
      /\ p \in Nat \ {0} /\ m \in Nat
  BY <1>1, <1>2 DEF Past
<1> HIDE DEF t, p, m
<1>5. Past(n) \in Frames /\ Past(n).file = t.file /\ Past(n).pos = p
  BY <1>4 DEF Frames
<1>6. Past(n).file = TopFrame.file /\ Past(n).pos = TopFrame.pos + 1
  BY <1>5 DEF t, p
<1> QED BY <1>1, <1>2, <1>3, <1>5, <1>6 DEF Stands

\* The innermost call goes on.
LEMMA TopReplaced ==
  ASSUME Shapes, FramesInv, frames # <<>>, NEW x \in Frames, Stands(x)
  PROVE  LET fs == Front(frames) \o <<x>> IN
         /\ fs \in Seq(Frames) /\ Len(fs) = Len(frames) /\ fs # <<>>
         /\ \A k \in 1..Len(fs) : Stands(fs[k])
<1> DEFINE fs == Front(frames) \o <<x>>
<1>1. frames \in Seq(Frames) /\ Len(frames) \in Nat \ {0}
  BY DEF FramesInv
<1>2. /\ fs \in Seq(Frames) /\ Len(fs) = Len(frames)
      /\ \A k \in 1..Len(frames) : fs[k] = IF k = Len(frames) THEN x ELSE frames[k]
  BY <1>1, FrontReplaced
<1> HIDE DEF fs
<1>3. fs # <<>>
  BY <1>1, <1>2
<1>4. ASSUME NEW k \in 1..Len(fs) PROVE Stands(fs[k])
  <2>1. CASE k = Len(frames)
    BY <1>2, <2>1
  <2>2. CASE k # Len(frames)
    <3>1. fs[k] = frames[k] /\ k \in 1..Len(frames)
      BY <1>2, <2>2
    <3>2. Stands(frames[k])
      BY <3>1 DEF FramesInv, Stands
    <3> QED BY <3>1, <3>2
  <2> QED BY <2>1, <2>2
<1> QED BY <1>2, <1>3, <1>4 DEF fs

\* A step that leaves main() parsing, with frames that stand in their files.
LEMMA FramesKept ==
  ASSUME FramesInv, contents' = contents, importedFiles' \subseteq DOMAIN contents,
         frames' \in Seq(Frames), \A k \in 1..Len(frames') : Stands(frames'[k]),
         mainpc' = "parsing" <=> frames' # <<>>
  PROVE  FramesInv'
<1>1. Frames' = Frames
  BY DEF Frames
<1>2. \A k \in 1..Len(frames') :
        frames'[k].pos <= Len(contents'[frames'[k].file]) + 1
  BY DEF Stands
<1> QED BY <1>1, <1>2 DEF FramesInv

\* One event that is no import.
LEMMA EventKeepsFrames ==
  ASSUME Shapes, FramesInv, AtEvent, NEW x \in Frames, Stands(x),
         frames' = Front(frames) \o <<x>>,
         UNCHANGED <<contents, importedFiles, mainpc>>
  PROVE  FramesInv'
<1>1. frames # <<>>
  BY EventTyped
<1>2. /\ frames' \in Seq(Frames) /\ frames' # <<>>
      /\ \A k \in 1..Len(frames') : Stands(frames'[k])
  BY <1>1, TopReplaced
<1>3. mainpc = "parsing" /\ importedFiles \subseteq DOMAIN contents
  BY <1>1 DEF FramesInv
<1> QED BY <1>2, <1>3, FramesKept

\* An import passes its event, and may call the parser on another file.
LEMMA ImportKeepsFrames ==
  ASSUME Shapes, FramesInv, ParseImport
  PROVE  FramesInv'
<1>1. /\ AtEvent /\ frames # <<>> /\ mainpc = "parsing" /\ mainpc' = mainpc
      /\ contents' = contents /\ importedFiles \subseteq DOMAIN contents
  BY EventTyped DEF ParseImport, AtEvent, FramesInv, mainVars
<1>2. CASE Event.file \notin DOMAIN contents
  <2>1. frames' = Front(frames) \o <<Past(1)>> /\ importedFiles' = importedFiles
    BY <1>2 DEF ParseImport
  <2>2. Past(1) \in Frames /\ Stands(Past(1))
    BY <1>1, PastTyped
  <2> QED BY <1>1, <2>1, <2>2, EventKeepsFrames
<1>3. CASE Event.file \in DOMAIN contents
  <2> DEFINE f == Event.file
             fs == Front(frames) \o <<Past(0)>>
             more == IF f \in importedFiles THEN <<>> ELSE <<Frame(f)>>
  <2>1. frames' = fs \o more /\ importedFiles' = importedFiles \cup {f}
    BY <1>3 DEF ParseImport
  <2>2. Past(0) \in Frames /\ Stands(Past(0))
    BY <1>1, PastTyped
  <2>3. /\ fs \in Seq(Frames) /\ fs # <<>>
        /\ \A k \in 1..Len(fs) : Stands(fs[k])
    BY <1>1, <2>2, TopReplaced
  <2>4. Frame(f) \in Frames /\ Stands(Frame(f))
    BY <1>3, FrameTyped
  <2>5. more \in Seq(Frames) /\ \A k \in 1..Len(more) : Stands(more[k])
    <3>1. CASE f \in importedFiles
      BY <3>1
    <3>2. CASE f \notin importedFiles
      <4>1. more = <<Frame(f)>>
        BY <3>2
      <4> HIDE DEF more
      <4>2. more \in Seq(Frames) /\ Len(more) = 1 /\ more[1] = Frame(f)
        BY <2>4, <4>1
      <4> QED BY <2>4, <4>2
    <3> QED BY <3>1, <3>2
  <2> HIDE DEF fs, more, f
  <2>6. /\ fs \o more \in Seq(Frames) /\ Len(fs \o more) = Len(fs) + Len(more)
        /\ \A i \in 1..(Len(fs) + Len(more)) :
             (fs \o more)[i] = IF i <= Len(fs) THEN fs[i] ELSE more[i - Len(fs)]
    BY <2>3, <2>5, ConcatProperties
  <2>7. Len(fs) \in Nat \ {0} /\ Len(more) \in Nat
    BY <2>3, <2>5
  <2>8. fs \o more # <<>>
    BY <2>6, <2>7
  <2>9. ASSUME NEW i \in 1..Len(fs \o more) PROVE Stands((fs \o more)[i])
    <3>1. CASE i <= Len(fs)
      BY <2>3, <2>6, <2>7, <3>1
    <3>2. CASE i > Len(fs)
      <4>1. i - Len(fs) \in 1..Len(more) /\ (fs \o more)[i] = more[i - Len(fs)]
        BY <2>6, <2>7, <3>2
      <4> QED BY <2>5, <4>1
    <3> QED BY <2>7, <3>1, <3>2
  <2>10. importedFiles' \subseteq DOMAIN contents
    BY <1>1, <1>3, <2>1 DEF f
  <2> QED BY <1>1, <2>1, <2>6, <2>8, <2>9, <2>10, FramesKept
<1> QED BY <1>2, <1>3

\* The place below the top of a stack.
LEMMA Below ==
  ASSUME NEW n \in Nat, n > 1
  PROVE  n - 1 \in Nat \ {0} /\ n - 1 \in 1..(n - 1) /\ n - 1 \in 1..n /\ n \in 1..n
  OBVIOUS

\* A call returns to the import that made it, or to main().
LEMMA ReturnKeepsFrames ==
  ASSUME Shapes, FramesInv, SegmentReturns
  PROVE  FramesInv'
<1> DEFINE n == Len(frames)
<1>1. /\ mainpc = "parsing" /\ frames # <<>> /\ frames \in Seq(Frames)
      /\ n \in Nat \ {0}
      /\ contents' = contents /\ importedFiles' = importedFiles
      /\ importedFiles \subseteq DOMAIN contents
  BY DEF FramesInv, SegmentReturns
<1>2. CASE n > 1
  <2> DEFINE t == SubSeq(frames, 1, n - 1)
             x == [t[n - 1] EXCEPT !.errors = @ + frames[n].errors]
  <2>1. mainpc' = mainpc /\ frames' = [t EXCEPT ![n - 1] = x]
    BY <1>2 DEF SegmentReturns
  <2>2. /\ n - 1 \in Nat \ {0} /\ n - 1 \in 1..(n - 1)
        /\ n - 1 \in 1..n /\ n \in 1..n
    <3> HIDE DEF n
    <3> QED BY <1>1, <1>2, Below
  <2>3. /\ t \in Seq(Frames) /\ Len(t) = n - 1
        /\ \A k \in 1..(n - 1) : t[k] = frames[k]
    <3> DEFINE m == n - 1
    <3>1. m \in Nat /\ m \in Int /\ 1 \in Int /\ \A i \in 1..m : frames[i] \in Frames
      BY <1>1, <2>2
    <3> HIDE DEF m
    <3>2. /\ SubSeq(frames, 1, m) \in Seq(Frames)
          /\ Len(SubSeq(frames, 1, m)) = IF 1 <= m THEN m - 1 + 1 ELSE 0
          /\ \A i \in 1..(m - 1 + 1) : SubSeq(frames, 1, m)[i] = frames[1 + i - 1]
      BY <3>1, SubSeqProperties
    <3>3. Len(SubSeq(frames, 1, m)) = m
      BY <3>1, <3>2
    <3>4. ASSUME NEW k \in 1..m PROVE SubSeq(frames, 1, m)[k] = frames[k]
      BY <3>1, <3>2
    <3> QED BY <3>2, <3>3, <3>4 DEF m
  <2>4. t[n - 1] \in Frames /\ t[n - 1] = frames[n - 1] /\ frames[n].errors \in Nat
    <3>1. t[n - 1] = frames[n - 1]
      BY <2>2, <2>3
    <3>2. frames[n - 1] \in Frames /\ frames[n] \in Frames
      BY <1>1, <2>2, ElementOfSeq
    <3> QED BY <3>1, <3>2 DEF Frames
  <2>5. x \in Frames /\ x.pos = t[n - 1].pos /\ x.file = t[n - 1].file
    <3> DEFINE e == t[n - 1].errors + frames[n].errors
    <3>1. e \in Nat
      <4> DEFINE c == t[n - 1].errors
                 d == frames[n].errors
      <4>1. c \in Nat /\ d \in Nat /\ e = c + d
        BY <2>4 DEF Frames
      <4> HIDE DEF c, d, e
      <4> QED BY <4>1
    <3>2. x = [t[n - 1] EXCEPT !.errors = e]
      OBVIOUS
    <3> HIDE DEF e, x, t
    <3> QED BY <2>4, <3>1, <3>2 DEF Frames
  <2>6. ASSUME NEW k \in 1..n PROVE Stands(frames[k])
    BY DEF FramesInv, Stands
  <2>7. Stands(x)
    <3>1. Stands(t[n - 1])
      BY <2>2, <2>4, <2>6
    <3> HIDE DEF x, t
    <3> QED BY <2>5, <3>1 DEF Stands
  <2> HIDE DEF x, t
  <2>8. /\ frames' \in Seq(Frames) /\ Len(frames') = n - 1
        /\ \A k \in 1..(n - 1) : frames'[k] = IF k = n - 1 THEN x ELSE t[k]
    <3>1. n - 1 \in 1..Len(t)
      BY <2>2, <2>3
    <3> QED BY <2>1, <2>3, <2>5, <3>1, ExceptSeq
  <2>9. ASSUME NEW k \in 1..Len(frames') PROVE Stands(frames'[k])
    <3>1. CASE k = n - 1
      BY <2>7, <2>8, <3>1
    <3>2. CASE k # n - 1
      <4>1. k \in 1..n /\ frames'[k] = frames[k]
        BY <1>1, <2>3, <2>8, <3>2
      <4> QED BY <2>6, <4>1
    <3> QED BY <3>1, <3>2
  <2>10. frames' # <<>>
    BY <2>2, <2>8
  <2> QED BY <1>1, <2>1, <2>8, <2>9, <2>10, FramesKept
<1>3. CASE ~(n > 1)
  <2>1. frames' = <<>> /\ mainpc' = "returned"
    BY <1>3 DEF SegmentReturns
  <2>2. frames' \in Seq(Frames) /\ \A k \in 1..Len(frames') : Stands(frames'[k])
    BY <2>1
  <2> QED BY <1>1, <2>1, <2>2, FramesKept
<1> QED BY <1>2, <1>3

\* A text is submitted: the first call.
LEMMA SubmitKeepsFrames ==
  ASSUME Shapes, FramesInv, NEW f, Submit(f)
  PROVE  FramesInv'
<1>1. /\ f \in DOMAIN contents /\ frames' = <<Frame(f)>> /\ mainpc' = "parsing"
      /\ contents' = contents /\ importedFiles' = importedFiles
  BY DEF Submit
<1>2. Frame(f) \in Frames /\ Stands(Frame(f))
  BY <1>1, FrameTyped
<1>3. frames' \in Seq(Frames) /\ Len(frames') = 1 /\ frames'[1] = Frame(f)
  BY <1>1, <1>2
<1>4. frames' # <<>> /\ \A k \in 1..Len(frames') : Stands(frames'[k])
  BY <1>2, <1>3
<1>5. importedFiles' \subseteq DOMAIN contents
  BY <1>1 DEF FramesInv
<1> QED BY <1>1, <1>3, <1>4, <1>5, FramesKept

\* A step of main() outside the parser, from a point where it has no frames.
LEMMA OutsideParser ==
  ASSUME FramesInv, UNCHANGED <<contents, importedFiles, frames>>,
         mainpc = "parsing" <=> mainpc' = "parsing"
  PROVE  FramesInv'
<1>1. Frames' = Frames
  BY DEF Frames
<1> QED BY <1>1 DEF FramesInv

-----------------------------------------------------------------------------
(* The invariant.                                                          *)

\* What the worker and the queue hold is not touched.
LEMMA WorkStays ==
  ASSUME IInv, UNCHANGED <<contents, listClauses, jobs, pending, done, workerpc>>
  PROVE  Shapes' /\ QueueInv' /\ WorkerInv' /\ JobsInv' /\ SeesEarlierWork'
<1>1. Shapes' /\ QueueInv' /\ WorkerInv'
  BY DEF IInv, Shapes, QueueInv, WorkerInv
<1>2. \A k \in 1..Len(jobs) : Started(k)' => Started(k)
  BY DEF Started
<1> QED BY <1>1, <1>2, JobsStay DEF IInv

\* The invariant holds at the start.
LEMMA InitIInv == Init => IInv
<1> SUFFICES ASSUME Init PROVE IInv
  OBVIOUS
<1>1. PICK p \in Programs :
        /\ frames = IF p = None THEN <<>> ELSE <<Frame(p)>>
        /\ mainpc = IF p = None THEN "prompt" ELSE "parsing"
  BY DEF Init
<1>2. Shapes
  BY DEF Init, Shapes, Queue!Init
<1>3. FramesInv
  <2>1. importedFiles \subseteq DOMAIN contents
    BY DEF Init
  <2>2. CASE p = None
    BY <1>1, <2>1, <2>2 DEF FramesInv
  <2>3. CASE p # None
    <3>1. p \in DOMAIN contents
      BY <2>3, CorporaAssumption DEF CorporaAssumption, Init
    <3>2. Frame(p) \in Frames /\ Stands(Frame(p))
      BY <1>2, <3>1, FrameTyped
    <3>3. frames \in Seq(Frames) /\ Len(frames) = 1 /\ frames[1] = Frame(p)
      BY <1>1, <2>3, <3>2
    <3>4. frames # <<>> /\ \A k \in 1..Len(frames) : Stands(frames[k])
      BY <3>2, <3>3
    <3> QED BY <1>1, <2>1, <2>3, <3>3, <3>4 DEF FramesInv, Stands
  <2> QED BY <2>2, <2>3
<1>4. QueueInv /\ WorkerInv
  BY DEF Init, Queue!Init, QueueInv, WorkerInv
<1>5. JobsInv /\ SeesEarlierWork
  BY DEF Init, JobsInv, SeesEarlierWork
<1>6. QuietInv /\ ResultInv
  BY DEF Init, Queue!Init, QuietInv, ResultInv
<1> QED BY <1>2, <1>3, <1>4, <1>5, <1>6 DEF IInv

\* The parser's steps.
LEMMA ParserKeepsIInv ==
  ASSUME IInv, ParserStep
  PROVE  IInv'
<1>0. Shapes /\ FramesInv /\ QueueInv /\ WorkerInv /\ JobsInv /\ SeesEarlierWork
  BY DEF IInv
<1>1. CASE ParseClause
  <2> DEFINE e == [clause |-> Event.clause, by |-> 0]
  <2>1. /\ AtEvent /\ Event.kind = "clause" /\ listClauses' = Append(listClauses, e)
        /\ frames' = Front(frames) \o <<Past(0)>>
        /\ UNCHANGED <<contents, importedFiles, mainpc, jobs, pending, done, workerpc,
                       result>>
    BY <1>1 DEF ParseClause, mainVars, queueVars
  <2>2. e \in Entries /\ e.by = 0
    BY <1>0, <2>1, EventTyped DEF Entries, IsEvent
  <2> HIDE DEF e
  <2>3. Shapes'
    BY <1>0, <2>1, <2>2, Appended DEF Shapes
  <2>4. FramesInv'
    BY <1>0, <2>1, PastTyped, EventKeepsFrames
  <2>5. QueueInv' /\ WorkerInv'
    BY <1>0, <2>1 DEF QueueInv, WorkerInv
  <2>6. JobsInv'
    BY <1>0, <2>1, <2>2, BoundsGrow DEF JobsInv
  <2>7. SeesEarlierWork'
    <3>1. ASSUME NEW k \in 1..Len(jobs), Started(k)' PROVE Sees(k)'
      <4>1. Sees(k)
        BY <1>0, <2>1, <3>1 DEF SeesEarlierWork, Sees, Started
      <4>2. e.by \notin 1..(k - 1)
        BY <2>2
      <4> QED BY <1>0, <2>1, <2>2, <4>1, <4>2, ListGrows
    <3> QED BY <2>1, <3>1 DEF SeesEarlierWork, Sees
  <2>8. QuietInv' /\ ResultInv'
    BY <2>1 DEF IInv, QuietInv, ResultInv
  <2> QED BY <2>3, <2>4, <2>5, <2>6, <2>7, <2>8 DEF IInv
<1>2. CASE ParseQuery
  <2> DEFINE l == IF session THEN "session" ELSE "program"
             q == Event.query
  <2>1. /\ AtEvent /\ Event.kind = "query" /\ jobs' = Append(jobs, Job(q, l))
        /\ Queue!Add(Len(jobs')) /\ frames' = Front(frames) \o <<Past(0)>>
        /\ UNCHANGED <<contents, listClauses, importedFiles, mainpc, workerpc, result>>
    BY <1>2 DEF ParseQuery, mainVars
  <2>2. q \in Questions /\ l \in {"program", "session", "barrier"}
    BY <1>0, <2>1, EventTyped DEF IsEvent
  <2> HIDE DEF q, l
  <2>3. Job(q, l) \in JobRecords
    BY <1>0, <2>2, JobTyped
  <2>4. /\ jobs' \in Seq(JobRecords) /\ pending' \in Seq(Nat) /\ done' = done
        /\ QueueInv' /\ pending' # <<>>
    BY <1>0, <2>1, <2>3, AddKeepsQueue
  <2>5. Shapes' /\ WorkerInv'
    BY <1>0, <2>1, <2>4 DEF Shapes, WorkerInv
  <2>6. FramesInv'
    BY <1>0, <2>1, PastTyped, EventKeepsFrames
  <2>7. JobsInv' /\ SeesEarlierWork'
    BY <1>0, <2>1, <2>2, SubmitKeepsJobs
  <2>8. QuietInv' /\ ResultInv'
    BY <2>1 DEF IInv, QuietInv, ResultInv, AtEvent
  <2> QED BY <2>4, <2>5, <2>6, <2>7, <2>8 DEF IInv
<1>3. ASSUME ParseImport \/ ParseError \/ SegmentReturns, FramesInv'
      PROVE  IInv'
  <2>1. UNCHANGED <<contents, listClauses, jobs, pending, done, workerpc, result>>
    BY <1>3 DEF ParseImport, ParseError, SegmentReturns, mainVars, queueVars
  <2>2. mainpc' \notin {"prompt", "done"}
    BY <1>3 DEF ParseImport, ParseError, SegmentReturns, mainVars, AtEvent
  <2>3. Shapes' /\ QueueInv' /\ WorkerInv' /\ JobsInv' /\ SeesEarlierWork'
    BY <2>1, WorkStays
  <2>4. QuietInv' /\ ResultInv'
    BY <2>1, <2>2 DEF IInv, QuietInv, ResultInv
  <2> QED BY <1>3, <2>3, <2>4 DEF IInv
<1>4. CASE ParseImport
  BY <1>0, <1>3, <1>4, ImportKeepsFrames
<1>5. CASE ParseError
  <2> DEFINE x == [Past(1) EXCEPT !.pos = Len(contents[TopFrame.file]) + 1]
  <2>1. /\ AtEvent /\ frames' = Front(frames) \o <<x>>
        /\ UNCHANGED <<contents, importedFiles, mainpc>>
    BY <1>5 DEF ParseError, mainVars
  <2>2. Past(1) \in Frames /\ Past(1).file = TopFrame.file
    BY <1>0, <2>1, PastTyped
  <2>3. Len(contents[TopFrame.file]) \in Nat
    BY <1>0, <2>2, FileLength DEF Frames
  <2> DEFINE end == Len(contents[TopFrame.file]) + 1
  <2>4. x = [Past(1) EXCEPT !.pos = end] /\ end \in Nat \ {0}
    BY <2>3
  <2> HIDE DEF x, end
  <2>5. x \in Frames /\ x.pos = end /\ x.file = TopFrame.file
    BY <2>2, <2>4 DEF Frames
  <2>6. Stands(x)
    BY <2>3, <2>5 DEF Stands, end
  <2> QED BY <1>0, <1>3, <1>5, <2>1, <2>5, <2>6, EventKeepsFrames
<1>6. CASE SegmentReturns
  BY <1>0, <1>3, <1>6, ReturnKeepsFrames
<1> QED BY <1>1, <1>2, <1>4, <1>5, <1>6 DEF ParserStep

\* The steps of main() outside the parser.
LEMMA MainKeepsIInv ==
  ASSUME IInv,
         \/ KeepParseErrors \/ ReadCount \/ WriteCount \/ WaitForEngine
         \/ EngineIdle \/ Exit \/ \E f \in Typed : Submit(f)
  PROVE  IInv'
<1>0. Shapes /\ FramesInv /\ QueueInv /\ WorkerInv /\ JobsInv /\ SeesEarlierWork
  BY DEF IInv
<1>1. CASE KeepParseErrors \/ ReadCount \/ WriteCount
  <2>1. /\ UNCHANGED <<contents, importedFiles, frames, listClauses, jobs, pending,
                       done, workerpc, result>>
        /\ mainpc # "parsing" /\ mainpc' \notin {"parsing", "prompt", "done"}
    BY <1>1 DEF KeepParseErrors, ReadCount, WriteCount, parserVars, queueVars
  <2>2. Shapes' /\ QueueInv' /\ WorkerInv' /\ JobsInv' /\ SeesEarlierWork'
    BY <2>1, WorkStays
  <2>3. FramesInv' /\ QuietInv' /\ ResultInv'
    BY <1>0, <2>1, OutsideParser DEF IInv, QuietInv, ResultInv
  <2> QED BY <2>2, <2>3 DEF IInv
<1>2. CASE WaitForEngine
  <2>1. /\ jobs' = Append(jobs, Job(TrivialQuery, "barrier")) /\ Queue!Add(Len(jobs'))
        /\ UNCHANGED <<contents, importedFiles, frames, listClauses, workerpc, result>>
        /\ mainpc = "counted" /\ mainpc' = "waiting"
    BY <1>2 DEF WaitForEngine, parserVars
  <2>2. TrivialQuery \in Questions /\ "barrier" \in {"program", "session", "barrier"}
    BY DEF TrivialQuery, Questions
  <2>3. Job(TrivialQuery, "barrier") \in JobRecords
    BY <1>0, <2>2, JobTyped
  <2>4. /\ jobs' \in Seq(JobRecords) /\ pending' \in Seq(Nat) /\ done' = done
        /\ QueueInv' /\ pending' # <<>>
    BY <1>0, <2>1, <2>3, AddKeepsQueue
  <2>5. Shapes' /\ WorkerInv'
    BY <1>0, <2>1, <2>4 DEF Shapes, WorkerInv
  <2>6. JobsInv' /\ SeesEarlierWork'
    BY <1>0, <2>1, <2>2, SubmitKeepsJobs
  <2>7. FramesInv' /\ QuietInv' /\ ResultInv'
    BY <1>0, <2>1, OutsideParser DEF IInv, QuietInv, ResultInv
  <2> QED BY <2>4, <2>5, <2>6, <2>7 DEF IInv
<1>3. CASE EngineIdle
  <2>1. /\ UNCHANGED <<contents, importedFiles, frames, listClauses, jobs, pending,
                       done, workerpc, result>>
        /\ mainpc = "waiting" /\ mainpc' = "prompt" /\ Len(done) = Len(jobs)
    BY <1>3 DEF EngineIdle, parserVars, queueVars
  <2>2. pending = <<>>
    <3>1. Len(pending) = 0
      BY <1>0, <2>1 DEF QueueInv, Shapes
    <3> QED BY <1>0, <3>1 DEF Shapes
  <2>3. Shapes' /\ QueueInv' /\ WorkerInv' /\ JobsInv' /\ SeesEarlierWork'
    BY <2>1, WorkStays
  <2>4. FramesInv' /\ QuietInv' /\ ResultInv'
    BY <1>0, <2>1, <2>2, OutsideParser DEF IInv, QuietInv, ResultInv
  <2> QED BY <2>3, <2>4 DEF IInv
<1>4. CASE Exit
  <2>1. /\ UNCHANGED <<contents, importedFiles, frames, listClauses, jobs, pending,
                       done, workerpc>>
        /\ mainpc = "prompt" /\ mainpc' = "done" /\ result' \in {0, 1}
    BY <1>4 DEF Exit, parserVars, queueVars
  <2>2. Shapes' /\ QueueInv' /\ WorkerInv' /\ JobsInv' /\ SeesEarlierWork'
    BY <2>1, WorkStays
  <2>3. FramesInv' /\ QuietInv' /\ ResultInv'
    BY <1>0, <2>1, OutsideParser DEF IInv, QuietInv, ResultInv
  <2> QED BY <2>2, <2>3 DEF IInv
<1>5. ASSUME NEW f \in Typed, Submit(f) PROVE IInv'
  <2>1. /\ UNCHANGED <<contents, listClauses, jobs, pending, done, workerpc, result>>
        /\ mainpc' = "parsing"
    BY <1>5 DEF Submit, queueVars
  <2>2. Shapes' /\ QueueInv' /\ WorkerInv' /\ JobsInv' /\ SeesEarlierWork'
    BY <2>1, WorkStays
  <2>3. FramesInv'
    BY <1>0, <1>5, SubmitKeepsFrames
  <2>4. QuietInv' /\ ResultInv'
    BY <2>1 DEF IInv, QuietInv, ResultInv
  <2> QED BY <2>2, <2>3, <2>4 DEF IInv
<1> QED BY <1>1, <1>2, <1>3, <1>4, <1>5

\* The steps of the worker.
LEMMA WorkerKeepsIInv ==
  ASSUME IInv, WorkerStep
  PROVE  IInv'
<1>0. Shapes /\ FramesInv /\ QueueInv /\ WorkerInv /\ JobsInv /\ SeesEarlierWork
  BY DEF IInv
<1>1. /\ UNCHANGED <<contents, importedFiles, frames, mainpc, result>>
      /\ FramesInv' /\ ResultInv'
  <2>1. UNCHANGED <<contents, importedFiles, frames, mainpc, result>>
    BY DEF WorkerStep, StartJob, AssertClause, FinishJob, WorkerReadCount,
           WorkerWriteCount, DropJob, parserVars, mainVars
  <2> QED BY <1>0, <2>1, OutsideParser DEF IInv, ResultInv
<1>2. CASE StartJob
  <2>1. /\ pending # <<>> /\ workerpc' = "running"
        /\ UNCHANGED <<listClauses, pending, done>>
    BY <1>2 DEF StartJob, queueVars
  <2>2. /\ jobs' \in Seq(JobRecords) /\ Len(jobs') = Len(jobs)
        /\ JobsInv' /\ SeesEarlierWork'
    BY <1>0, <1>2, StartKeepsJobs
  <2>3. Shapes' /\ QueueInv' /\ WorkerInv' /\ QuietInv'
    BY <1>0, <1>1, <2>1, <2>2 DEF IInv, Shapes, QueueInv, WorkerInv, QuietInv
  <2> QED BY <1>1, <2>2, <2>3 DEF IInv
<1>3. CASE AssertClause
  <2>1. UNCHANGED <<workerpc, pending, done>>
    BY <1>3 DEF AssertClause, queueVars
  <2>2. /\ jobs' \in Seq(JobRecords) /\ Len(jobs') = Len(jobs)
        /\ listClauses' \in Seq(Entries) /\ JobsInv' /\ SeesEarlierWork'
    BY <1>0, <1>3, AssertKeepsJobs
  <2>3. Shapes' /\ QueueInv' /\ WorkerInv' /\ QuietInv'
    BY <1>0, <1>1, <2>1, <2>2 DEF IInv, Shapes, QueueInv, WorkerInv, QuietInv
  <2> QED BY <1>1, <2>2, <2>3 DEF IInv
<1>4. CASE FinishJob \/ WorkerWriteCount
  <2>1. /\ workerpc \in {"running", "counting"} /\ workerpc' = "dropping"
        /\ UNCHANGED <<listClauses, jobs>> /\ Queue!Finish
    BY <1>4 DEF FinishJob, WorkerWriteCount, Searched
  <2>2. /\ pending' \in Seq(Nat) /\ done' \in Seq(Nat)
        /\ QueueInv' /\ Len(done') = Len(done) + 1
    BY <1>0, <2>1, FinishKeepsQueue
  <2>3. Shapes' /\ WorkerInv'
    BY <1>0, <1>1, <2>1, <2>2 DEF Shapes, WorkerInv
  <2>4. QuietInv'
    <3>1. pending # <<>>
      BY <1>0, <2>1 DEF WorkerInv
    <3> QED BY <1>1, <3>1 DEF IInv, QuietInv
  <2>5. ASSUME NEW k \in 1..Len(jobs), Started(k)' PROVE Started(k)
    <3>1. k <= Len(done) + 1 /\ Len(done) \in Nat
      BY <1>0, <2>1, <2>2, <2>5 DEF Started, Shapes
    <3> QED BY <2>1, <3>1 DEF Started
  <2>6. JobsInv' /\ SeesEarlierWork'
    BY <1>0, <2>1, <2>5, JobsStay
  <2> QED BY <1>1, <2>2, <2>3, <2>4, <2>6 DEF IInv
<1>5. CASE WorkerReadCount \/ DropJob
  <2>1. /\ UNCHANGED <<listClauses, jobs, pending, done>>
        /\ \/ workerpc = "running" /\ workerpc' = "counting"
           \/ workerpc' = "idle"
    BY <1>5 DEF WorkerReadCount, DropJob, Searched, queueVars
  <2>2. Shapes' /\ QueueInv' /\ WorkerInv' /\ QuietInv'
    BY <1>0, <1>1, <2>1 DEF IInv, Shapes, QueueInv, WorkerInv, QuietInv
  <2>3. \A k \in 1..Len(jobs) : Started(k)' => Started(k)
    BY <2>1 DEF Started
  <2>4. JobsInv' /\ SeesEarlierWork'
    BY <1>0, <2>1, <2>3, JobsStay
  <2> QED BY <1>1, <2>2, <2>4 DEF IInv
<1> QED BY <1>2, <1>3, <1>4, <1>5 DEF WorkerStep

\* The invariant holds of every run.
LEMMA Inductive == Spec => []IInv
<1>1. ASSUME IInv, UNCHANGED vars PROVE IInv'
  <2>1. /\ UNCHANGED <<contents, listClauses, jobs, pending, done, workerpc>>
        /\ UNCHANGED <<importedFiles, frames, mainpc, result>>
    BY <1>1 DEF vars, parserVars, mainVars, queueVars
  <2>2. Shapes' /\ QueueInv' /\ WorkerInv' /\ JobsInv' /\ SeesEarlierWork'
    BY <1>1, <2>1, WorkStays
  <2>3. FramesInv' /\ QuietInv' /\ ResultInv'
    BY <1>1, <2>1, OutsideParser DEF IInv, QuietInv, ResultInv
  <2> QED BY <2>2, <2>3 DEF IInv
<1>2. IInv /\ [Next]_vars => IInv'
  BY <1>1, ParserKeepsIInv, MainKeepsIInv, WorkerKeepsIInv DEF Next, MainStep
<1> QED BY InitIInv, <1>2, PTL DEF Spec

-----------------------------------------------------------------------------

\* The invariant has the types, and the numbers of the jobs are those of the
\* queue, the finished ones first.
LEMMA IInvTypes == IInv => TypeOK
<1> SUFFICES ASSUME IInv PROVE TypeOK
  OBVIOUS
<1>1. ASSUME NEW k \in 1..Len(frames)
      PROVE  /\ frames[k].file \in DOMAIN contents
             /\ frames[k].pos \in 1..(Len(contents[frames[k].file]) + 1)
             /\ frames[k].errors \in Nat
  <2>1. frames[k] \in Frames
    BY DEF IInv, FramesInv
  <2>2. /\ frames[k].file \in DOMAIN contents /\ frames[k].pos \in Nat \ {0}
        /\ frames[k].errors \in Nat
    BY <2>1 DEF Frames
  <2>3. Len(contents[frames[k].file]) \in Nat
    BY <2>2, FileLength DEF IInv
  <2>4. frames[k].pos <= Len(contents[frames[k].file]) + 1
    BY DEF IInv, FramesInv
  <2> QED BY <2>2, <2>3, <2>4
<1>2. done \o pending = [k \in 1..Len(jobs) |-> k]
  <2> DEFINE m == Len(jobs)
  <2>1. /\ done \in Seq(Nat) /\ pending \in Seq(Nat) /\ m \in Nat
        /\ Len(done) \in Nat /\ Len(pending) \in Nat
        /\ m = Len(done) + Len(pending)
    BY DEF IInv, Shapes, QueueInv
  <2>2. /\ done \o pending \in Seq(Nat) /\ Len(done \o pending) = m
        /\ \A i \in 1..m : (done \o pending)[i] =
             IF i <= Len(done) THEN done[i] ELSE pending[i - Len(done)]
    BY <2>1, ConcatProperties
  <2>3. ASSUME NEW i \in 1..m PROVE (done \o pending)[i] = i
    <3>1. CASE i <= Len(done)
      BY <2>1, <2>2, <3>1 DEF IInv, QueueInv
    <3>2. CASE i > Len(done)
      <4>1. i - Len(done) \in 1..Len(pending)
        BY <2>1, <3>2
      <4>2. pending[i - Len(done)] = Len(done) + (i - Len(done))
        BY <4>1 DEF IInv, QueueInv
      <4> QED BY <2>1, <2>2, <3>2, <4>2
    <3> QED BY <2>1, <3>1, <3>2
  <2>4. done \o pending = [k \in DOMAIN (done \o pending) |-> (done \o pending)[k]]
    BY <2>2, LenProperties
  <2>5. DOMAIN (done \o pending) = 1..m
    BY <2>2, LenProperties
  <2> QED BY <2>3, <2>4, <2>5
<1>3. ASSUME NEW k \in 1..Len(jobs)
      PROVE  /\ jobs[k].root \in 0..Len(listClauses)
             /\ jobs[k].asserted \in 0..Len(jobs[k].query.asserts)
  <2>1. jobs[k] \in JobRecords
    BY DEF IInv, Shapes
  <2>2. /\ jobs[k].root \in Nat /\ jobs[k].asserted \in Nat
        /\ Len(jobs[k].query.asserts) \in Nat
    BY <2>1 DEF JobRecords, Questions
  <2>3. Len(listClauses) \in Nat
    BY DEF IInv, Shapes
  <2>4. jobs[k].root <= Len(listClauses) /\ jobs[k].asserted <= Len(jobs[k].query.asserts)
    BY DEF IInv, JobsInv
  <2> QED BY <2>2, <2>3, <2>4
<1>4. /\ importedFiles \subseteq DOMAIN contents
      /\ mainpc = "parsing" <=> frames # <<>>
  BY DEF IInv, FramesInv
<1>5. /\ workerpc \in {"idle", "running", "counting", "dropping"}
      /\ workerpc \in {"running", "counting"} => pending # <<>>
      /\ result \in {None, 0, 1}
  BY DEF IInv, WorkerInv, ResultInv
<1> QED BY <1>1, <1>2, <1>3, <1>4, <1>5 DEF TypeOK

\* TypeOK: types, and the numbers of the jobs are those of the queue, for any
\* files that import each other in any way.
THEOREM TypeCorrect == Spec => []TypeOK
BY Inductive, IInvTypes, PTL

\* SeesEarlierWork: whatever the two threads do first, a search starts from all
\* that was parsed before its query and all that was asserted by queries ahead.
THEOREM SearchesSeeEarlierWork == Spec => []SeesEarlierWork
<1>1. IInv => SeesEarlierWork
  BY DEF IInv
<1> QED BY Inductive, <1>1, PTL

\* NothingInFlight: waitForEngineIdle() is enough, main() returns with no job
\* left in the queue and no search under way.
THEOREM QueueEmptyAtTheEnd == Spec => []NothingInFlight
<1>1. IInv => NothingInFlight
  BY DEF IInv, QuietInv, WorkerInv, NothingInFlight, Ended
<1> QED BY Inductive, <1>1, PTL

-----------------------------------------------------------------------------
(* The exit code of a program.  Where an error is kept while it travels from *)
(* the event that met it to main()'s return is the invariant.               *)

\* The text of unify-run's program, and no other, has been given.
ProgramOnly == Len(texts) = 1 /\ texts[1] \in Programs

\* An error is in a call of the parser under way, in what the outermost call
\* returned, or in one of main()'s counts.
InFrames == \E k \in 1..Len(frames) : frames[k].errors > 0

Reported ==
  \/ InFrames
  \/ mainpc = "returned" /\ returned > 0
  \/ parseErrors > 0
  \/ runtimeErrors > 0

\* A program's queries tell runtimeErrors: nobody touches the count that main()
\* and the worker share at the prompt.
NoSession ==
  /\ session => mainpc \in {"prompt", "done"}
  /\ mainpc \in {"parsing", "returned", "counted", "waiting", "prompt", "done"}
  /\ \A k \in 1..Len(jobs) : jobs[k].onFinished # "session"
  /\ workerpc # "counting"

\* No error is forgotten, and none is made up.
CountsInv ==
  /\ {returned, parseErrors, runtimeErrors, errorsMet} \subseteq Nat
  /\ mainpc \in {"parsing", "returned"} => parseErrors = 0
  /\ mainpc # "done" => sessionErrors = 0 /\ (errorsMet > 0 <=> Reported)
  /\ ExitCodeTells

ExitInv == ProgramOnly => NoSession /\ CountsInv

TextsInv == texts \in Seq(Programs \cup Typed)

-----------------------------------------------------------------------------

LEMMA InitExitInv == Init => TextsInv /\ ExitInv
<1> SUFFICES ASSUME Init PROVE TextsInv /\ ExitInv
  OBVIOUS
<1>1. PICK p \in Programs :
        /\ frames = IF p = None THEN <<>> ELSE <<Frame(p)>>
        /\ mainpc = IF p = None THEN "prompt" ELSE "parsing"
        /\ session = (p = None)
        /\ texts = IF p = None THEN <<>> ELSE <<p>>
  BY DEF Init
<1>2. TextsInv
  <2>1. CASE p = None
    BY <1>1, <2>1 DEF TextsInv
  <2>2. CASE p # None
    <3>1. texts = <<p>> /\ p \in Programs \cup Typed
      BY <1>1, <2>2
    <3> QED BY <3>1 DEF TextsInv
  <2> QED BY <2>1, <2>2
<1>3. ASSUME ProgramOnly PROVE NoSession /\ CountsInv
  <2>1. p # None
    <3>1. Len(<<>>) # 1
      OBVIOUS
    <3> QED BY <1>1, <1>3, <3>1 DEF ProgramOnly
  <2>2. frames = <<Frame(p)>> /\ mainpc = "parsing" /\ session = FALSE
    BY <1>1, <2>1
  <2>3. ~InFrames
    <3>1. Len(frames) = 1 /\ frames[1].errors = 0
      BY <2>2 DEF Frame
    <3> QED BY <3>1 DEF InFrames
  <2>4. /\ returned = 0 /\ parseErrors = 0 /\ runtimeErrors = 0 /\ sessionErrors = 0
        /\ errorsMet = 0 /\ jobs = <<>> /\ workerpc = "idle"
    BY DEF Init
  <2>5. NoSession
    BY <2>2, <2>4 DEF NoSession
  <2>6. ~Reported
    BY <2>3, <2>4, <2>2 DEF Reported
  <2>7. CountsInv
    <3>1. ~Ended
      BY <2>2 DEF Ended
    <3> QED BY <2>4, <2>2, <2>6, <3>1 DEF CountsInv, ExitCodeTells
  <2> QED BY <2>5, <2>7
<1> QED BY <1>2, <1>3 DEF ExitInv

-----------------------------------------------------------------------------
(* The frames, by what a step does to the innermost call.                  *)

\* An event adds its errors to the call that met it.
LEMMA TopErrors ==
  ASSUME Shapes, FramesInv, AtEvent, NEW d \in Nat, NEW x \in Frames,
         x.errors = TopFrame.errors + d, frames' = Front(frames) \o <<x>>
  PROVE  InFrames' <=> InFrames \/ d > 0
<1>1. frames # <<>> /\ TopFrame = frames[Len(frames)]
  BY EventTyped DEF TopFrame, Last
<1>2. frames \in Seq(Frames) /\ Len(frames) \in Nat \ {0}
  BY <1>1 DEF FramesInv
<1>3. /\ Len(frames') = Len(frames)
      /\ \A k \in 1..Len(frames) :
           frames'[k] = IF k = Len(frames) THEN x ELSE frames[k]
  BY <1>1, <1>2, FrontReplaced
<1>4. TopFrame.errors \in Nat
  BY EventTyped DEF Frames
<1>5. ASSUME InFrames' PROVE InFrames \/ d > 0
  <2>1. PICK k \in 1..Len(frames) : frames'[k].errors > 0
    BY <1>3, <1>5 DEF InFrames
  <2>2. CASE k = Len(frames)
    BY <1>1, <1>2, <1>3, <1>4, <2>1, <2>2 DEF InFrames
  <2>3. CASE k # Len(frames)
    BY <1>3, <2>1, <2>3 DEF InFrames
  <2> QED BY <2>2, <2>3
<1>6. ASSUME InFrames PROVE InFrames'
  <2>1. PICK k \in 1..Len(frames) : frames[k].errors > 0
    BY <1>6 DEF InFrames
  <2>2. CASE k = Len(frames)
    <3>1. x.errors > 0
      BY <1>1, <1>4, <2>1, <2>2
    <3> QED BY <1>3, <2>2, <3>1 DEF InFrames
  <2>3. CASE k # Len(frames)
    BY <1>3, <2>1, <2>3 DEF InFrames
  <2> QED BY <2>2, <2>3
<1>7. ASSUME d > 0 PROVE InFrames'
  <2>1. Len(frames) \in 1..Len(frames') /\ frames'[Len(frames)].errors > 0
    BY <1>2, <1>3, <1>4, <1>7
  <2> QED BY <2>1 DEF InFrames
<1> QED BY <1>5, <1>6, <1>7

\* The event at hand, passed with so many more errors.
LEMMA PastErrors ==
  ASSUME Shapes, FramesInv, AtEvent, NEW d \in Nat
  PROVE  Past(d) \in Frames /\ Past(d).errors = TopFrame.errors + d
<1>1. TopFrame \in Frames
  BY EventTyped
<1>2. Past(d) \in Frames
  BY PastTyped
<1> DEFINE m == TopFrame.errors + d
<1>3. Past(d) = [TopFrame EXCEPT !.pos = @ + 1, !.errors = m]
  BY DEF Past
<1> HIDE DEF m
<1>4. Past(d).errors = m
  BY <1>1, <1>3 DEF Frames
<1> QED BY <1>2, <1>4 DEF m

\* An imported file starts without errors.
LEMMA ImportErrors ==
  ASSUME Shapes, FramesInv, ParseImport
  PROVE  /\ errorsMet' = errorsMet => (InFrames' <=> InFrames)
         /\ errorsMet' = errorsMet \/ (errorsMet' = errorsMet + 1 /\ InFrames')
<1>1. AtEvent
  BY DEF ParseImport
<1>2. CASE Event.file \notin DOMAIN contents
  <2>1. frames' = Front(frames) \o <<Past(1)>> /\ errorsMet' = errorsMet + 1
    BY <1>2 DEF ParseImport
  <2>2. InFrames'
    BY <1>1, <2>1, PastErrors, TopErrors
  <2> QED BY <2>1, <2>2
<1>3. CASE Event.file \in DOMAIN contents
  <2> DEFINE fs == Front(frames) \o <<Past(0)>>
  <2>1. /\ errorsMet' = errorsMet
        /\ frames' = fs \o (IF Event.file \in importedFiles THEN <<>>
                            ELSE <<Frame(Event.file)>>)
    BY <1>3 DEF ParseImport
  <2>2. /\ fs \in Seq(Frames) /\ Len(fs) = Len(frames)
        /\ \A k \in 1..Len(frames) : fs[k].errors = frames[k].errors
    <3>1. frames # <<>> /\ TopFrame = frames[Len(frames)] /\ frames \in Seq(Frames)
      BY <1>1, EventTyped DEF TopFrame, Last, FramesInv
    <3>2. Past(0) \in Frames /\ Past(0).errors = TopFrame.errors
      <4>1. TopFrame.errors \in Nat
        BY <1>1, EventTyped DEF Frames
      <4> QED BY <1>1, <4>1, PastErrors
    <3> QED BY <3>1, <3>2, FrontReplaced
  <2> HIDE DEF fs
  <2>3. InFrames <=> \E k \in 1..Len(fs) : fs[k].errors > 0
    BY <2>2 DEF InFrames
  <2>4. CASE Event.file \in importedFiles
    <3>1. frames' = fs
      BY <2>1, <2>2, <2>4
    <3> QED BY <2>1, <2>3, <3>1 DEF InFrames
  <2>5. CASE Event.file \notin importedFiles
    <3>1. frames' = Append(fs, Frame(Event.file))
      BY <2>1, <2>2, <2>5
    <3>2. Frame(Event.file) \in Frames /\ Frame(Event.file).errors = 0
      BY <1>3, FrameTyped DEF Frame
    <3>3. /\ Len(fs) \in Nat /\ Len(frames') = Len(fs) + 1
          /\ frames'[Len(fs) + 1] = Frame(Event.file)
          /\ \A k \in 1..Len(fs) : frames'[k] = fs[k]
      BY <2>2, <3>1, <3>2, Appended
    <3>4. ASSUME InFrames' PROVE InFrames
      <4>1. PICK k \in 1..Len(frames') : frames'[k].errors > 0
        BY <3>4 DEF InFrames
      <4>2. k # Len(fs) + 1
        BY <3>2, <3>3, <4>1
      <4>3. k \in 1..Len(fs)
        BY <3>3, <4>1, <4>2
      <4> QED BY <2>3, <3>3, <4>1, <4>3
    <3>5. ASSUME InFrames PROVE InFrames'
      <4>1. PICK k \in 1..Len(fs) : fs[k].errors > 0
        BY <2>3, <3>5
      <4>2. k \in 1..Len(frames') /\ frames'[k].errors > 0
        BY <3>3, <4>1
      <4> QED BY <4>2 DEF InFrames
    <3> QED BY <2>1, <3>4, <3>5
  <2> QED BY <2>4, <2>5
<1> QED BY <1>2, <1>3

\* A call hands its errors to the import that made it, or to main().
LEMMA ReturnErrors ==
  ASSUME Shapes, FramesInv, SegmentReturns
  PROVE  /\ mainpc' = "parsing" => (InFrames' <=> InFrames) /\ returned' = returned
         /\ mainpc' # "parsing" => /\ mainpc' = "returned" /\ returned' \in Nat
                                   /\ frames' = <<>>
                                   /\ returned' > 0 <=> InFrames
<1> DEFINE n == Len(frames)
<1>1. /\ mainpc = "parsing" /\ frames # <<>> /\ frames \in Seq(Frames)
      /\ n \in Nat \ {0}
  BY DEF FramesInv, SegmentReturns
<1>2. ASSUME NEW k \in 1..n PROVE frames[k].errors \in Nat
  <2>1. frames[k] \in Frames
    BY <1>1, ElementOfSeq
  <2> QED BY <2>1 DEF Frames
<1>3. CASE n > 1
  <2> DEFINE t == SubSeq(frames, 1, n - 1)
             e == t[n - 1].errors + frames[n].errors
  <2>1. /\ mainpc' = mainpc /\ returned' = returned
        /\ frames' = [t EXCEPT ![n - 1].errors = e]
    BY <1>3 DEF SegmentReturns
  <2>2. /\ n - 1 \in Nat \ {0} /\ n - 1 \in 1..(n - 1)
        /\ n - 1 \in 1..n /\ n \in 1..n
    <3> HIDE DEF n
    <3> QED BY <1>1, <1>3, Below
  <2>3. /\ t \in Seq(Frames) /\ Len(t) = n - 1
        /\ \A k \in 1..(n - 1) : t[k] = frames[k]
    <3> DEFINE m == n - 1
    <3>1. m \in Nat /\ m \in Int /\ 1 \in Int /\ \A i \in 1..m : frames[i] \in Frames
      BY <1>1, <2>2
    <3> HIDE DEF m
    <3>2. /\ SubSeq(frames, 1, m) \in Seq(Frames)
          /\ Len(SubSeq(frames, 1, m)) = IF 1 <= m THEN m - 1 + 1 ELSE 0
          /\ \A i \in 1..(m - 1 + 1) : SubSeq(frames, 1, m)[i] = frames[1 + i - 1]
      BY <3>1, SubSeqProperties
    <3>3. Len(SubSeq(frames, 1, m)) = m
      BY <3>1, <3>2
    <3>4. ASSUME NEW k \in 1..m PROVE SubSeq(frames, 1, m)[k] = frames[k]
      BY <3>1, <3>2
    <3> QED BY <3>2, <3>3, <3>4 DEF m
  <2> DEFINE m == n - 1
             x == [t[m] EXCEPT !.errors = e]
  <2>4. e = frames[m].errors + frames[n].errors
    BY <2>2, <2>3
  <2>5. t[m] \in Frames /\ m \in 1..Len(t)
    BY <2>2, <2>3, ElementOfSeq
  <2>6. frames' = [t EXCEPT ![m] = x]
    BY <2>1
  <2> HIDE DEF t, e
  <2>7. x.errors = e
    BY <2>5 DEF Frames
  <2> HIDE DEF x
  <2>8. /\ Len(frames') = m /\ frames'[m].errors = e
        /\ \A k \in 1..m : k # m => frames'[k] = frames[k]
    <3>1. /\ DOMAIN t = 1..m /\ t = [i \in 1..m |-> t[i]]
      BY <2>3
    <3>2. frames' = [i \in 1..m |-> IF i = m THEN x ELSE t[i]]
      BY <2>6, <3>1
    <3>3. Len(frames') = m
      BY <2>2, <3>2
    <3> QED BY <2>2, <2>3, <2>7, <3>2, <3>3
  <2>9. ASSUME InFrames' PROVE InFrames
    <3>1. PICK k \in 1..m : frames'[k].errors > 0
      BY <2>8, <2>9 DEF InFrames
    <3>2. CASE k = m
      <4>1. frames[m].errors > 0 \/ frames[n].errors > 0
        BY <1>2, <2>2, <2>4, <2>8, <3>1, <3>2
      <4> QED BY <2>2, <4>1 DEF InFrames
    <3>3. CASE k # m
      <4>1. frames[k].errors > 0 /\ k \in 1..n
        BY <1>1, <2>8, <3>1, <3>3
      <4> QED BY <4>1 DEF InFrames
    <3> QED BY <3>2, <3>3
  <2>10. ASSUME InFrames PROVE InFrames'
    <3>1. PICK k \in 1..n : frames[k].errors > 0
      BY <2>10 DEF InFrames
    <3>2. CASE k \in {m, n}
      <4>1. frames'[m].errors > 0
        BY <1>2, <2>2, <2>4, <2>8, <3>1, <3>2
      <4> QED BY <2>2, <2>8, <4>1 DEF InFrames
    <3>3. CASE k \notin {m, n}
      <4>1. k \in 1..m /\ frames'[k].errors > 0
        BY <1>1, <2>8, <3>1, <3>3
      <4> QED BY <2>8, <4>1 DEF InFrames
    <3> QED BY <3>2, <3>3
  <2> QED BY <1>1, <2>1, <2>9, <2>10
<1>4. CASE ~(n > 1)
  <2>1. n = 1
    <3> HIDE DEF n
    <3> QED BY <1>1, <1>4
  <2>2. frames' = <<>> /\ returned' = frames[1].errors /\ mainpc' = "returned"
    BY <1>4 DEF SegmentReturns
  <2>3. returned' > 0 <=> InFrames
    BY <2>1, <2>2 DEF InFrames
  <2> QED BY <1>2, <2>1, <2>2, <2>3
<1> QED BY <1>3, <1>4

-----------------------------------------------------------------------------

\* Nothing typed after the program: the step is none of the prompt's.
LEMMA OnlyProgramStays ==
  ASSUME TextsInv, Programs \cap Typed = {}, [Next]_vars
  PROVE  /\ TextsInv'
         /\ ProgramOnly' => ProgramOnly /\ texts' = texts
<1>1. CASE UNCHANGED texts
  BY <1>1 DEF TextsInv, ProgramOnly
<1>2. ASSUME NEW f \in Typed, Submit(f)
      PROVE  TextsInv' /\ ~ProgramOnly'
  <2>1. texts' = Append(texts, f) /\ f \in Programs \cup Typed
    BY <1>2 DEF Submit
  <2>2. /\ texts' \in Seq(Programs \cup Typed) /\ Len(texts') = Len(texts) + 1
        /\ Len(texts) \in Nat /\ texts'[Len(texts) + 1] = f
    BY <2>1, Appended DEF TextsInv
  <2>3. Len(texts') = 1 => texts'[1] = f
    BY <2>2
  <2> QED BY <2>2, <2>3 DEF TextsInv, ProgramOnly
<1>3. UNCHANGED texts \/ \E f \in Typed : Submit(f)
  BY DEF Next, MainStep, ParserStep, WorkerStep, ParseClause, ParseQuery, ParseImport,
         ParseError, SegmentReturns, KeepParseErrors, ReadCount, WriteCount,
         WaitForEngine, EngineIdle, Exit, StartJob, AssertClause, FinishJob,
         WorkerReadCount, WorkerWriteCount, DropJob, mainVars, vars
<1> QED BY <1>1, <1>2, <1>3

\* A job that does not tell the session is submitted.
LEMMA SubmitKeepsSession ==
  ASSUME Shapes, NoSession, NEW j \in JobRecords, j.onFinished # "session",
         jobs' = Append(jobs, j), ~session', workerpc' = workerpc,
         mainpc' \in {"parsing", "waiting"}
  PROVE  NoSession'
<1>1. /\ Len(jobs') = Len(jobs) + 1 /\ jobs'[Len(jobs) + 1] = j /\ Len(jobs) \in Nat
      /\ \A k \in 1..Len(jobs) : jobs'[k] = jobs[k]
  BY Appended DEF Shapes
<1>2. ASSUME NEW k \in 1..Len(jobs') PROVE jobs'[k].onFinished # "session"
  <2>1. CASE k = Len(jobs) + 1
    BY <1>1, <2>1
  <2>2. CASE k # Len(jobs) + 1
    <3>1. k \in 1..Len(jobs)
      BY <1>1, <2>2
    <3> QED BY <1>1, <3>1 DEF NoSession
  <2> QED BY <2>1, <2>2
<1> QED BY <1>2 DEF NoSession

\* The parser meets errors, and hands them to main().
LEMMA ParserKeepsCounts ==
  ASSUME IInv, NoSession, CountsInv, ParserStep
  PROVE  NoSession' /\ CountsInv'
<1>0. /\ Shapes /\ FramesInv /\ mainpc = "parsing" /\ ~session
      /\ UNCHANGED <<session, parseErrors, runtimeErrors, sessionErrors>>
  BY DEF IInv, ParserStep, ParseClause, ParseQuery, ParseImport, ParseError,
         SegmentReturns, AtEvent, NoSession, mainVars, countVars
<1>1. ASSUME ParseClause \/ ParseImport \/ ParseError
      PROVE  NoSession' /\ UNCHANGED <<mainpc, returned>> /\ AtEvent
  BY <1>1 DEF ParseClause, ParseImport, ParseError, NoSession, mainVars, queueVars
<1>2. ASSUME UNCHANGED <<mainpc, returned, errorsMet>>, InFrames' <=> InFrames
      PROVE  CountsInv'
  BY <1>0, <1>2 DEF CountsInv, Reported, ExitCodeTells, Ended
<1>3. ASSUME UNCHANGED <<mainpc, returned>>, errorsMet' = errorsMet + 1, InFrames'
      PROVE  CountsInv'
  BY <1>0, <1>3 DEF CountsInv, Reported, ExitCodeTells, Ended
<1>4. ASSUME AtEvent, frames' = Front(frames) \o <<Past(0)>>
      PROVE  InFrames' <=> InFrames
  BY <1>0, <1>4, PastErrors, TopErrors
<1>5. CASE ParseClause
  <2>1. frames' = Front(frames) \o <<Past(0)>> /\ errorsMet' = errorsMet
    BY <1>5 DEF ParseClause
  <2> QED BY <1>1, <1>2, <1>4, <1>5, <2>1
<1>6. CASE ParseQuery
  <2>1. /\ AtEvent /\ Event.kind = "query" /\ jobs' = Append(jobs, Job(Event.query, "program"))
        /\ frames' = Front(frames) \o <<Past(0)>>
        /\ UNCHANGED <<mainpc, returned, workerpc, errorsMet>>
    BY <1>0, <1>6 DEF ParseQuery, mainVars
  <2>2. NoSession'
    <3>1. Event.query \in Questions /\ "program" \in {"program", "session", "barrier"}
      BY <1>0, <2>1, EventTyped DEF IsEvent
    <3>2. Job(Event.query, "program") \in JobRecords
      BY <1>0, <3>1, JobTyped
    <3> QED BY <1>0, <2>1, <3>2, SubmitKeepsSession DEF Job
  <2> QED BY <1>2, <1>4, <2>1, <2>2
<1>7. CASE ParseImport
  BY <1>0, <1>1, <1>2, <1>3, <1>7, ImportErrors
<1>8. CASE ParseError
  <2> DEFINE end == Len(contents[TopFrame.file]) + 1
             x == [Past(1) EXCEPT !.pos = end]
  <2>1. frames' = Front(frames) \o <<x>> /\ errorsMet' = errorsMet + 1
    BY <1>8 DEF ParseError
  <2>2. Past(1) \in Frames /\ Past(1).errors = TopFrame.errors + 1
    BY <1>0, <1>1, <1>8, PastErrors
  <2>3. end \in Nat \ {0}
    <3>1. TopFrame.file \in DOMAIN contents
      BY <1>0, <1>1, <1>8, EventTyped DEF Frames
    <3> QED BY <1>0, <3>1, FileLength
  <2> HIDE DEF end
  <2>4. x \in Frames /\ x.errors = TopFrame.errors + 1
    BY <2>2, <2>3 DEF Frames
  <2> HIDE DEF x
  <2>5. InFrames'
    BY <1>0, <1>1, <1>8, <2>1, <2>4, TopErrors
  <2> QED BY <1>1, <1>3, <1>8, <2>1, <2>5
<1>9. CASE SegmentReturns
  <2>1. UNCHANGED <<jobs, workerpc, errorsMet>> /\ mainpc' \in {"parsing", "returned"}
    BY <1>0, <1>9, ReturnErrors DEF SegmentReturns
  <2>2. NoSession'
    BY <1>0, <2>1 DEF NoSession
  <2>3. CASE mainpc' = "parsing"
    <3>1. returned' = returned /\ (InFrames' <=> InFrames)
      BY <1>0, <1>9, <2>3, ReturnErrors
    <3>2. UNCHANGED <<mainpc, returned, errorsMet>>
      BY <1>0, <2>1, <2>3, <3>1
    <3> QED BY <1>2, <2>2, <3>1, <3>2
  <2>4. CASE mainpc' # "parsing"
    <3>1. /\ mainpc' = "returned" /\ returned' \in Nat /\ frames' = <<>>
          /\ returned' > 0 <=> InFrames
      BY <1>0, <1>9, <2>4, ReturnErrors
    <3>2. ~InFrames'
      BY <3>1 DEF InFrames
    <3>3. /\ {returned, parseErrors, runtimeErrors, errorsMet} \subseteq Nat
          /\ parseErrors = 0 /\ sessionErrors = 0
          /\ errorsMet > 0 <=> InFrames \/ runtimeErrors > 0
      BY <1>0 DEF CountsInv, Reported
    <3>4. Reported' <=> returned' > 0 \/ runtimeErrors > 0
      BY <1>0, <3>1, <3>2, <3>3 DEF Reported
    <3>5. errorsMet' > 0 <=> Reported'
      BY <2>1, <3>1, <3>3, <3>4
    <3>6. ~Ended'
      BY <3>1 DEF Ended
    <3>7. CountsInv'
      BY <1>0, <2>1, <3>1, <3>3, <3>5, <3>6 DEF CountsInv, ExitCodeTells
    <3> QED BY <2>2, <3>7
  <2> QED BY <2>2, <2>3, <2>4
<1> QED BY <1>5, <1>6, <1>7, <1>8, <1>9 DEF ParserStep

\* main() moves the count of the parser, and returns it with the others.
LEMMA MainKeepsCounts ==
  ASSUME IInv, NoSession, CountsInv,
         KeepParseErrors \/ ReadCount \/ WriteCount \/ WaitForEngine \/ EngineIdle \/ Exit
  PROVE  NoSession' /\ CountsInv'
<1>1. mainpc # "parsing" => ~InFrames
  BY DEF IInv, FramesInv, InFrames
<1>2. ~ReadCount /\ ~WriteCount
  BY DEF NoSession, ReadCount, WriteCount
<1>3. CASE KeepParseErrors
  <2>1. /\ mainpc = "returned" /\ mainpc' = "counted" /\ parseErrors' = returned
        /\ UNCHANGED <<frames, returned, session, jobs, workerpc, runtimeErrors,
                       sessionErrors, errorsMet>>
    BY <1>3 DEF KeepParseErrors, parserVars
  <2>2. NoSession'
    BY <2>1 DEF NoSession
  <2>3. CountsInv'
    BY <1>1, <2>1 DEF CountsInv, Reported, InFrames, ExitCodeTells, Ended
  <2> QED BY <2>2, <2>3
<1>4. CASE WaitForEngine
  <2>1. /\ mainpc = "counted" /\ mainpc' = "waiting"
        /\ jobs' = Append(jobs, Job(TrivialQuery, "barrier"))
        /\ UNCHANGED <<frames, returned, session, workerpc, parseErrors, runtimeErrors,
                       sessionErrors, errorsMet>>
    BY <1>4 DEF WaitForEngine, parserVars, countVars
  <2>2. NoSession'
    <3>1. TrivialQuery \in Questions /\ "barrier" \in {"program", "session", "barrier"}
      BY DEF TrivialQuery, Questions
    <3>2. Job(TrivialQuery, "barrier") \in JobRecords
      BY <3>1, JobTyped DEF IInv
    <3>3. Shapes
      BY DEF IInv
    <3> QED BY <2>1, <3>2, <3>3, SubmitKeepsSession DEF Job, NoSession
  <2>3. CountsInv'
    BY <2>1 DEF CountsInv, Reported, InFrames, ExitCodeTells, Ended
  <2> QED BY <2>2, <2>3
<1>5. CASE EngineIdle
  <2>1. /\ mainpc = "waiting" /\ mainpc' = "prompt"
        /\ UNCHANGED <<frames, returned, jobs, workerpc, parseErrors, runtimeErrors,
                       sessionErrors, errorsMet>>
    BY <1>5 DEF EngineIdle, parserVars, countVars
  <2>2. NoSession'
    BY <2>1 DEF NoSession
  <2>3. CountsInv'
    BY <2>1 DEF CountsInv, Reported, InFrames, ExitCodeTells, Ended
  <2> QED BY <2>2, <2>3
<1>6. CASE Exit
  <2>1. PICK dropped \in {0, 1} :
          /\ mainpc = "prompt" /\ mainpc' = "done"
          /\ sessionErrors' = sessionErrors + dropped
          /\ errorsMet' = errorsMet + dropped
          /\ result' = IF parseErrors + runtimeErrors + sessionErrors' > 0 THEN 1 ELSE 0
          /\ UNCHANGED <<frames, returned, session, jobs, workerpc, parseErrors,
                         runtimeErrors>>
    BY <1>6 DEF Exit, parserVars
  <2>2. NoSession'
    BY <2>1 DEF NoSession
  <2>3. /\ {parseErrors, runtimeErrors, errorsMet} \subseteq Nat /\ sessionErrors = 0
        /\ errorsMet > 0 <=> parseErrors > 0 \/ runtimeErrors > 0
    BY <1>1, <2>1 DEF CountsInv, Reported
  <2>4. result' = 1 <=> errorsMet' > 0
    <3>1. sessionErrors' = dropped /\ dropped \in Nat
      BY <2>1, <2>3
    <3> QED BY <2>1, <2>3, <3>1
  <2>5. errorsMet' \in Nat
    BY <2>1, <2>3
  <2>6. CountsInv'
    BY <2>1, <2>4, <2>5 DEF CountsInv, ExitCodeTells
  <2> QED BY <2>2, <2>6
<1> QED BY <1>2, <1>3, <1>4, <1>5, <1>6

\* The worker counts the errors of a query when the query ends.
LEMMA WorkerKeepsCounts ==
  ASSUME IInv, NoSession, CountsInv, WorkerStep
  PROVE  NoSession' /\ CountsInv'
<1>1. /\ ~WorkerReadCount \/ jobs[Running].onFinished = "session"
      /\ ~WorkerWriteCount
  BY DEF WorkerReadCount, WorkerWriteCount, NoSession
<1>2. ASSUME pending # <<>>
      PROVE  /\ Running \in 1..Len(jobs) /\ jobs[Running] \in JobRecords
             /\ jobs[Running].onFinished # "session"
  BY <1>2, RunningNext DEF IInv, NoSession
<1>3. ~WorkerReadCount
  BY <1>1, <1>2 DEF WorkerReadCount, Searched, IInv, WorkerInv
<1>4. UNCHANGED <<frames, mainpc, session, returned, parseErrors, sessionErrors, result>>
  BY <1>1, <1>3 DEF WorkerStep, StartJob, AssertClause, FinishJob, DropJob, parserVars,
                    mainVars, countVars
<1>5. ASSUME NEW j \in JobRecords, pending # <<>>, j.onFinished = jobs[Running].onFinished,
             jobs' = [jobs EXCEPT ![Running] = j]
      PROVE  /\ Len(jobs') = Len(jobs)
             /\ \A k \in 1..Len(jobs) : jobs'[k].onFinished # "session"
  BY <1>2, <1>5, RunningReplaced DEF IInv, NoSession
<1>6. CASE StartJob
  <2>1. /\ pending # <<>> /\ jobs' = [jobs EXCEPT ![Running].root = Len(listClauses)]
        /\ workerpc' = "running" /\ UNCHANGED <<runtimeErrors, errorsMet>>
    BY <1>6 DEF StartJob, countVars
  <2>2. Len(listClauses) \in Nat
    BY DEF IInv, Shapes
  <2> DEFINE r == Len(listClauses)
             j == [jobs[Running] EXCEPT !.root = r]
  <2>3. jobs' = [jobs EXCEPT ![Running] = j]
    BY <2>1
  <2> HIDE DEF r
  <2>4. j \in JobRecords /\ j.onFinished = jobs[Running].onFinished
    BY <1>2, <2>1, <2>2 DEF JobRecords, r
  <2> HIDE DEF j
  <2>5. NoSession'
    BY <1>4, <1>5, <2>1, <2>3, <2>4 DEF NoSession
  <2>6. CountsInv'
    BY <1>4, <2>1 DEF CountsInv, Reported, InFrames, ExitCodeTells, Ended
  <2> QED BY <2>5, <2>6
<1>7. CASE AssertClause
  <2> DEFINE n == jobs[Running].asserted + 1
             j == [jobs[Running] EXCEPT !.asserted = n]
  <2>1. /\ workerpc = "running" /\ jobs' = [jobs EXCEPT ![Running] = j]
        /\ UNCHANGED <<workerpc, runtimeErrors, errorsMet>>
    BY <1>7 DEF AssertClause, countVars
  <2>2. pending # <<>>
    BY <2>1 DEF IInv, WorkerInv
  <2>3. n \in Nat
    BY <1>2, <2>2 DEF JobRecords
  <2> HIDE DEF n
  <2>4. j \in JobRecords /\ j.onFinished = jobs[Running].onFinished
    BY <1>2, <2>2, <2>3 DEF JobRecords
  <2> HIDE DEF j
  <2>5. NoSession'
    BY <1>4, <1>5, <2>1, <2>2, <2>4 DEF NoSession
  <2>6. CountsInv'
    BY <1>4, <2>1 DEF CountsInv, Reported, InFrames, ExitCodeTells, Ended
  <2> QED BY <2>5, <2>6
<1>8. CASE FinishJob
  <2>1. /\ workerpc = "running" /\ workerpc' = "dropping" /\ UNCHANGED jobs
        /\ runtimeErrors' = runtimeErrors + Query.errors
        /\ errorsMet' = errorsMet + Query.errors
    BY <1>8 DEF FinishJob, Searched
  <2>2. pending # <<>>
    BY <2>1 DEF IInv, WorkerInv
  <2>3. Query.errors \in Nat
    BY <1>2, <2>2 DEF JobRecords, Questions, Query
  <2>4. mainpc # "done"
    BY <2>2 DEF IInv, QuietInv
  <2>5. NoSession'
    BY <1>4, <2>1 DEF NoSession
  <2>6. CountsInv'
    <3> DEFINE e == Query.errors
    <3>1. /\ e \in Nat /\ runtimeErrors' = runtimeErrors + e
          /\ errorsMet' = errorsMet + e
      BY <2>1, <2>3
    <3> HIDE DEF e
    <3>2. /\ {returned, parseErrors, runtimeErrors, errorsMet} \subseteq Nat
          /\ errorsMet > 0 <=> Reported
          /\ InFrames' <=> InFrames
      BY <1>4, <2>4 DEF CountsInv, InFrames
    <3>3. errorsMet' > 0 <=> Reported'
      BY <1>4, <3>1, <3>2 DEF Reported
    <3>4. {returned', parseErrors', runtimeErrors', errorsMet'} \subseteq Nat
      BY <1>4, <3>1, <3>2
    <3> QED BY <1>4, <2>4, <3>3, <3>4 DEF CountsInv, ExitCodeTells, Ended
  <2> QED BY <2>5, <2>6
<1>9. CASE DropJob
  <2>1. workerpc' = "idle" /\ UNCHANGED <<jobs, runtimeErrors, errorsMet>>
    BY <1>9 DEF DropJob, countVars
  <2> QED BY <1>4, <2>1 DEF NoSession, CountsInv, Reported, InFrames, ExitCodeTells, Ended
<1> QED BY <1>1, <1>3, <1>6, <1>7, <1>8, <1>9 DEF WorkerStep

\* ProgramExitCodeTells: whatever the files hold and however the two threads
\* interleave, unify-run returns 1 for a program exactly if a parse error, an
\* import error or a query's error was met.  The names of programs and of what
\* is typed are apart, so that the history tells the two.
THEOREM ExitCodeOfPrograms ==
  ASSUME Programs \cap Typed = {}
  PROVE  Spec => []ProgramExitCodeTells
<1>1. Init => TextsInv /\ ExitInv
  BY InitExitInv
<1>2. IInv /\ TextsInv /\ ExitInv /\ [Next]_vars => TextsInv' /\ ExitInv'
  <2> SUFFICES ASSUME IInv, TextsInv, ExitInv, [Next]_vars
               PROVE  TextsInv' /\ ExitInv'
    OBVIOUS
  <2>1. TextsInv' /\ (ProgramOnly' => ProgramOnly /\ texts' = texts)
    BY OnlyProgramStays
  <2>2. ASSUME ProgramOnly' PROVE NoSession' /\ CountsInv'
    <3>1. NoSession /\ CountsInv /\ texts' = texts
      BY <2>1, <2>2 DEF ExitInv
    <3>2. ASSUME NEW f \in Typed, Submit(f) PROVE FALSE
      <4>1. texts' = Append(texts, f) /\ f \in Programs \cup Typed
        BY <3>2 DEF Submit
      <4>2. Len(texts') = Len(texts) + 1 /\ Len(texts) \in Nat
        BY <4>1, Appended DEF TextsInv
      <4> QED BY <3>1, <4>2
    <3>3. CASE UNCHANGED vars
      BY <3>1, <3>3 DEF vars, parserVars, mainVars, countVars, NoSession, CountsInv,
                        Reported, InFrames, ExitCodeTells, Ended
    <3> QED BY <3>1, <3>2, <3>3, ParserKeepsCounts, MainKeepsCounts, WorkerKeepsCounts
            DEF Next, MainStep
  <2> QED BY <2>1, <2>2 DEF ExitInv
<1>3. ExitInv => ProgramExitCodeTells
  BY DEF ExitInv, CountsInv, ProgramOnly, ProgramExitCodeTells
<1> QED BY <1>1, <1>2, <1>3, Inductive, PTL DEF Spec

-----------------------------------------------------------------------------
(* Places in files, and the order in which they come.                      *)

Items(fs) == UNION {{fs[f][k] : k \in 1..Len(fs[f])} : f \in DOMAIN fs}

Results(fs) == [items : Seq(Items(fs)), once : SUBSET DOMAIN fs, errors : Nat]

\* There is an event at the place, one behind which the text goes on, and one
\* that asks for a file that is not there yet.
HasEvent(fs, at) == at.pos <= Len(fs[at.file])
GoesOn(fs, at) == HasEvent(fs, at) /\ fs[at.file][at.pos].kind # "error"
AsksFor(fs, at, f) ==
  /\ GoesOn(fs, at) /\ fs[at.file][at.pos].kind = "import"
  /\ f = fs[at.file][at.pos].file /\ f \in DOMAIN fs /\ f \notin at.once

\* More files are imported, or the event at hand is passed.
Later(fs, z, at) ==
  \/ at.once \subseteq z.once /\ at.once # z.once
  \/ HasEvent(fs, at) /\ z = Behind(at, at.once)

\* No file is forgotten.
Keeps(fs, E) == \A at \in Places(fs) : at.once \subseteq E[at].once

LEMMA PlaceTyped ==
  ASSUME NEW fs, NEW at \in Places(fs)
  PROVE  /\ at.file \in DOMAIN fs /\ at.pos \in Nat \ {0} /\ at.once \in SUBSET DOMAIN fs
         /\ \A known \in SUBSET DOMAIN fs :
              /\ Behind(at, known) \in Places(fs)
              /\ Behind(at, known).file = at.file
              /\ Behind(at, known).pos = at.pos + 1
              /\ Behind(at, known).once = known
<1>1. at.file \in DOMAIN fs /\ at.pos \in Nat \ {0} /\ at.once \in SUBSET DOMAIN fs
  BY DEF Places
<1>2. at.pos + 1 \in Nat \ {0}
  BY <1>1
<1> QED BY <1>1, <1>2 DEF Places, Behind

LEMMA StartTyped ==
  ASSUME NEW fs, NEW f \in DOMAIN fs, NEW known \in SUBSET DOMAIN fs
  PROVE  Start(f, known) \in Places(fs) /\ Start(f, known).once = known
BY DEF Places, Start

LEMMA EventAt ==
  ASSUME NEW fs \in Corpora, NEW at \in Places(fs)
  PROVE  /\ Len(fs[at.file]) \in Nat
         /\ HasEvent(fs, at) =>
              fs[at.file][at.pos] \in Items(fs) /\ IsEvent(fs[at.file][at.pos])
<1>1. at.file \in DOMAIN fs /\ at.pos \in Nat \ {0} /\ Len(fs[at.file]) \in Nat
  BY PlaceTyped, CorporaAssumption DEF CorporaAssumption
<1>2. ASSUME HasEvent(fs, at) PROVE at.pos \in 1..Len(fs[at.file])
  BY <1>1, <1>2 DEF HasEvent
<1>3. ASSUME HasEvent(fs, at) PROVE IsEvent(fs[at.file][at.pos])
  BY <1>1, <1>2, <1>3, CorporaAssumption DEF CorporaAssumption
<1>4. ASSUME HasEvent(fs, at) PROVE fs[at.file][at.pos] \in Items(fs)
  BY <1>1, <1>2, <1>4 DEF Items
<1> QED BY <1>1, <1>3, <1>4

\* The parser cannot go on through places for ever: of any places there is one
\* behind which, and behind whose imports, none of them is met.
LEMMA LastPlace ==
  ASSUME NEW fs \in Corpora, NEW B \in SUBSET Places(fs), B # {}
  PROVE  \E at \in B : \A z \in Places(fs) : Later(fs, z, at) => z \notin B
<1> DEFINE Left(at) == Cardinality(DOMAIN fs \ at.once)
           Rest(at) == IF HasEvent(fs, at) THEN Len(fs[at.file]) + 1 - at.pos ELSE 0
<1>1. IsFiniteSet(DOMAIN fs)
  BY FilesAssumption DEF FilesAssumption
<1>2. ASSUME NEW at \in Places(fs), NEW z \in Places(fs),
             at.once \subseteq z.once, at.once # z.once
      PROVE  Left(z) < Left(at)
  <2> DEFINE S == DOMAIN fs \ at.once
             T == DOMAIN fs \ z.once
  <2>1. IsFiniteSet(S) /\ T \in SUBSET S
    BY <1>1, <1>2, FS_Subset
  <2>2. T # S
    BY <1>2, PlaceTyped
  <2> HIDE DEF S, T
  <2>3. Cardinality(T) \in Nat /\ Cardinality(S) \in Nat
    BY <2>1, FS_Subset, FS_CardinalityType
  <2>4. Cardinality(T) <= Cardinality(S) /\ Cardinality(T) # Cardinality(S)
    BY <2>1, <2>2, FS_Subset
  <2>5. Cardinality(T) < Cardinality(S)
    BY <2>3, <2>4
  <2> QED BY <2>5 DEF S, T
<1>3. \A at \in Places(fs) : Left(at) \in Nat
  BY <1>1, FS_Subset, FS_CardinalityType
<1>4. \A at \in Places(fs) : Rest(at) \in Nat
  BY PlaceTyped, EventAt DEF HasEvent
<1>5. ASSUME NEW at \in Places(fs), HasEvent(fs, at) PROVE Rest(Behind(at, at.once)) < Rest(at)
  <2>1. at.once \in SUBSET DOMAIN fs /\ at.pos \in Nat
    BY PlaceTyped
  <2>2. Behind(at, at.once).file = at.file /\ Behind(at, at.once).pos = at.pos + 1
    BY <2>1, PlaceTyped
  <2>3. Len(fs[at.file]) \in Nat
    BY EventAt
  <2> QED BY <1>5, <2>1, <2>2, <2>3 DEF HasEvent
<1>6. \A at \in Places(fs) : Left(Behind(at, at.once)) = Left(at)
  BY PlaceTyped
<1> HIDE DEF Left, Rest
<1>7. PICK least \in {Left(at) : at \in B} : \A l \in {Left(at) : at \in B} : least <= l
  <2> DEFINE T == {Left(at) : at \in B}
  <2>1. T \in SUBSET Nat /\ T # {}
    BY <1>3
  <2> HIDE DEF T
  <2>2. \E x \in T : \A y \in T : x <= y
    BY <2>1, LeastOfAny
  <2> QED BY <2>2 DEF T
<1> DEFINE C == {at \in B : Left(at) = least}
<1>8. PICK last \in {Rest(at) : at \in C} : \A r \in {Rest(at) : at \in C} : last <= r
  <2> DEFINE T == {Rest(at) : at \in C}
  <2>1. T \in SUBSET Nat /\ T # {}
    BY <1>4, <1>7
  <2> HIDE DEF T
  <2>2. \E x \in T : \A y \in T : x <= y
    BY <2>1, LeastOfAny
  <2> QED BY <2>2 DEF T
<1>9. PICK at \in C : Rest(at) = last
  BY <1>8
<1>10. at \in B /\ at \in Places(fs) /\ Left(at) = least
  BY <1>9
<1>11. ASSUME NEW z \in Places(fs), Later(fs, z, at), z \in B PROVE FALSE
  <2>1. least <= Left(z) /\ Left(z) \in Nat /\ least \in Nat
    BY <1>3, <1>7, <1>10, <1>11
  <2>2. CASE at.once \subseteq z.once /\ at.once # z.once
    <3>1. Left(z) < Left(at)
      BY <1>2, <1>10, <2>2
    <3> QED BY <1>10, <2>1, <3>1
  <2>3. CASE HasEvent(fs, at) /\ z = Behind(at, at.once)
    <3>1. z \in C
      BY <1>6, <1>10, <1>11, <2>3
    <3>2. last <= Rest(z) /\ Rest(z) < Rest(at) /\ Rest(z) \in Nat /\ Rest(at) \in Nat
      BY <1>4, <1>5, <1>8, <1>10, <2>3, <3>1
    <3> QED BY <1>9, <3>2
  <2> QED BY <1>11, <2>2, <2>3 DEF Later
<1> QED BY <1>10, <1>11

\* What the expansion of a place is made of comes later.
LEMMA AskedIsLater ==
  ASSUME NEW fs, NEW at \in Places(fs), NEW f, AsksFor(fs, at, f)
  PROVE  /\ Start(f, at.once \cup {f}) \in Places(fs)
         /\ Later(fs, Start(f, at.once \cup {f}), at)
         /\ at.once \subseteq Start(f, at.once \cup {f}).once
<1>1. f \in DOMAIN fs /\ f \notin at.once /\ at.once \in SUBSET DOMAIN fs
  BY PlaceTyped DEF AsksFor
<1>2. at.once \cup {f} \in SUBSET DOMAIN fs /\ at.once # at.once \cup {f}
  BY <1>1
<1>3. /\ Start(f, at.once \cup {f}) \in Places(fs)
      /\ Start(f, at.once \cup {f}).once = at.once \cup {f}
  BY <1>1, <1>2, StartTyped
<1> QED BY <1>2, <1>3 DEF Later

LEMMA BehindIsLater ==
  ASSUME NEW fs, NEW at \in Places(fs), HasEvent(fs, at),
         NEW known \in SUBSET DOMAIN fs, at.once \subseteq known
  PROVE  /\ Behind(at, known) \in Places(fs)
         /\ Later(fs, Behind(at, known), at)
         /\ Behind(at, known).once = known
<1>1. Behind(at, known) \in Places(fs) /\ Behind(at, known).once = known
  BY PlaceTyped
<1>2. CASE known = at.once
  BY <1>1, <1>2 DEF Later
<1>3. CASE known # at.once
  BY <1>1, <1>3 DEF Later
<1> QED BY <1>1, <1>2, <1>3

-----------------------------------------------------------------------------
(* One step of the expansion.                                              *)

LEMMA PartTyped ==
  ASSUME NEW fs, NEW items \in Seq(Items(fs)), NEW known \in SUBSET DOMAIN fs, NEW n \in Nat
  PROVE  /\ Part(items, known, n) \in Results(fs)
         /\ Part(items, known, n).items = items
         /\ Part(items, known, n).once = known
         /\ Part(items, known, n).errors = n
BY DEF Part, Results

LEMMA NothingTyped ==
  ASSUME NEW fs, NEW known \in SUBSET DOMAIN fs, NEW n \in Nat
  PROVE  /\ Part(<<>>, known, n) \in Results(fs)
         /\ Part(<<>>, known, n).items = <<>>
         /\ Part(<<>>, known, n).once = known
         /\ Part(<<>>, known, n).errors = n
<1> DEFINE nothing == <<>>
<1>1. nothing \in Seq(Items(fs))
  OBVIOUS
<1> HIDE DEF nothing
<1>2. /\ Part(nothing, known, n) \in Results(fs)
      /\ Part(nothing, known, n).items = nothing
      /\ Part(nothing, known, n).once = known
      /\ Part(nothing, known, n).errors = n
  BY <1>1, PartTyped
<1> QED BY <1>2 DEF nothing

LEMMA JoinedTyped ==
  ASSUME NEW fs, NEW part \in Results(fs), NEW tail \in Results(fs)
  PROVE  /\ Joined(part, tail) \in Results(fs)
         /\ Joined(part, tail).items = part.items \o tail.items
         /\ Joined(part, tail).once = tail.once
         /\ Joined(part, tail).errors = part.errors + tail.errors
<1>1. /\ part.items \in Seq(Items(fs)) /\ tail.items \in Seq(Items(fs))
      /\ part.errors \in Nat /\ tail.errors \in Nat /\ tail.once \in SUBSET DOMAIN fs
  BY DEF Results
<1>2. part.items \o tail.items \in Seq(Items(fs)) /\ part.errors + tail.errors \in Nat
  BY <1>1, ConcatProperties
<1> DEFINE items == part.items \o tail.items
           n == part.errors + tail.errors
<1>3. Joined(part, tail) = Part(items, tail.once, n)
  BY DEF Joined
<1>4. items \in Seq(Items(fs)) /\ tail.once \in SUBSET DOMAIN fs /\ n \in Nat
  BY <1>1, <1>2
<1> HIDE DEF items, n
<1>5. /\ Part(items, tail.once, n) \in Results(fs)
      /\ Part(items, tail.once, n).items = items
      /\ Part(items, tail.once, n).once = tail.once
      /\ Part(items, tail.once, n).errors = n
  BY <1>4, PartTyped
<1> QED BY <1>3, <1>5 DEF items, n

LEMMA EventExpandedTyped ==
  ASSUME NEW fs \in Corpora, NEW E \in [Places(fs) -> Results(fs)], Keeps(fs, E),
         NEW at \in Places(fs), GoesOn(fs, at)
  PROVE  /\ EventExpanded(fs, E, at) \in Results(fs)
         /\ at.once \subseteq EventExpanded(fs, E, at).once
<1> DEFINE event == fs[at.file][at.pos]
<1>1. event \in Items(fs) /\ IsEvent(event) /\ at.once \in SUBSET DOMAIN fs
  BY EventAt, PlaceTyped DEF GoesOn
<1>2. <<event>> \in Seq(Items(fs)) /\ <<>> \in Seq(Items(fs))
  BY <1>1
<1>3. CASE AsksFor(fs, at, event.file)
  <2> DEFINE y == Start(event.file, at.once \cup {event.file})
  <2>1. y \in Places(fs) /\ at.once \subseteq y.once
    BY <1>3, AskedIsLater
  <2>2. EventExpanded(fs, E, at) = E[y]
    BY <1>3 DEF EventExpanded, AsksFor
  <2> HIDE DEF y
  <2> QED BY <2>1, <2>2 DEF Keeps
<1>4. CASE ~AsksFor(fs, at, event.file)
  <2>1. \/ EventExpanded(fs, E, at) = Part(<<event>>, at.once, 0)
        \/ \E n \in {0, 1} : EventExpanded(fs, E, at) = Part(<<>>, at.once, n)
    BY <1>4 DEF EventExpanded, AsksFor
  <2>2. \A n \in {0, 1} : /\ Part(<<>>, at.once, n) \in Results(fs)
                          /\ Part(<<>>, at.once, n).once = at.once
    BY <1>1, NothingTyped
  <2> DEFINE one == <<event>>
  <2>3. one \in Seq(Items(fs))
    BY <1>2
  <2> HIDE DEF one
  <2>4. Part(one, at.once, 0) \in Results(fs) /\ Part(one, at.once, 0).once = at.once
    BY <1>1, <2>3, PartTyped
  <2> QED BY <2>1, <2>2, <2>4 DEF one
<1> QED BY <1>3, <1>4

LEMMA UnfoldedTyped ==
  ASSUME NEW fs \in Corpora, NEW E \in [Places(fs) -> Results(fs)], Keeps(fs, E),
         NEW at \in Places(fs)
  PROVE  /\ Unfolded(fs, E, at) \in Results(fs)
         /\ at.once \subseteq Unfolded(fs, E, at).once
<1>1. CASE ~GoesOn(fs, at)
  <2>1. \E n \in {0, 1} : Unfolded(fs, E, at) = Part(<<>>, at.once, n)
    BY <1>1, EventAt, PlaceTyped DEF Unfolded, GoesOn, HasEvent
  <2>2. PICK n \in {0, 1} : Unfolded(fs, E, at) = Part(<<>>, at.once, n)
    BY <2>1
  <2>3. n \in Nat /\ at.once \in SUBSET DOMAIN fs
    BY PlaceTyped
  <2>4. Part(<<>>, at.once, n) \in Results(fs) /\ Part(<<>>, at.once, n).once = at.once
    BY <2>3, NothingTyped
  <2> QED BY <2>2, <2>4
<1>2. CASE GoesOn(fs, at)
  <2> DEFINE part == EventExpanded(fs, E, at)
             z == Behind(at, part.once)
  <2>1. part \in Results(fs) /\ at.once \subseteq part.once
    BY <1>2, EventExpandedTyped
  <2>2. Unfolded(fs, E, at) = Joined(part, E[z])
    BY <1>2, EventAt, PlaceTyped DEF Unfolded, GoesOn, HasEvent
  <2> HIDE DEF part
  <2>3. part.once \in SUBSET DOMAIN fs
    BY <2>1 DEF Results
  <2>4. z \in Places(fs) /\ z.once = part.once
    BY <2>3, PlaceTyped
  <2> HIDE DEF z
  <2>5. E[z] \in Results(fs) /\ z.once \subseteq E[z].once
    BY <2>4 DEF Keeps
  <2>6. Joined(part, E[z]) \in Results(fs) /\ Joined(part, E[z]).once = E[z].once
    BY <2>1, <2>5, JoinedTyped
  <2> QED BY <2>1, <2>2, <2>4, <2>5, <2>6
<1> QED BY <1>1, <1>2

\* What a place comes to depends on what later ones come to, and not on those
\* before it.
LEMMA UnfoldedSame ==
  ASSUME NEW fs \in Corpora, NEW E \in [Places(fs) -> Results(fs)], Keeps(fs, E),
         NEW D, NEW at \in Places(fs),
         \A z \in Places(fs) : Later(fs, z, at) => D[z] = E[z]
  PROVE  Unfolded(fs, D, at) = Unfolded(fs, E, at)
<1>1. CASE ~GoesOn(fs, at)
  BY <1>1, EventAt, PlaceTyped DEF Unfolded, GoesOn, HasEvent
<1>2. CASE GoesOn(fs, at)
  <2> DEFINE part == EventExpanded(fs, E, at)
             file == fs[at.file][at.pos].file
  <2>1. EventExpanded(fs, D, at) = part
    <3>1. CASE AsksFor(fs, at, file)
      BY <3>1, AskedIsLater DEF EventExpanded
    <3>2. CASE ~AsksFor(fs, at, file)
      BY <1>2, <3>2 DEF EventExpanded, AsksFor
    <3> QED BY <3>1, <3>2
  <2>2. part \in Results(fs) /\ at.once \subseteq part.once
    BY <1>2, EventExpandedTyped
  <2>3. /\ Unfolded(fs, E, at) = Joined(part, E[Behind(at, part.once)])
        /\ Unfolded(fs, D, at) = Joined(part, D[Behind(at, part.once)])
    BY <1>2, <2>1, EventAt, PlaceTyped DEF Unfolded, GoesOn, HasEvent
  <2> HIDE DEF part
  <2>4. part.once \in SUBSET DOMAIN fs /\ HasEvent(fs, at)
    BY <1>2, <2>2 DEF Results, GoesOn
  <2>5. Behind(at, part.once) \in Places(fs) /\ Later(fs, Behind(at, part.once), at)
    BY <2>2, <2>4, BehindIsLater
  <2> QED BY <2>3, <2>5
<1> QED BY <1>1, <1>2

-----------------------------------------------------------------------------
(* There is one function that unfolds to itself.                           *)

Expanders(fs) == {E \in [Places(fs) -> Results(fs)] : Keeps(fs, E)}

\* Unfolding again and again changes what a place comes to only so often.
Settles(X, L, at) ==
  \E m \in Nat : \A n \in Nat : n >= m => X[n][at] = L[at]

\* Once all later places have settled, so does an unfolding.
LEMMA UnfoldedSettles ==
  ASSUME NEW fs \in Corpora, NEW X \in [Nat -> Expanders(fs)], NEW L, NEW at \in Places(fs),
         \A z \in Places(fs) : Later(fs, z, at) => Settles(X, L, z)
  PROVE  \E m \in Nat : \A n \in Nat : n >= m =>
           Unfolded(fs, X[n], at) = Unfolded(fs, L, at)
<1>0. \A n \in Nat : X[n] \in [Places(fs) -> Results(fs)] /\ Keeps(fs, X[n])
  BY DEF Expanders
<1>1. CASE ~GoesOn(fs, at)
  <2>1. \A n \in Nat : Unfolded(fs, X[n], at) = Unfolded(fs, L, at)
    BY <1>1, EventAt, PlaceTyped DEF Unfolded, GoesOn, HasEvent
  <2> QED BY <2>1
<1>2. CASE GoesOn(fs, at)
  <2> DEFINE part == EventExpanded(fs, L, at)
             file == fs[at.file][at.pos].file
  <2>1. \E m \in Nat : \A n \in Nat : n >= m => EventExpanded(fs, X[n], at) = part
    <3>1. CASE AsksFor(fs, at, file)
      <4> DEFINE y == Start(file, at.once \cup {file})
      <4>1. y \in Places(fs) /\ Later(fs, y, at)
        BY <3>1, AskedIsLater
      <4>2. \A E : EventExpanded(fs, E, at) = E[y]
        BY <3>1 DEF EventExpanded, AsksFor
      <4> HIDE DEF y
      <4>3. PICK m \in Nat : \A n \in Nat : n >= m => X[n][y] = L[y]
        BY <4>1 DEF Settles
      <4> QED BY <4>2, <4>3
    <3>2. CASE ~AsksFor(fs, at, file)
      <4>1. \A E : EventExpanded(fs, E, at) = part
        BY <1>2, <3>2 DEF EventExpanded, AsksFor
      <4> QED BY <4>1
    <3> QED BY <3>1, <3>2
  <2>2. \A E : Unfolded(fs, E, at)
                = Joined(EventExpanded(fs, E, at), E[Behind(at, EventExpanded(fs, E, at).once)])
    BY <1>2, EventAt, PlaceTyped DEF Unfolded, GoesOn, HasEvent
  <2> HIDE DEF part
  <2>3. PICK m \in Nat : \A n \in Nat : n >= m => EventExpanded(fs, X[n], at) = part
    BY <2>1
  <2>4. part \in Results(fs) /\ at.once \subseteq part.once
    <3>1. /\ EventExpanded(fs, X[m], at) \in Results(fs)
          /\ at.once \subseteq EventExpanded(fs, X[m], at).once
      BY <1>0, <1>2, EventExpandedTyped
    <3> QED BY <2>3, <3>1
  <2> DEFINE z == Behind(at, part.once)
  <2>5. z \in Places(fs) /\ Later(fs, z, at)
    <3>1. HasEvent(fs, at) /\ part.once \in SUBSET DOMAIN fs
      BY <1>2, <2>4 DEF GoesOn, Results
    <3> QED BY <2>4, <3>1, BehindIsLater
  <2>6. Unfolded(fs, L, at) = Joined(part, L[z])
    BY <2>2 DEF part
  <2>7. \A n \in Nat : n >= m => Unfolded(fs, X[n], at) = Joined(part, X[n][z])
    BY <2>2, <2>3
  <2> HIDE DEF z
  <2>8. PICK l \in Nat : \A n \in Nat : n >= l => X[n][z] = L[z]
    BY <2>5 DEF Settles
  <2>9. m + l \in Nat /\ \A n \in Nat : n >= m + l => n >= m /\ n >= l
    OBVIOUS
  <2> QED BY <2>6, <2>7, <2>8, <2>9
<1> QED BY <1>1, <1>2

LEMMA ExpanderExists ==
  ASSUME NEW fs \in Corpora
  PROVE  \E E \in Expanders(fs) : \A at \in Places(fs) : E[at] = Unfolded(fs, E, at)
<1> DEFINE none == [at \in Places(fs) |-> Part(<<>>, at.once, 0)]
           next(E) == [at \in Places(fs) |-> Unfolded(fs, E, at)]
<1>1. none \in Expanders(fs)
  <2>1. \A at \in Places(fs) : /\ Part(<<>>, at.once, 0) \in Results(fs)
                               /\ Part(<<>>, at.once, 0).once = at.once
    <3> TAKE at \in Places(fs)
    <3>1. at.once \in SUBSET DOMAIN fs /\ 0 \in Nat
      BY PlaceTyped
    <3> QED BY <3>1, NothingTyped
  <2>2. none \in [Places(fs) -> Results(fs)]
    BY <2>1
  <2>3. Keeps(fs, none)
    BY <2>1 DEF Keeps
  <2> HIDE DEF none
  <2> QED BY <2>2, <2>3 DEF Expanders
<1>2. ASSUME NEW E \in Expanders(fs) PROVE next(E) \in Expanders(fs)
  <2>1. E \in [Places(fs) -> Results(fs)] /\ Keeps(fs, E)
    BY DEF Expanders
  <2>2. \A at \in Places(fs) :
          Unfolded(fs, E, at) \in Results(fs) /\ at.once \subseteq Unfolded(fs, E, at).once
    BY <2>1, UnfoldedTyped
  <2>3. next(E) \in [Places(fs) -> Results(fs)]
    BY <2>2
  <2>4. \A at \in Places(fs) : next(E)[at] = Unfolded(fs, E, at)
    OBVIOUS
  <2> HIDE DEF next
  <2>5. Keeps(fs, next(E))
    BY <2>2, <2>4 DEF Keeps
  <2> QED BY <2>3, <2>5 DEF Expanders
<1>3. PICK X \in [Nat -> Expanders(fs)] :
        X[0] = none /\ \A n \in Nat : X[n + 1] = next(X[n])
  <2> DEFINE S == Expanders(fs)
             F == [q \in Nat \X S |-> next(q[2])]
  <2>1. F \in [Nat \X S -> S]
    <3>1. \A q \in Nat \X S : q[2] \in S
      OBVIOUS
    <3> HIDE DEF next
    <3> QED BY <1>2, <3>1
  <2>2. \A n \in Nat, E \in S : F[<<n, E>>] = next(E)
    BY DEF F
  <2>3. StepIn(S, F)
    BY <2>1 DEF StepIn
  <2> HIDE DEF S, F, none, next
  <2>4. none \in S
    BY <1>1 DEF S
  <2>5. \E X : Iterates(S, none, F, X)
    BY <2>4, <2>3, Recursion
  <2>6. PICK X \in [Nat -> S] : X[0] = none /\ \A n \in Nat : X[n + 1] = F[<<n, X[n]>>]
    BY <2>5 DEF Iterates
  <2>7. \A n \in Nat : X[n] \in S
    BY <2>6
  <2> QED BY <2>2, <2>6, <2>7 DEF S
<1>4. \A n \in Nat, at \in Places(fs) : X[n + 1][at] = Unfolded(fs, X[n], at)
  BY <1>3
<1> HIDE DEF none, next
<1> DEFINE Fixed(at) == \E m \in Nat : \A n \in Nat : n >= m => X[n][at] = X[m][at]
           L == [at \in Places(fs) |->
                   IF Fixed(at)
                     THEN X[CHOOSE m \in Nat : \A n \in Nat : n >= m => X[n][at] = X[m][at]][at]
                     ELSE X[0][at]]
<1>5. ASSUME NEW at \in Places(fs), Fixed(at) PROVE Settles(X, L, at)
  <2> DEFINE m == CHOOSE m \in Nat : \A n \in Nat : n >= m => X[n][at] = X[m][at]
  <2>1. m \in Nat /\ \A n \in Nat : n >= m => X[n][at] = X[m][at]
    BY <1>5
  <2>2. L[at] = X[m][at]
    BY <1>5
  <2> HIDE DEF m, L
  <2> QED BY <2>1, <2>2 DEF Settles
<1> HIDE DEF L
<1>6. \A at \in Places(fs) : Fixed(at)
  <2> DEFINE B == {at \in Places(fs) : ~Fixed(at)}
  <2> SUFFICES ASSUME B # {} PROVE FALSE
    OBVIOUS
  <2>1. PICK at \in B : \A z \in Places(fs) : Later(fs, z, at) => z \notin B
    <3>1. B \in SUBSET Places(fs)
      OBVIOUS
    <3> HIDE DEF B
    <3> QED BY <3>1, LastPlace
  <2>2. at \in Places(fs) /\ \A z \in Places(fs) : Later(fs, z, at) => Settles(X, L, z)
    BY <1>5, <2>1
  <2>3. PICK m \in Nat : \A n \in Nat : n >= m =>
          Unfolded(fs, X[n], at) = Unfolded(fs, L, at)
    BY <1>3, <2>2, UnfoldedSettles
  <2>4. \A n \in Nat : n >= m + 1 => X[n][at] = Unfolded(fs, L, at)
    <3> TAKE n \in Nat
    <3> HAVE n >= m + 1
    <3> DEFINE k == n - 1
    <3>1. k \in Nat /\ k >= m /\ k + 1 = n
      OBVIOUS
    <3> HIDE DEF k
    <3>2. X[k + 1][at] = Unfolded(fs, X[k], at)
      BY <1>4, <2>2, <3>1
    <3> QED BY <2>3, <3>1, <3>2
  <2>5. m + 1 \in Nat /\ m + 1 >= m + 1
    OBVIOUS
  <2>6. Fixed(at)
    BY <2>4, <2>5
  <2> QED BY <2>1, <2>6
<1> HIDE DEF Fixed
<1>7. \A at \in Places(fs) : Settles(X, L, at)
  BY <1>5, <1>6
<1>8. L \in Expanders(fs)
  <2>1. \A at \in Places(fs) : \E m \in Nat : L[at] = X[m][at]
    <3> TAKE at \in Places(fs)
    <3>1. PICK m \in Nat : \A n \in Nat : n >= m => X[n][at] = L[at]
      BY <1>7 DEF Settles
    <3> QED BY <3>1
  <2>2. \A m \in Nat, at \in Places(fs) : X[m][at] \in Results(fs) /\ at.once \subseteq X[m][at].once
    BY <1>3 DEF Expanders, Keeps
  <2>3. \A at \in Places(fs) : L[at] \in Results(fs) /\ at.once \subseteq L[at].once
    BY <2>1, <2>2
  <2>4. L \in [Places(fs) -> Results(fs)]
    BY <2>3 DEF L
  <2> QED BY <2>3, <2>4 DEF Expanders, Keeps
<1>9. ASSUME NEW at \in Places(fs) PROVE L[at] = Unfolded(fs, L, at)
  <2>1. PICK m \in Nat : \A n \in Nat : n >= m => Unfolded(fs, X[n], at) = Unfolded(fs, L, at)
    BY <1>3, <1>7, UnfoldedSettles
  <2>2. PICK l \in Nat : \A n \in Nat : n >= l => X[n][at] = L[at]
    BY <1>7 DEF Settles
  <2> DEFINE n == m + l
  <2>3. n \in Nat /\ n >= m /\ n + 1 \in Nat /\ n + 1 >= l
    OBVIOUS
  <2> HIDE DEF n
  <2>4. X[n + 1][at] = L[at] /\ X[n + 1][at] = Unfolded(fs, X[n], at)
    BY <1>4, <2>2, <2>3
  <2> QED BY <2>1, <2>3, <2>4
<1> QED BY <1>8, <1>9

\* The recursive definition defines it.
LEMMA ExpansionIs ==
  ASSUME NEW fs \in Corpora
  PROVE  /\ Expansion(fs) \in [Places(fs) -> Results(fs)]
         /\ Keeps(fs, Expansion(fs))
         /\ \A at \in Places(fs) : Expansion(fs)[at] = Unfolded(fs, Expansion(fs), at)
<1> DEFINE D == Expansion(fs)
<1>1. PICK E \in Expanders(fs) : \A at \in Places(fs) : E[at] = Unfolded(fs, E, at)
  BY ExpanderExists
<1>2. E \in [Places(fs) -> Results(fs)] /\ Keeps(fs, E)
  BY DEF Expanders
<1>3. E = [at \in Places(fs) |-> Unfolded(fs, E, at)]
  <2>1. E = [at \in Places(fs) |-> E[at]]
    BY <1>2
  <2> QED BY <1>1, <2>1
<1>4. D = [at \in Places(fs) |-> Unfolded(fs, D, at)]
  <2>1. D = CHOOSE f : f = [at \in Places(fs) |-> Unfolded(fs, f, at)]
    BY DEF Expansion
  <2> QED BY <1>3, <2>1
<1> HIDE DEF D
<1>5. D = E
  <2> DEFINE B == {at \in Places(fs) : D[at] # E[at]}
  <2>1. CASE B = {}
    <3>1. D = [at \in Places(fs) |-> D[at]] /\ E = [at \in Places(fs) |-> E[at]]
      BY <1>3, <1>4
    <3> QED BY <2>1, <3>1
  <2>2. CASE B # {}
    <3>1. PICK at \in B : \A z \in Places(fs) : Later(fs, z, at) => z \notin B
      <4>1. B \in SUBSET Places(fs)
        OBVIOUS
      <4> HIDE DEF B
      <4> QED BY <2>2, <4>1, LastPlace
    <3>2. at \in Places(fs) /\ \A z \in Places(fs) : Later(fs, z, at) => D[z] = E[z]
      BY <3>1
    <3>3. Unfolded(fs, D, at) = Unfolded(fs, E, at)
      BY <1>2, <3>2, UnfoldedSame
    <3>4. D[at] = Unfolded(fs, D, at) /\ E[at] = Unfolded(fs, E, at)
      BY <1>1, <1>4, <3>2
    <3> QED BY <3>1, <3>3, <3>4
  <2> QED BY <2>1, <2>2
<1> QED BY <1>1, <1>2, <1>5 DEF D

-----------------------------------------------------------------------------
(* One text after the other.                                               *)

LEMMA TextAddedTyped ==
  ASSUME NEW fs \in Corpora, NEW before \in Results(fs), NEW text \in DOMAIN fs
  PROVE  LET last == Expansion(fs)[Start(text, before.once)]
         IN  /\ last \in Results(fs)
             /\ TextAdded(fs, before, text) \in Results(fs)
             /\ TextAdded(fs, before, text)
                  = Part(before.items \o last.items, last.once, last.errors)
<1> DEFINE z == Start(text, before.once)
           last == Expansion(fs)[z]
           items == before.items \o last.items
<1>1. before.once \in SUBSET DOMAIN fs /\ before.items \in Seq(Items(fs))
  BY DEF Results
<1>2. z \in Places(fs)
  BY <1>1, StartTyped
<1> HIDE DEF z
<1>3. last \in Results(fs)
  BY <1>2, ExpansionIs
<1>4. TextAdded(fs, before, text) = [last EXCEPT !.items = items]
  BY DEF TextAdded, z
<1> HIDE DEF last
<1>5. /\ last = [items |-> last.items, once |-> last.once, errors |-> last.errors]
      /\ last.items \in Seq(Items(fs)) /\ last.once \in SUBSET DOMAIN fs /\ last.errors \in Nat
  BY <1>3 DEF Results
<1>6. items \in Seq(Items(fs))
  BY <1>1, <1>5, ConcatProperties
<1> HIDE DEF items
<1>7. TextAdded(fs, before, text) = Part(items, last.once, last.errors)
  BY <1>4, <1>5 DEF Part
<1>8. Part(items, last.once, last.errors) \in Results(fs)
  BY <1>5, <1>6, PartTyped
<1> QED BY <1>3, <1>7, <1>8 DEF items, last, z

\* f gives the expansion of the first n texts, for each n.
ExpandsTexts(fs, given, f) ==
  /\ f \in [0..Len(given) -> Results(fs)]
  /\ f[0] = Part(<<>>, {}, 0)
  /\ \A n \in 1..Len(given) : f[n] = TextAdded(fs, f[n - 1], given[n])

LEMMA TextsExpandedIs ==
  ASSUME NEW fs \in Corpora, NEW given \in Seq(DOMAIN fs)
  PROVE  \E f : ExpandsTexts(fs, given, f) /\ TextsExpanded(fs, given) = f[Len(given)]
<1> DEFINE l == Len(given)
           S == Results(fs)
           begin == Part(<<>>, {}, 0)
           F == [q \in Nat \X S |->
                   IF q[1] + 1 \in 1..l THEN TextAdded(fs, q[2], given[q[1] + 1]) ELSE q[2]]
           Def(f) == [n \in 0..l |->
                        IF n = 0 THEN begin ELSE TextAdded(fs, f[n - 1], given[n])]
<1>1. l \in Nat /\ \A n \in 1..l : given[n] \in DOMAIN fs
  OBVIOUS
<1>2. begin \in S
  <2>1. {} \in SUBSET DOMAIN fs /\ 0 \in Nat
    OBVIOUS
  <2> QED BY <2>1, NothingTyped
<1> HIDE DEF l, begin
<1>3. \A E \in S, n \in 1..l : TextAdded(fs, E, given[n]) \in S
  BY <1>1, TextAddedTyped
<1>4. F \in [Nat \X S -> S]
  <2>1. \A q \in Nat \X S : q[1] \in Nat /\ q[2] \in S
    OBVIOUS
  <2> HIDE DEF S
  <2> QED BY <1>3, <2>1
<1>5. StepIn(S, F)
  BY <1>4 DEF StepIn
<1>6. \A E \in S, n \in Nat : n + 1 \in 1..l => F[<<n, E>>] = TextAdded(fs, E, given[n + 1])
  OBVIOUS
<1> HIDE DEF S, F
<1>7. PICK X \in [Nat -> S] : X[0] = begin /\ \A n \in Nat : X[n + 1] = F[<<n, X[n]>>]
  <2>1. \E X : Iterates(S, begin, F, X)
    BY <1>2, <1>5, Recursion
  <2> QED BY <2>1 DEF Iterates
<1> DEFINE f == [n \in 0..l |-> X[n]]
<1>8. f = Def(f)
  <2>1. ASSUME NEW n \in 0..l
        PROVE  X[n] = IF n = 0 THEN begin ELSE TextAdded(fs, f[n - 1], given[n])
    <3>1. CASE n = 0
      BY <1>7, <3>1
    <3>2. CASE n # 0
      <4> DEFINE k == n - 1
      <4>1. k \in Nat /\ k + 1 = n /\ k \in 0..l /\ n \in 1..l
        BY <1>1, <3>2
      <4> HIDE DEF k
      <4>2. X[k] \in S /\ f[k] = X[k]
        BY <1>7, <4>1
      <4>3. X[k + 1] = TextAdded(fs, X[k], given[k + 1])
        BY <1>6, <1>7, <4>1, <4>2
      <4>4. X[n] = TextAdded(fs, f[k], given[n])
        BY <4>1, <4>2, <4>3
      <4> QED BY <3>2, <4>4 DEF k
    <3> QED BY <3>1, <3>2
  <2> QED BY <2>1
<1> HIDE DEF f
<1> DEFINE first == CHOOSE f_1 : f_1 = Def(f_1)
<1>9. first = Def(first)
  <2> HIDE DEF Def
  <2> QED BY <1>8
<1>10. TextsExpanded(fs, given) = first[l]
  BY DEF TextsExpanded, l, begin
<1> HIDE DEF first
<1>11. /\ first[0] = begin
       /\ \A n \in 1..l : first[n] = TextAdded(fs, first[n - 1], given[n])
  <2>1. \A n \in 0..l : first[n] = IF n = 0 THEN begin ELSE TextAdded(fs, first[n - 1], given[n])
    BY <1>9
  <2>2. 0 \in 0..l /\ \A n \in 1..l : n \in 0..l /\ n # 0
    BY <1>1
  <2> QED BY <2>1, <2>2
<1>12. \A n \in 0..l : first[n] \in S
  <2> DEFINE Bad == {n \in 0..l : first[n] \notin S}
  <2> SUFFICES ASSUME Bad # {} PROVE FALSE
    OBVIOUS
  <2>1. PICK b \in Bad : \A n \in Bad : b <= n
    <3>1. Bad \in SUBSET Nat
      BY <1>1
    <3> HIDE DEF Bad
    <3> QED BY <3>1, LeastOfAny
  <2>2. b \in 1..l /\ b - 1 \in 0..l /\ b - 1 \notin Bad
    BY <1>1, <1>2, <1>11, <2>1
  <2> QED BY <1>3, <1>11, <2>1, <2>2
<1>13. DOMAIN first = 0..l /\ first = [n \in DOMAIN first |-> first[n]]
  BY <1>9
<1>14. first \in [0..l -> S]
  BY <1>12, <1>13
<1>15. ExpandsTexts(fs, given, first)
  BY <1>11, <1>14 DEF ExpandsTexts, l, S, begin
<1> QED BY <1>10, <1>15 DEF l

LEMMA TextsExpandedMore ==
  ASSUME NEW fs \in Corpora, NEW given \in Seq(DOMAIN fs), NEW text \in DOMAIN fs
  PROVE  /\ TextsExpanded(fs, given) \in Results(fs)
         /\ TextsExpanded(fs, Append(given, text))
              = TextAdded(fs, TextsExpanded(fs, given), text)
<1> DEFINE more == Append(given, text)
           l == Len(given)
<1>1. /\ more \in Seq(DOMAIN fs) /\ l \in Nat /\ Len(more) = l + 1 /\ more[l + 1] = text
      /\ \A n \in 1..l : more[n] = given[n]
  OBVIOUS
<1> HIDE DEF more
<1>2. PICK f : ExpandsTexts(fs, given, f) /\ TextsExpanded(fs, given) = f[l]
  BY TextsExpandedIs
<1>3. PICK g : ExpandsTexts(fs, more, g) /\ TextsExpanded(fs, more) = g[Len(more)]
  BY <1>1, TextsExpandedIs
<1> HIDE DEF l
<1>4. /\ f \in [0..l -> Results(fs)] /\ f[0] = g[0]
      /\ \A n \in 1..l : f[n] = TextAdded(fs, f[n - 1], given[n])
      /\ \A n \in 1..(l + 1) : g[n] = TextAdded(fs, g[n - 1], more[n])
  BY <1>1, <1>2, <1>3 DEF ExpandsTexts, l
<1>5. f[l] = g[l]
  <2> DEFINE Bad == {n \in 0..l : f[n] # g[n]}
  <2> SUFFICES ASSUME Bad # {} PROVE FALSE
    BY <1>1
  <2>1. PICK b \in Bad : \A n \in Bad : b <= n
    <3>1. Bad \in SUBSET Nat
      BY <1>1
    <3> HIDE DEF Bad
    <3> QED BY <3>1, LeastOfAny
  <2>2. b \in 1..l /\ b \in 1..(l + 1) /\ b - 1 \in 0..l /\ b - 1 \notin Bad
    BY <1>1, <1>4, <2>1
  <2> QED BY <1>1, <1>4, <2>1, <2>2
<1>6. g[l + 1] = TextAdded(fs, g[l], text)
  <2>1. l + 1 \in 1..(l + 1) /\ l + 1 - 1 = l
    BY <1>1
  <2> QED BY <1>1, <1>4, <2>1
<1>7. f[l] \in Results(fs)
  BY <1>1, <1>4
<1> QED BY <1>1, <1>2, <1>3, <1>5, <1>6, <1>7 DEF more

LEMMA TextsExpandedNone ==
  ASSUME NEW fs \in Corpora PROVE TextsExpanded(fs, <<>>) = Part(<<>>, {}, 0)
<1> DEFINE given == <<>>
<1>1. given \in Seq(DOMAIN fs) /\ Len(given) = 0
  OBVIOUS
<1> HIDE DEF given
<1>2. PICK f : ExpandsTexts(fs, given, f) /\ TextsExpanded(fs, given) = f[Len(given)]
  BY <1>1, TextsExpandedIs
<1> QED BY <1>1, <1>2 DEF ExpandsTexts, given

-----------------------------------------------------------------------------
(* The clauses and queries of some items, and of the parser's lists, when  *)
(* there is one more.                                                      *)

LEMMA OneMoreValue ==
  ASSUME NEW n \in Nat, NEW f
  PROVE  [k \in 1..(n + 1) |-> f[k]] = Append([k \in 1..n |-> f[k]], f[n + 1])
<1> DEFINE S == {f[k] : k \in 1..(n + 1)}
           s == [k \in 1..n |-> f[k]]
           t == [k \in 1..(n + 1) |-> f[k]]
<1>1. \A k \in 1..n : k \in 1..(n + 1)
  OBVIOUS
<1>2. s \in Seq(S) /\ Len(s) = n /\ f[n + 1] \in S
  BY <1>1
<1>3. t \in Seq(S) /\ Len(t) = n + 1
  OBVIOUS
<1>4. (\A k \in 1..n : s[k] = f[k] /\ t[k] = f[k]) /\ t[n + 1] = f[n + 1]
  BY <1>1
<1> DEFINE u == Append(s, f[n + 1])
<1> HIDE DEF s, t, S
<1>5. /\ u \in Seq(S) /\ Len(u) = n + 1 /\ u[n + 1] = f[n + 1]
      /\ \A k \in 1..n : u[k] = s[k]
  BY <1>2, AppendProperties
<1>6. \A k \in 1..(n + 1) : k = n + 1 \/ k \in 1..n
  OBVIOUS
<1> HIDE DEF u
<1>7. \A k \in 1..Len(t) : t[k] = u[k]
  BY <1>3, <1>4, <1>5, <1>6
<1>8. t = u
  BY <1>3, <1>5, <1>7, SeqEqual
<1> QED BY <1>8 DEF s, t, u

ClauseOfEach(s) == [k \in 1..Len(s) |-> s[k].clause]
QueryOfEach(s) == [k \in 1..Len(s) |-> <<s[k][1].query, s[k][2]>>]
JobOfEach(s) == [k \in 1..Len(s) |-> <<s[k].query, Cardinality(s[k].above)>>]

LEMMA OneMoreOfEach ==
  ASSUME NEW S, NEW s \in Seq(S), NEW e \in S
  PROVE  /\ ClauseOfEach(Append(s, e)) = Append(ClauseOfEach(s), e.clause)
         /\ QueryOfEach(Append(s, e)) = Append(QueryOfEach(s), <<e[1].query, e[2]>>)
         /\ JobOfEach(Append(s, e)) = Append(JobOfEach(s), <<e.query, Cardinality(e.above)>>)
<1> DEFINE n == Len(s)
           t == Append(s, e)
           f == [k \in 1..(n + 1) |-> t[k].clause]
           g == [k \in 1..(n + 1) |-> <<t[k][1].query, t[k][2]>>]
           h == [k \in 1..(n + 1) |-> <<t[k].query, Cardinality(t[k].above)>>]
<1>1. n \in Nat /\ Len(t) = n + 1 /\ t[n + 1] = e /\ \A k \in 1..n : t[k] = s[k]
  OBVIOUS
<1>2. n + 1 \in 1..(n + 1) /\ \A k \in 1..n : k \in 1..(n + 1)
  BY <1>1
<1> HIDE DEF n, t
<1>3. /\ ClauseOfEach(t) = [k \in 1..(n + 1) |-> f[k]]
      /\ ClauseOfEach(s) = [k \in 1..n |-> f[k]] /\ f[n + 1] = e.clause
  BY <1>1, <1>2 DEF ClauseOfEach, n
<1>4. /\ QueryOfEach(t) = [k \in 1..(n + 1) |-> g[k]]
      /\ QueryOfEach(s) = [k \in 1..n |-> g[k]] /\ g[n + 1] = <<e[1].query, e[2]>>
  BY <1>1, <1>2 DEF QueryOfEach, n
<1>5. /\ JobOfEach(t) = [k \in 1..(n + 1) |-> h[k]]
      /\ JobOfEach(s) = [k \in 1..n |-> h[k]]
      /\ h[n + 1] = <<e.query, Cardinality(e.above)>>
  BY <1>1, <1>2 DEF JobOfEach, n
<1> HIDE DEF f, g, h
<1> QED BY <1>1, <1>3, <1>4, <1>5, OneMoreValue DEF t

LEMMA SelectedKept ==
  ASSUME NEW S, NEW s \in Seq(S), NEW e \in S, NEW P \in SUBSET (1..Len(s))
  PROVE  Selected(Append(s, e), P) = Selected(s, P)
<1>1. Len(s) \in Nat /\ \A p \in P : Append(s, e)[p] = s[p]
  OBVIOUS
<1> DEFINE t == Append(s, e)
           n == Len(s)
<1>2. n \in Nat /\ P \in SUBSET (1..n) /\ \A p \in P : t[p] = s[p]
  BY <1>1
<1> HIDE DEF t, n
<1>3. Selected(t, P) = Selected(s, P)
  BY <1>2, SelectedSame
<1> QED BY <1>3 DEF t

LEMMA ItemsOfMore ==
  ASSUME NEW S, NEW items \in Seq(S), NEW e \in S, NEW kind
  PROVE  /\ ItemsOf(items, kind) \in SUBSET (1..Len(items))
         /\ ItemsOf(Append(items, e), kind)
              = ItemsOf(items, kind) \cup (IF e.kind = kind THEN {Len(items) + 1} ELSE {})
<1> DEFINE t == Append(items, e)
           n == Len(items)
<1>1. n \in Nat /\ Len(t) = n + 1 /\ t[n + 1] = e /\ \A k \in 1..n : t[k] = items[k]
  OBVIOUS
<1>2. \A k \in 1..(n + 1) : k \in 1..n \/ k = n + 1
  BY <1>1
<1>3. n + 1 \in 1..(n + 1) /\ \A k \in 1..n : k \in 1..(n + 1)
  BY <1>1
<1> HIDE DEF t, n
<1>4. ItemsOf(t, kind) = ItemsOf(items, kind) \cup (IF e.kind = kind THEN {n + 1} ELSE {})
  BY <1>1, <1>2, <1>3 DEF ItemsOf, n
<1>5. ItemsOf(items, kind) \in SUBSET (1..n)
  BY DEF ItemsOf, n
<1> QED BY <1>4, <1>5 DEF t, n

LEMMA ClausesMore ==
  ASSUME NEW S, NEW items \in Seq(S), NEW e \in S
  PROVE  /\ Len(ClausesOf(items)) = Cardinality(ItemsOf(items, "clause"))
         /\ ClausesOf(Append(items, e)) = IF e.kind = "clause"
                                            THEN Append(ClausesOf(items), e.clause)
                                            ELSE ClausesOf(items)
<1> DEFINE P == ItemsOf(items, "clause")
           t == Append(items, e)
<1>1. /\ P \in SUBSET (1..Len(items))
      /\ ItemsOf(t, "clause") = P \cup (IF e.kind = "clause" THEN {Len(items) + 1} ELSE {})
  BY ItemsOfMore
<1>2. \A s : ClausesOf(s) = ClauseOfEach(Selected(s, ItemsOf(s, "clause")))
  BY DEF ClausesOf, ClauseOfEach
<1> HIDE DEF P
<1>3. /\ Selected(items, P) \in Seq(S) /\ Len(Selected(items, P)) = Cardinality(P)
      /\ Cardinality(P) \in Nat
  BY <1>1, SelectedElements
<1>4. Len(ClausesOf(items)) = Cardinality(P)
  BY <1>2, <1>3 DEF P, ClauseOfEach
<1>5. CASE e.kind = "clause"
  <2>0. P \in SUBSET (1..Len(items))
    BY <1>1
  <2>1. Selected(t, P \cup {Len(items) + 1}) = Append(Selected(items, P), e)
    <3>1. \A u \in Seq(S) : \A R \in SUBSET (1..Len(u)) : \A x \in S :
            Selected(Append(u, x), R \cup {Len(u) + 1}) = Append(Selected(u, R), x)
      BY SelectedAppend
    <3> QED BY <2>0, <3>1
  <2>2. ClauseOfEach(Append(Selected(items, P), e))
          = Append(ClauseOfEach(Selected(items, P)), e.clause)
    BY <1>3, OneMoreOfEach
  <2> QED BY <1>1, <1>2, <1>4, <1>5, <2>1, <2>2 DEF P
<1>6. CASE e.kind # "clause"
  <2>1. Selected(t, P) = Selected(items, P)
    BY <1>1, SelectedKept
  <2> QED BY <1>1, <1>2, <1>4, <1>6, <2>1 DEF P
<1> QED BY <1>5, <1>6

LEMMA AboveMore ==
  ASSUME NEW S, NEW items \in Seq(S), NEW e \in S
  PROVE  /\ WithClausesAbove(items) \in Seq(S \X Nat)
         /\ Len(WithClausesAbove(items)) = Len(items)
         /\ Cardinality(ItemsOf(items, "clause")) \in Nat
         /\ WithClausesAbove(Append(items, e))
              = Append(WithClausesAbove(items), <<e, Cardinality(ItemsOf(items, "clause"))>>)
<1> DEFINE t == Append(items, e)
           n == Len(items)
           P == ItemsOf(items, "clause")
           Q == ItemsOf(t, "clause")
           f == [i \in 1..(n + 1) |-> <<t[i], Cardinality({j \in Q : j < i})>>]
<1>1. /\ n \in Nat /\ Len(t) = n + 1 /\ t[n + 1] = e
      /\ \A k \in 1..n : t[k] = items[k] /\ items[k] \in S
  OBVIOUS
<1>2. P \in SUBSET (1..n) /\ Q = P \cup (IF e.kind = "clause" THEN {n + 1} ELSE {})
  BY ItemsOfMore
<1>3. IsFiniteSet(1..n)
  BY <1>1, FS_Interval
<1>4. \A T \in SUBSET P : Cardinality(T) \in Nat
  <2> TAKE T \in SUBSET P
  <2>1. T \in SUBSET (1..n)
    BY <1>2
  <2>2. IsFiniteSet(T)
    BY <1>3, <2>1, FS_Subset
  <2> QED BY <2>2, FS_CardinalityType
<1> HIDE DEF n, t, P, Q
<1>5. \A i \in 1..n : {j \in Q : j < i} = {j \in P : j < i}
  BY <1>1, <1>2
<1>6. {j \in Q : j < n + 1} = P
  <2>1. \A j \in P : j \in Q /\ j < n + 1
    BY <1>1, <1>2
  <2>2. \A j \in Q : j < n + 1 => j \in P
    BY <1>1, <1>2
  <2> QED BY <2>1, <2>2
<1>7. n + 1 \in 1..(n + 1) /\ \A k \in 1..n : k \in 1..(n + 1)
  BY <1>1
<1>8. WithClausesAbove(items) = [i \in 1..n |-> <<items[i], Cardinality({j \in P : j < i})>>]
  BY DEF WithClausesAbove, n, P
<1>9. WithClausesAbove(t) = [i \in 1..(n + 1) |-> f[i]]
  BY <1>1 DEF WithClausesAbove, Q
<1>10. \A i \in 1..n : f[i] = <<items[i], Cardinality({j \in P : j < i})>>
  BY <1>1, <1>5, <1>7
<1>11. f[n + 1] = <<e, Cardinality(P)>>
  BY <1>1, <1>6, <1>7
<1> HIDE DEF f
<1>12. WithClausesAbove(items) = [i \in 1..n |-> f[i]]
  BY <1>8, <1>10
<1>13. WithClausesAbove(t) = Append(WithClausesAbove(items), <<e, Cardinality(P)>>)
  BY <1>1, <1>9, <1>11, <1>12, OneMoreValue
<1>14. \A i \in 1..n : f[i] \in S \X Nat
  <2> TAKE i \in 1..n
  <2>1. {j \in P : j < i} \in SUBSET P
    OBVIOUS
  <2>2. Cardinality({j \in P : j < i}) \in Nat
    BY <1>4, <2>1
  <2> DEFINE c == Cardinality({j \in P : j < i})
  <2>3. f[i] = <<items[i], c>> /\ items[i] \in S /\ c \in Nat
    BY <1>1, <1>10, <2>2
  <2> HIDE DEF c
  <2> QED BY <2>3
<1>15. WithClausesAbove(items) \in Seq(S \X Nat) /\ Len(WithClausesAbove(items)) = n
  BY <1>1, <1>12, <1>14
<1> QED BY <1>4, <1>13, <1>15 DEF n, t, P

LEMMA QueriesMore ==
  ASSUME NEW S, NEW items \in Seq(S), NEW e \in S
  PROVE  QueriesOf(Append(items, e))
           = IF e.kind = "query"
               THEN Append(QueriesOf(items),
                           <<e.query, Cardinality(ItemsOf(items, "clause"))>>)
               ELSE QueriesOf(items)
<1> DEFINE P == ItemsOf(items, "query")
           t == Append(items, e)
           n == Len(items)
           w == WithClausesAbove(items)
           q == <<e, Cardinality(ItemsOf(items, "clause"))>>
<1>1. /\ P \in SUBSET (1..n)
      /\ ItemsOf(t, "query") = P \cup (IF e.kind = "query" THEN {n + 1} ELSE {})
  BY ItemsOfMore
<1>2. /\ w \in Seq(S \X Nat) /\ Len(w) = n /\ q \in S \X Nat
      /\ WithClausesAbove(t) = Append(w, q)
  BY AboveMore
<1>3. \A s : QueriesOf(s) = QueryOfEach(Selected(WithClausesAbove(s), ItemsOf(s, "query")))
  BY DEF QueriesOf, QueryOfEach
<1>4. q[1] = e /\ q[2] = Cardinality(ItemsOf(items, "clause"))
  OBVIOUS
<1>5. QueriesOf(items) = QueryOfEach(Selected(w, P))
  BY <1>3
<1> HIDE DEF P, n, w, q, t
<1>6. Selected(w, P) \in Seq(S \X Nat)
  BY <1>1, <1>2, SelectedElements
<1>7. CASE e.kind = "query"
  <2>0. P \in SUBSET (1..Len(w))
    BY <1>1, <1>2
  <2>1. Selected(Append(w, q), P \cup {Len(w) + 1}) = Append(Selected(w, P), q)
    <3> DEFINE T == S \X Nat
    <3>1. w \in Seq(T) /\ q \in T
      BY <1>2
    <3> HIDE DEF T
    <3>2. \A u \in Seq(T) : \A R \in SUBSET (1..Len(u)) : \A x \in T :
            Selected(Append(u, x), R \cup {Len(u) + 1}) = Append(Selected(u, R), x)
      BY SelectedAppend
    <3> QED BY <2>0, <3>1, <3>2
  <2>2. QueryOfEach(Append(Selected(w, P), q))
          = Append(QueryOfEach(Selected(w, P)), <<q[1].query, q[2]>>)
    BY <1>2, <1>6, OneMoreOfEach
  <2>3. QueriesOf(t) = Append(QueriesOf(items), <<e.query, q[2]>>)
    BY <1>1, <1>2, <1>3, <1>4, <1>5, <1>7, <2>1, <2>2
  <2> QED BY <1>4, <1>7, <2>3 DEF t
<1>8. CASE e.kind # "query"
  <2>1. Selected(Append(w, q), P) = Selected(w, P)
    BY <1>1, <1>2, SelectedKept
  <2>2. QueriesOf(t) = QueriesOf(items)
    BY <1>1, <1>2, <1>3, <1>5, <1>8, <2>1
  <2> QED BY <1>8, <2>2 DEF t
<1> QED BY <1>7, <1>8

-----------------------------------------------------------------------------
(* A call of the parser, and the calls that wait for it.                   *)

FramesIn(fs) == [file : DOMAIN fs, pos : Nat \ {0}, errors : Nat]

At(frame, once) == [file |-> frame.file, pos |-> frame.pos, once |-> once]
FrameAt(file, pos, n) == [file |-> file, pos |-> pos, errors |-> n]

\* What there will be when a call returns that goes on from what there is.
Continued(fs, so, frame) ==
  LET rest == Expansion(fs)[At(frame, so.once)]
  IN  Part(so.items \o rest.items, rest.once, so.errors + frame.errors + rest.errors)

LEMMA ContinuedTyped ==
  ASSUME NEW fs \in Corpora, NEW so \in Results(fs), NEW frame \in FramesIn(fs)
  PROVE  /\ At(frame, so.once) \in Places(fs)
         /\ Expansion(fs)[At(frame, so.once)] \in Results(fs)
         /\ Continued(fs, so, frame) \in Results(fs)
<1>1. so.once \in SUBSET DOMAIN fs /\ so.items \in Seq(Items(fs)) /\ so.errors \in Nat
  BY DEF Results
<1>2. frame.file \in DOMAIN fs /\ frame.pos \in Nat \ {0} /\ frame.errors \in Nat
  BY DEF FramesIn
<1> DEFINE z == At(frame, so.once)
<1>3. z \in Places(fs)
  BY <1>1, <1>2 DEF At, Places
<1> DEFINE rest == Expansion(fs)[z]
<1> HIDE DEF z
<1>4. rest \in Results(fs)
  BY <1>3, ExpansionIs
<1> DEFINE items == so.items \o rest.items
           n == so.errors + frame.errors + rest.errors
<1> HIDE DEF rest
<1>5. rest.items \in Seq(Items(fs)) /\ rest.once \in SUBSET DOMAIN fs /\ rest.errors \in Nat
  BY <1>4 DEF Results
<1>6. items \in Seq(Items(fs)) /\ n \in Nat
  BY <1>1, <1>2, <1>5, ConcatProperties
<1>7. Continued(fs, so, frame) = Part(items, rest.once, n)
  BY DEF Continued, rest, z
<1> HIDE DEF items, n
<1>8. Part(items, rest.once, n) \in Results(fs)
  BY <1>5, <1>6, PartTyped
<1> QED BY <1>3, <1>4, <1>7, <1>8 DEF rest, z

\* An event is passed by adding what it comes to.
LEMMA EventPassed ==
  ASSUME NEW fs \in Corpora, NEW so \in Results(fs),
         NEW file \in DOMAIN fs, NEW pos \in Nat \ {0}, NEW n \in Nat,
         GoesOn(fs, At(FrameAt(file, pos, n), so.once))
  PROVE  LET part == EventExpanded(fs, Expansion(fs), At(FrameAt(file, pos, n), so.once))
         IN  /\ part \in Results(fs)
             /\ Joined(so, part) \in Results(fs)
             /\ Continued(fs, so, FrameAt(file, pos, n))
                  = Continued(fs, Joined(so, part), FrameAt(file, pos + 1, n))
<1> DEFINE z == At(FrameAt(file, pos, n), so.once)
           E == Expansion(fs)
           part == EventExpanded(fs, E, z)
           y == Behind(z, part.once)
           rest == E[y]
           join == Joined(so, part)
<1>1. z \in Places(fs)
  BY DEF Places, At, FrameAt, Results
<1>2. E \in [Places(fs) -> Results(fs)] /\ Keeps(fs, E) /\ E[z] = Unfolded(fs, E, z)
  BY <1>1, ExpansionIs
<1>3. GoesOn(fs, z)
  OBVIOUS
<1>4. z.file = file /\ z.pos = pos /\ z.once = so.once
  BY DEF At, FrameAt
<1> HIDE DEF z, E
<1>5. part \in Results(fs)
  BY <1>1, <1>2, <1>3, EventExpandedTyped
<1>6. Unfolded(fs, E, z) = Joined(part, rest)
  BY <1>1, <1>3, EventAt, PlaceTyped DEF Unfolded, GoesOn, HasEvent
<1> HIDE DEF part
<1>7. part.once \in SUBSET DOMAIN fs
  BY <1>5 DEF Results
<1>8. y \in Places(fs)
  BY <1>1, <1>7, PlaceTyped
<1>9. y = At(FrameAt(file, pos + 1, n), part.once)
  BY <1>4 DEF Behind, At, FrameAt
<1> HIDE DEF y
<1>10. rest \in Results(fs)
  BY <1>2, <1>8
<1> HIDE DEF rest
<1>11. /\ join \in Results(fs) /\ join.items = so.items \o part.items
       /\ join.once = part.once /\ join.errors = so.errors + part.errors
  BY <1>5, JoinedTyped
<1>12. /\ Joined(part, rest).items = part.items \o rest.items
       /\ Joined(part, rest).once = rest.once
       /\ Joined(part, rest).errors = part.errors + rest.errors
  BY <1>5, <1>10, JoinedTyped
<1> HIDE DEF join
<1>13. /\ so.items \in Seq(Items(fs)) /\ part.items \in Seq(Items(fs))
       /\ rest.items \in Seq(Items(fs))
       /\ so.errors \in Nat /\ part.errors \in Nat /\ rest.errors \in Nat
  BY <1>5, <1>10 DEF Results
<1>14. so.items \o (part.items \o rest.items) = (so.items \o part.items) \o rest.items
  <2> DEFINE S == Items(fs)
  <2>1. so.items \in Seq(S) /\ part.items \in Seq(S) /\ rest.items \in Seq(S)
    BY <1>13
  <2> HIDE DEF S
  <2>2. \A a, b, c \in Seq(S) : (a \o b) \o c = a \o (b \o c)
    BY ConcatAssociative
  <2> QED BY <2>1, <2>2
<1>15. so.errors + n + (part.errors + rest.errors) = so.errors + part.errors + n + rest.errors
  BY <1>13
<1>16. Continued(fs, so, FrameAt(file, pos, n))
         = Part(so.items \o (part.items \o rest.items), rest.once,
                so.errors + n + (part.errors + rest.errors))
  <2>1. FrameAt(file, pos, n).errors = n
    BY DEF FrameAt
  <2>2. E[z] = Joined(part, rest)
    BY <1>2, <1>6
  <2> QED BY <1>12, <2>1, <2>2 DEF Continued, z, E
<1>17. Continued(fs, join, FrameAt(file, pos + 1, n))
         = Part((so.items \o part.items) \o rest.items, rest.once,
                so.errors + part.errors + n + rest.errors)
  <2>1. FrameAt(file, pos + 1, n).errors = n
    BY DEF FrameAt
  <2> QED BY <1>9, <1>11, <2>1 DEF Continued, rest, E
<1>18. Continued(fs, so, FrameAt(file, pos, n)) = Continued(fs, join, FrameAt(file, pos + 1, n))
  BY <1>14, <1>15, <1>16, <1>17
<1> QED BY <1>5, <1>11, <1>18 DEF join, part, E, z

\* Errors of the import that was called count like the caller's own.
LEMMA ErrorsMoved ==
  ASSUME NEW fs \in Corpora, NEW items \in Seq(Items(fs)),
         NEW once \in SUBSET DOMAIN fs, NEW e \in Nat,
         NEW file \in DOMAIN fs, NEW pos \in Nat \ {0}, NEW n \in Nat
  PROVE  Continued(fs, Part(items, once, e), FrameAt(file, pos, n))
           = Continued(fs, Part(items, once, 0), FrameAt(file, pos, n + e))
<1> DEFINE z == At(FrameAt(file, pos, n), once)
           rest == Expansion(fs)[z]
<1>1. z \in Places(fs)
  BY DEF Places, At, FrameAt
<1>2. z = At(FrameAt(file, pos, n + e), once)
  BY DEF At, FrameAt
<1> HIDE DEF z
<1>3. rest \in Results(fs)
  BY <1>1, ExpansionIs
<1>4. /\ Part(items, once, e).items = items /\ Part(items, once, 0).items = items
      /\ Part(items, once, e).once = once /\ Part(items, once, 0).once = once
      /\ Part(items, once, e).errors = e /\ Part(items, once, 0).errors = 0
  BY DEF Part
<1>5. FrameAt(file, pos, n).errors = n /\ FrameAt(file, pos, n + e).errors = n + e
  BY DEF FrameAt
<1>6. Continued(fs, Part(items, once, e), FrameAt(file, pos, n))
        = Part(items \o rest.items, rest.once, e + n + rest.errors)
  BY <1>4, <1>5 DEF Continued, z
<1>7. Continued(fs, Part(items, once, 0), FrameAt(file, pos, n + e))
        = Part(items \o rest.items, rest.once, 0 + (n + e) + rest.errors)
  BY <1>2, <1>4, <1>5 DEF Continued
<1>8. rest.errors \in Nat
  BY <1>3 DEF Results
<1>9. e + n + rest.errors = 0 + (n + e) + rest.errors
  BY <1>8
<1> QED BY <1>6, <1>7, <1>9

\* Each kind of event, when the parser has these items and has not come to any
\* error that is not counted in its frame.
LEMMA PartFresh ==
  ASSUME NEW fs, NEW items \in Seq(Items(fs)), NEW once \in SUBSET DOMAIN fs
  PROVE  /\ Part(items, once, 0) \in Results(fs)
         /\ Part(items, once, 0).once = once
         /\ Part(items, once, 0).items = items
         /\ Part(items, once, 0).errors = 0
BY DEF Results, Part

LEMMA NothingJoined ==
  ASSUME NEW fs, NEW items \in Seq(Items(fs)), NEW once, NEW e \in Nat
  PROVE  Joined(Part(items, once, 0), Part(<<>>, once, e)) = Part(items, once, e)
<1> DEFINE none == <<>>
           S == Items(fs)
<1>1. items \o none = items
  <2>1. items \in Seq(S)
    OBVIOUS
  <2> HIDE DEF S
  <2> QED BY <2>1
<1> HIDE DEF none, S
<1>2. /\ Part(items, once, 0).items = items /\ Part(items, once, 0).errors = 0
      /\ Part(none, once, e).items = none /\ Part(none, once, e).errors = e
      /\ Part(none, once, e).once = once
  BY DEF Part
<1>3. 0 + e = e
  OBVIOUS
<1> QED BY <1>1, <1>2, <1>3 DEF Joined, none

LEMMA ItemJoined ==
  ASSUME NEW fs, NEW items \in Seq(Items(fs)), NEW once, NEW x \in Items(fs)
  PROVE  /\ Append(items, x) \in Seq(Items(fs))
         /\ Joined(Part(items, once, 0), Part(<<x>>, once, 0)) = Part(Append(items, x), once, 0)
<1> DEFINE one == <<x>>
           S == Items(fs)
<1>1. Append(items, x) \in Seq(S) /\ items \o one = Append(items, x)
  <2>1. items \in Seq(S) /\ x \in S
    OBVIOUS
  <2> HIDE DEF S
  <2> QED BY <2>1
<1> HIDE DEF one
<1>2. /\ Part(items, once, 0).items = items /\ Part(items, once, 0).errors = 0
      /\ Part(one, once, 0).items = one /\ Part(one, once, 0).errors = 0
      /\ Part(one, once, 0).once = once
  BY DEF Part
<1> DEFINE more == Append(items, x)
<1>3. more \in Seq(Items(fs)) /\ items \o one = more
  BY <1>1
<1> HIDE DEF more
<1>4. 0 + 0 = 0
  OBVIOUS
<1>5. Joined(Part(items, once, 0), Part(one, once, 0)) = Part(more, once, 0)
  BY <1>2, <1>3, <1>4 DEF Joined
<1> QED BY <1>3, <1>5 DEF one, more

\* A clause or a query is added.
LEMMA ItemPassed ==
  ASSUME NEW fs \in Corpora, NEW items \in Seq(Items(fs)), NEW once \in SUBSET DOMAIN fs,
         NEW file \in DOMAIN fs, NEW pos \in Nat \ {0}, NEW n \in Nat,
         pos <= Len(fs[file]), fs[file][pos].kind \notin {"import", "error"}
  PROVE  /\ fs[file][pos] \in Items(fs)
         /\ Append(items, fs[file][pos]) \in Seq(Items(fs))
         /\ Continued(fs, Part(items, once, 0), FrameAt(file, pos, n))
              = Continued(fs, Part(Append(items, fs[file][pos]), once, 0),
                          FrameAt(file, pos + 1, n))
<1> DEFINE so == Part(items, once, 0)
           z == At(FrameAt(file, pos, n), so.once)
           x == fs[file][pos]
<1>1. so \in Results(fs) /\ so.once = once
  BY PartFresh
<1>2. z.file = file /\ z.pos = pos /\ z.once = once
  BY <1>1 DEF At, FrameAt
<1>3. z \in Places(fs)
  BY <1>1 DEF At, FrameAt, Places
<1> HIDE DEF z, so
<1>4. GoesOn(fs, z) /\ HasEvent(fs, z)
  BY <1>2 DEF GoesOn, HasEvent
<1>5. x \in Items(fs)
  BY <1>2, <1>3, <1>4, EventAt
<1>6. EventExpanded(fs, Expansion(fs), z) = Part(<<x>>, once, 0)
  BY <1>2 DEF EventExpanded
<1>7. Continued(fs, so, FrameAt(file, pos, n))
        = Continued(fs, Joined(so, Part(<<x>>, once, 0)), FrameAt(file, pos + 1, n))
  BY <1>1, <1>4, <1>6, EventPassed DEF z
<1> HIDE DEF x
<1>8. /\ Append(items, x) \in Seq(Items(fs))
      /\ Joined(so, Part(<<x>>, once, 0)) = Part(Append(items, x), once, 0)
  BY <1>5, ItemJoined DEF so
<1> QED BY <1>5, <1>7, <1>8 DEF so, x

\* An import of a file that is not there is an error.
LEMMA MissingPassed ==
  ASSUME NEW fs \in Corpora, NEW items \in Seq(Items(fs)), NEW once \in SUBSET DOMAIN fs,
         NEW file \in DOMAIN fs, NEW pos \in Nat \ {0}, NEW n \in Nat,
         pos <= Len(fs[file]), fs[file][pos].kind = "import",
         fs[file][pos].file \notin DOMAIN fs
  PROVE  Continued(fs, Part(items, once, 0), FrameAt(file, pos, n))
           = Continued(fs, Part(items, once, 0), FrameAt(file, pos + 1, n + 1))
<1> DEFINE so == Part(items, once, 0)
           z == At(FrameAt(file, pos, n), so.once)
<1>1. so \in Results(fs) /\ so.once = once
  BY PartFresh
<1>2. z.file = file /\ z.pos = pos /\ z.once = once
  BY <1>1 DEF At, FrameAt
<1> HIDE DEF z, so
<1>3. GoesOn(fs, z)
  BY <1>2 DEF GoesOn, HasEvent
<1>4. EventExpanded(fs, Expansion(fs), z) = Part(<<>>, once, 1)
  BY <1>2 DEF EventExpanded
<1>5. Continued(fs, so, FrameAt(file, pos, n))
        = Continued(fs, Joined(so, Part(<<>>, once, 1)), FrameAt(file, pos + 1, n))
  BY <1>1, <1>3, <1>4, EventPassed DEF z
<1>6. 1 \in Nat /\ pos + 1 \in Nat \ {0}
  OBVIOUS
<1>7. Joined(so, Part(<<>>, once, 1)) = Part(items, once, 1)
  BY <1>6, NothingJoined DEF so
<1>8. Continued(fs, Part(items, once, 1), FrameAt(file, pos + 1, n))
        = Continued(fs, Part(items, once, 0), FrameAt(file, pos + 1, n + 1))
  <2> DEFINE p == pos + 1
             e == 1
  <2>1. p \in Nat \ {0} /\ e \in Nat
    BY <1>6
  <2> HIDE DEF p, e
  <2>2. Continued(fs, Part(items, once, e), FrameAt(file, p, n))
          = Continued(fs, Part(items, once, 0), FrameAt(file, p, n + e))
    BY <2>1, ErrorsMoved
  <2> QED BY <2>2 DEF p, e
<1> QED BY <1>5, <1>7, <1>8 DEF so

\* One of a file that was imported before is nothing.
LEMMA AgainPassed ==
  ASSUME NEW fs \in Corpora, NEW items \in Seq(Items(fs)), NEW once \in SUBSET DOMAIN fs,
         NEW file \in DOMAIN fs, NEW pos \in Nat \ {0}, NEW n \in Nat,
         pos <= Len(fs[file]), fs[file][pos].kind = "import",
         fs[file][pos].file \in DOMAIN fs, fs[file][pos].file \in once
  PROVE  Continued(fs, Part(items, once, 0), FrameAt(file, pos, n))
           = Continued(fs, Part(items, once, 0), FrameAt(file, pos + 1, n))
<1> DEFINE so == Part(items, once, 0)
           z == At(FrameAt(file, pos, n), so.once)
<1>1. so \in Results(fs) /\ so.once = once
  BY PartFresh
<1>2. z.file = file /\ z.pos = pos /\ z.once = once
  BY <1>1 DEF At, FrameAt
<1> HIDE DEF z, so
<1>3. GoesOn(fs, z)
  BY <1>2 DEF GoesOn, HasEvent
<1>4. EventExpanded(fs, Expansion(fs), z) = Part(<<>>, once, 0)
  BY <1>2 DEF EventExpanded
<1>5. Continued(fs, so, FrameAt(file, pos, n))
        = Continued(fs, Joined(so, Part(<<>>, once, 0)), FrameAt(file, pos + 1, n))
  BY <1>1, <1>3, <1>4, EventPassed DEF z
<1>6. 0 \in Nat
  OBVIOUS
<1>7. Joined(so, Part(<<>>, once, 0)) = Part(items, once, 0)
  BY <1>6, NothingJoined DEF so
<1> QED BY <1>5, <1>7 DEF so

\* Any other is what a call for the file will return.
LEMMA ImportPassed ==
  ASSUME NEW fs \in Corpora, NEW items \in Seq(Items(fs)), NEW once \in SUBSET DOMAIN fs,
         NEW file \in DOMAIN fs, NEW pos \in Nat \ {0}, NEW n \in Nat, NEW f \in DOMAIN fs,
         pos <= Len(fs[file]), fs[file][pos].kind = "import",
         fs[file][pos].file = f, f \notin once
  PROVE  Continued(fs, Part(items, once, 0), FrameAt(file, pos, n))
           = Continued(fs, Continued(fs, Part(items, once \cup {f}, 0), FrameAt(f, 1, 0)),
                       FrameAt(file, pos + 1, n))
<1> DEFINE so == Part(items, once, 0)
           on == Part(items, once \cup {f}, 0)
           z == At(FrameAt(file, pos, n), so.once)
           y == Start(f, once \cup {f})
           part == Expansion(fs)[y]
<1>1. so \in Results(fs) /\ so.once = once /\ so.items = items /\ so.errors = 0
  BY PartFresh
<1>2. z.file = file /\ z.pos = pos /\ z.once = once
  BY <1>1 DEF At, FrameAt
<1>3. on.once = once \cup {f} /\ on.items = items /\ on.errors = 0
  BY DEF Part
<1>4. y \in Places(fs) /\ y = At(FrameAt(f, 1, 0), on.once)
  <2> DEFINE known == once \cup {f}
  <2>1. known \in SUBSET DOMAIN fs
    OBVIOUS
  <2> HIDE DEF known, on
  <2>2. Start(f, known) \in Places(fs)
    BY <2>1, StartTyped
  <2>3. FrameAt(f, 1, 0).file = f /\ FrameAt(f, 1, 0).pos = 1
    BY DEF FrameAt
  <2>4. At(FrameAt(f, 1, 0), on.once) = Start(f, known)
    BY <1>3, <2>3 DEF At, Start, known
  <2> QED BY <2>2, <2>4 DEF known
<1> HIDE DEF z, so, on, y
<1>5. GoesOn(fs, z)
  BY <1>2 DEF GoesOn, HasEvent
<1>6. EventExpanded(fs, Expansion(fs), z) = part
  BY <1>2 DEF EventExpanded, y
<1>7. Continued(fs, so, FrameAt(file, pos, n))
        = Continued(fs, Joined(so, part), FrameAt(file, pos + 1, n))
  BY <1>1, <1>5, <1>6, EventPassed DEF z
<1>8. part \in Results(fs)
  BY <1>4, ExpansionIs
<1> HIDE DEF part
<1>9. 0 + part.errors = 0 + 0 + part.errors
  BY <1>8 DEF Results
<1>10. Joined(so, part) = Part(items \o part.items, part.once, 0 + part.errors)
  BY <1>1 DEF Joined
<1>11. Continued(fs, on, FrameAt(f, 1, 0))
         = Part(items \o part.items, part.once, 0 + 0 + part.errors)
  <2>1. FrameAt(f, 1, 0).errors = 0
    BY DEF FrameAt
  <2> QED BY <1>3, <1>4, <2>1 DEF Continued, part
<1> QED BY <1>7, <1>9, <1>10, <1>11 DEF so, on

\* The end of a text returns what has been counted, ...
LEMMA EndReached ==
  ASSUME NEW fs \in Corpora, NEW items \in Seq(Items(fs)), NEW once \in SUBSET DOMAIN fs,
         NEW file \in DOMAIN fs, NEW pos \in Nat \ {0}, NEW n \in Nat,
         ~(pos <= Len(fs[file]))
  PROVE  Continued(fs, Part(items, once, 0), FrameAt(file, pos, n)) = Part(items, once, n)
<1> DEFINE so == Part(items, once, 0)
           z == At(FrameAt(file, pos, n), once)
           E == Expansion(fs)
<1>1. so.once = once /\ so.items = items /\ so.errors = 0
  BY DEF Part
<1>2. z.file = file /\ z.pos = pos /\ z.once = once
  BY DEF At, FrameAt
<1>3. z \in Places(fs)
  BY DEF At, FrameAt, Places
<1>4. E[z] = Unfolded(fs, E, z)
  BY <1>3, ExpansionIs
<1> HIDE DEF z, so, E
<1>5. Len(fs[file]) \in Nat
  BY <1>2, <1>3, EventAt
<1>6. pos > Len(fs[file])
  BY <1>5
<1>7. E[z] = Part(<<>>, once, 0)
  BY <1>2, <1>4, <1>6 DEF Unfolded
<1>8. E[z].items = <<>> /\ E[z].once = once /\ E[z].errors = 0
  BY <1>7 DEF Part
<1>9. FrameAt(file, pos, n).errors = n
  BY DEF FrameAt
<1>10. Continued(fs, so, FrameAt(file, pos, n)) = Part(items \o <<>>, once, 0 + n + 0)
  BY <1>1, <1>8, <1>9 DEF Continued, E, z
<1>11. 0 + n + 0 = n
  OBVIOUS
<1>12. items \o <<>> = items
  <2> DEFINE S == Items(fs)
  <2>1. items \in Seq(S)
    OBVIOUS
  <2> HIDE DEF S
  <2> QED BY <2>1
<1> QED BY <1>10, <1>11, <1>12 DEF so

\* ... and a parse error is the end of a text, and counts.
LEMMA ErrorMet ==
  ASSUME NEW fs \in Corpora, NEW items \in Seq(Items(fs)), NEW once \in SUBSET DOMAIN fs,
         NEW file \in DOMAIN fs, NEW pos \in Nat \ {0}, NEW n \in Nat,
         pos <= Len(fs[file]), fs[file][pos].kind = "error"
  PROVE  /\ Len(fs[file]) + 1 \in Nat \ {0}
         /\ Continued(fs, Part(items, once, 0), FrameAt(file, pos, n))
              = Continued(fs, Part(items, once, 0), FrameAt(file, Len(fs[file]) + 1, n + 1))
<1> DEFINE so == Part(items, once, 0)
           z == At(FrameAt(file, pos, n), once)
           E == Expansion(fs)
           l == Len(fs[file]) + 1
<1>1. so.once = once /\ so.items = items /\ so.errors = 0
  BY DEF Part
<1>2. z.file = file /\ z.pos = pos /\ z.once = once
  BY DEF At, FrameAt
<1>3. z \in Places(fs)
  BY DEF At, FrameAt, Places
<1>4. E[z] = Unfolded(fs, E, z)
  BY <1>3, ExpansionIs
<1> HIDE DEF z, so, E
<1>5. Len(fs[file]) \in Nat
  BY <1>2, <1>3, EventAt
<1>6. ~(pos > Len(fs[file])) /\ l \in Nat \ {0} /\ ~(l <= Len(fs[file])) /\ n + 1 \in Nat
  BY <1>5
<1> HIDE DEF l
<1>7. E[z] = Part(<<>>, once, 1)
  BY <1>2, <1>4, <1>6 DEF Unfolded
<1>8. E[z].items = <<>> /\ E[z].once = once /\ E[z].errors = 1
  BY <1>7 DEF Part
<1>9. FrameAt(file, pos, n).errors = n
  BY DEF FrameAt
<1>10. Continued(fs, so, FrameAt(file, pos, n)) = Part(items \o <<>>, once, 0 + n + 1)
  BY <1>1, <1>8, <1>9 DEF Continued, E, z
<1>11. 0 + n + 1 = n + 1
  OBVIOUS
<1>12. items \o <<>> = items
  <2> DEFINE S == Items(fs)
  <2>1. items \in Seq(S)
    OBVIOUS
  <2> HIDE DEF S
  <2> QED BY <2>1
<1>13. Continued(fs, so, FrameAt(file, l, n + 1)) = Part(items, once, n + 1)
  BY <1>6, EndReached DEF so, l
<1> QED BY <1>6, <1>10, <1>11, <1>12, <1>13 DEF so, l

-----------------------------------------------------------------------------
(* All the calls under way: so[k + 1] is what there is when the k-th of    *)
(* them goes on, and so[1] what there is in the end.                       *)

Resumes(fs, fr, so) ==
  /\ so \in [1..(Len(fr) + 1) -> Results(fs)]
  /\ \A k \in 1..Len(fr) : so[k] = Continued(fs, so[k + 1], fr[k])

\* The two sequences have the same first n calls.
SameUpTo(n, fr, gr) == n <= Len(fr) /\ n <= Len(gr) /\ \A k \in 1..n : gr[k] = fr[k]

\* The innermost call goes on.
LEMMA TopChanged ==
  ASSUME NEW fs \in Corpora, NEW fr \in Seq(FramesIn(fs)), NEW gr \in Seq(FramesIn(fs)),
         NEW n \in Nat, NEW so, Resumes(fs, fr, so), NEW on \in Results(fs),
         Len(fr) = n + 1, Len(gr) = n + 1, SameUpTo(n, fr, gr),
         Continued(fs, on, gr[n + 1]) = Continued(fs, so[n + 2], fr[n + 1])
  PROVE  \E t : Resumes(fs, gr, t) /\ t[1] = so[1] /\ t[Len(gr) + 1] = on
<1> DEFINE t == [k \in 1..(n + 2) |-> IF k = n + 2 THEN on ELSE so[k]]
<1>1. /\ so \in [1..(n + 2) -> Results(fs)]
      /\ \A k \in 1..(n + 1) : so[k] = Continued(fs, so[k + 1], fr[k])
  BY DEF Resumes
<1>2. t \in [1..(n + 2) -> Results(fs)] /\ t[n + 2] = on
  BY <1>1
<1>3. \A k \in 1..(n + 1) : t[k] = so[k]
  BY <1>1
<1> HIDE DEF t
<1>4. ASSUME NEW k \in 1..(n + 1) PROVE t[k] = Continued(fs, t[k + 1], gr[k])
  <2>1. CASE k = n + 1
    BY <1>1, <1>2, <1>3, <2>1
  <2>2. CASE k # n + 1
    <3>1. k \in 1..n /\ k + 1 \in 1..(n + 1)
      BY <2>2
    <3> QED BY <1>1, <1>3, <3>1 DEF SameUpTo
  <2> QED BY <2>1, <2>2
<1>5. 1 \in 1..(n + 1) /\ Len(gr) + 1 = n + 2
  OBVIOUS
<1>6. Resumes(fs, gr, t)
  BY <1>2, <1>4, <1>5 DEF Resumes
<1> QED BY <1>2, <1>3, <1>5, <1>6

\* It calls another.
LEMMA Pushed ==
  ASSUME NEW fs \in Corpora, NEW fr \in Seq(FramesIn(fs)), NEW gr \in Seq(FramesIn(fs)),
         NEW n \in Nat, NEW so, Resumes(fs, fr, so), NEW on \in Results(fs),
         Len(fr) = n + 1, Len(gr) = n + 2, SameUpTo(n, fr, gr),
         Continued(fs, Continued(fs, on, gr[n + 2]), gr[n + 1])
           = Continued(fs, so[n + 2], fr[n + 1])
  PROVE  \E t : Resumes(fs, gr, t) /\ t[1] = so[1] /\ t[Len(gr) + 1] = on
<1> DEFINE next == Continued(fs, on, gr[n + 2])
           t == [k \in 1..(n + 3) |-> IF k = n + 3 THEN on
                                      ELSE IF k = n + 2 THEN next ELSE so[k]]
<1>1. /\ so \in [1..(n + 2) -> Results(fs)]
      /\ \A k \in 1..(n + 1) : so[k] = Continued(fs, so[k + 1], fr[k])
  BY DEF Resumes
<1>2. next \in Results(fs)
  <2>1. gr[n + 2] \in FramesIn(fs)
    OBVIOUS
  <2> QED BY <2>1, ContinuedTyped
<1> HIDE DEF next
<1>3. t \in [1..(n + 3) -> Results(fs)] /\ t[n + 3] = on /\ t[n + 2] = next
  BY <1>1, <1>2
<1>4. \A k \in 1..(n + 1) : t[k] = so[k]
  BY <1>1
<1> HIDE DEF t
<1>5. next = Continued(fs, on, gr[n + 2])
  BY DEF next
<1>6. ASSUME NEW k \in 1..(n + 2) PROVE t[k] = Continued(fs, t[k + 1], gr[k])
  <2>1. CASE k = n + 2
    BY <1>3, <1>5, <2>1
  <2>2. CASE k = n + 1
    <3>1. k + 1 = n + 2 /\ t[k] = so[n + 1]
      BY <1>4, <2>2
    <3>2. so[n + 1] = Continued(fs, so[n + 2], fr[n + 1])
      <4>1. n + 1 \in 1..(n + 1) /\ n + 1 + 1 = n + 2
        OBVIOUS
      <4> QED BY <1>1, <4>1
    <3> QED BY <1>3, <1>5, <2>2, <3>1, <3>2
  <2>3. CASE k # n + 1 /\ k # n + 2
    <3>1. k \in 1..n /\ k \in 1..(n + 1) /\ k + 1 \in 1..(n + 1)
      BY <2>3
    <3> QED BY <1>1, <1>4, <3>1 DEF SameUpTo
  <2> QED BY <2>1, <2>2, <2>3
<1>7. 1 \in 1..(n + 1) /\ Len(gr) + 1 = n + 3
  OBVIOUS
<1>8. Resumes(fs, gr, t)
  BY <1>3, <1>6, <1>7 DEF Resumes
<1> QED BY <1>3, <1>4, <1>7, <1>8

\* It returns to the one that waits for it.
LEMMA Popped ==
  ASSUME NEW fs \in Corpora, NEW fr \in Seq(FramesIn(fs)), NEW gr \in Seq(FramesIn(fs)),
         NEW n \in Nat, NEW so, Resumes(fs, fr, so), NEW on \in Results(fs),
         Len(fr) = n + 2, Len(gr) = n + 1, SameUpTo(n, fr, gr),
         Continued(fs, on, gr[n + 1])
           = Continued(fs, Continued(fs, so[n + 3], fr[n + 2]), fr[n + 1])
  PROVE  \E t : Resumes(fs, gr, t) /\ t[1] = so[1] /\ t[Len(gr) + 1] = on
<1> DEFINE t == [k \in 1..(n + 2) |-> IF k = n + 2 THEN on ELSE so[k]]
<1>1. /\ so \in [1..(n + 3) -> Results(fs)]
      /\ \A k \in 1..(n + 2) : so[k] = Continued(fs, so[k + 1], fr[k])
  BY DEF Resumes
<1>2. t \in [1..(n + 2) -> Results(fs)] /\ t[n + 2] = on
  BY <1>1
<1>3. \A k \in 1..(n + 1) : t[k] = so[k]
  BY <1>1
<1> HIDE DEF t
<1>4. so[n + 1] = Continued(fs, on, gr[n + 1])
  <2>1. n + 1 \in 1..(n + 2) /\ n + 2 \in 1..(n + 2) /\ n + 1 + 1 = n + 2 /\ n + 2 + 1 = n + 3
    OBVIOUS
  <2>2. so[n + 1] = Continued(fs, so[n + 2], fr[n + 1])
    BY <1>1, <2>1
  <2>3. so[n + 2] = Continued(fs, so[n + 3], fr[n + 2])
    BY <1>1, <2>1
  <2> QED BY <2>2, <2>3
<1>5. ASSUME NEW k \in 1..(n + 1) PROVE t[k] = Continued(fs, t[k + 1], gr[k])
  <2>1. CASE k = n + 1
    BY <1>2, <1>3, <1>4, <2>1
  <2>2. CASE k # n + 1
    <3>1. k \in 1..n /\ k \in 1..(n + 2) /\ k + 1 \in 1..(n + 1)
      BY <2>2
    <3> QED BY <1>1, <1>3, <3>1 DEF SameUpTo
  <2> QED BY <2>1, <2>2
<1>6. 1 \in 1..(n + 1) /\ Len(gr) + 1 = n + 2
  OBVIOUS
<1>7. Resumes(fs, gr, t)
  BY <1>2, <1>5, <1>6 DEF Resumes
<1> QED BY <1>2, <1>3, <1>6, <1>7

LEMMA PrefixIsPart ==
  ASSUME NEW S, NEW s \in Seq(S), NEW t \in Seq(S)
  PROVE  Len(s) <= Len(s \o t) /\ SubSeq(s \o t, 1, Len(s)) = s
<1> DEFINE u == s \o t
           p == SubSeq(u, 1, Len(s))
<1>1. /\ u \in Seq(S) /\ Len(u) = Len(s) + Len(t) /\ Len(s) \in Nat /\ Len(t) \in Nat
      /\ \A k \in 1..Len(s) : u[k] = s[k]
  BY ConcatProperties
<1> HIDE DEF u
<1>2. Len(s) <= Len(u)
  BY <1>1
<1>3. CASE s = <<>>
  <2>1. Len(s) = 0
    BY <1>3
  <2>2. p = <<>>
    BY <1>1, <2>1
  <2> QED BY <1>2, <1>3, <2>2 DEF u
<1>4. CASE s # <<>>
  <2>1. Len(s) \in 1..Len(u)
    BY <1>1, <1>2, <1>4
  <2>2. p \in Seq(S) /\ Len(p) = Len(s) /\ \A k \in 1..Len(s) : p[k] = u[k]
    BY <1>1, <2>1, Parts
  <2>3. \A k \in 1..Len(s) : p[k] = s[k]
    BY <1>1, <2>2
  <2> HIDE DEF p
  <2>4. p = s
    BY <2>2, <2>3, SeqEqual
  <2> QED BY <1>2, <2>4 DEF p, u
<1> QED BY <1>3, <1>4

\* What there is begins with what there was.
LEMMA BeginsWith ==
  ASSUME NEW fs \in Corpora, NEW fr \in Seq(FramesIn(fs)), NEW so, Resumes(fs, fr, so)
  PROVE  LET items == so[Len(fr) + 1].items IN
         /\ Len(items) <= Len(so[1].items)
         /\ items = SubSeq(so[1].items, 1, Len(items))
<1> DEFINE n == Len(fr)
           items == so[n + 1].items
           Starts(r) == \E rest \in Seq(Items(fs)) : r.items = items \o rest
           Bad == {k \in 1..(n + 1) : ~Starts(so[k])}
<1>1. n \in Nat
  OBVIOUS
<1>2. /\ so \in [1..(n + 1) -> Results(fs)]
      /\ \A k \in 1..n : so[k] = Continued(fs, so[k + 1], fr[k])
      /\ \A k \in 1..n : fr[k] \in FramesIn(fs)
  BY DEF Resumes
<1> HIDE DEF n
<1>3. items \in Seq(Items(fs))
  <2>1. so[n + 1] \in Results(fs)
    BY <1>1, <1>2
  <2> QED BY <2>1 DEF Results
<1> HIDE DEF items
<1>4. Starts(so[n + 1])
  <2> DEFINE none == <<>>
  <2>1. none \in Seq(Items(fs))
    OBVIOUS
  <2>2. items \o none = items
    <3> DEFINE S == Items(fs)
    <3>1. items \in Seq(S)
      BY <1>3
    <3> HIDE DEF S
    <3> QED BY <3>1
  <2> HIDE DEF none
  <2>3. so[n + 1].items = items \o none
    BY <2>2 DEF items
  <2> QED BY <2>1, <2>3
<1>5. ASSUME NEW k \in 1..n, Starts(so[k + 1]) PROVE Starts(so[k])
  <2>1. PICK rest \in Seq(Items(fs)) : so[k + 1].items = items \o rest
    BY <1>5
  <2> DEFINE more == Expansion(fs)[At(fr[k], so[k + 1].once)]
  <2>2. so[k + 1] \in Results(fs) /\ fr[k] \in FramesIn(fs)
    BY <1>1, <1>2
  <2>3. more \in Results(fs)
    BY <2>2, ContinuedTyped
  <2>4. so[k].items = so[k + 1].items \o more.items
    <3>1. so[k] = Continued(fs, so[k + 1], fr[k])
      BY <1>2
    <3>2. \A r, frame : Continued(fs, r, frame).items
                         = r.items \o Expansion(fs)[At(frame, r.once)].items
      BY DEF Continued, Part
    <3> QED BY <3>1, <3>2
  <2> HIDE DEF more
  <2>5. more.items \in Seq(Items(fs))
    BY <2>3 DEF Results
  <2>6. /\ rest \o more.items \in Seq(Items(fs))
        /\ (items \o rest) \o more.items = items \o (rest \o more.items)
    <3> DEFINE S == Items(fs)
               tail == more.items
    <3>1. items \in Seq(S) /\ rest \in Seq(S) /\ tail \in Seq(S)
      BY <1>3, <2>5
    <3> HIDE DEF S, tail
    <3>2. (items \o rest) \o tail = items \o (rest \o tail)
      BY <3>1, ConcatAssociative
    <3>3. rest \o tail \in Seq(S)
      BY <3>1, ConcatProperties
    <3> QED BY <3>2, <3>3 DEF S, tail
  <2>7. so[k].items = items \o (rest \o more.items)
    BY <2>1, <2>4, <2>6
  <2> QED BY <2>6, <2>7
<1> HIDE DEF Starts
<1>6. Bad = {}
  <2> SUFFICES ASSUME Bad # {} PROVE FALSE
    OBVIOUS
  <2>1. PICK k \in Bad : \A l \in Bad : l <= k
    <3>1. Bad \in SUBSET (1..(n + 1)) /\ n + 1 \in Nat
      BY <1>1
    <3> HIDE DEF Bad
    <3> QED BY <3>1, GreatestNumber
  <2>2. k # n + 1
    BY <1>4, <2>1
  <2>3. k \in 1..n /\ k + 1 \in 1..(n + 1) /\ k + 1 \notin Bad
    BY <1>1, <2>1, <2>2
  <2> QED BY <1>5, <2>1, <2>3
<1>7. Starts(so[1])
  <2>1. 1 \in 1..(n + 1)
    BY <1>1
  <2> QED BY <1>6, <2>1
<1>8. PICK rest \in Seq(Items(fs)) : so[1].items = items \o rest
  BY <1>7 DEF Starts
<1>9. Len(items) <= Len(items \o rest) /\ SubSeq(items \o rest, 1, Len(items)) = items
  BY <1>3, PrefixIsPart
<1> QED BY <1>8, <1>9 DEF items, n

-----------------------------------------------------------------------------
(* What the parser has done, when the lists grow.                          *)

LEMMA ParsedAre ==
  /\ ParsedClauses = ClauseOfEach(Selected(listClauses, ParsedPositions))
  /\ ParsedQueries = JobOfEach(Selected(jobs, QueryPositions))
BY DEF ParsedClauses, ParsedQueries, ClauseOfEach, JobOfEach

\* As many clauses have been parsed as there are places for them.
LEMMA ParsedLength ==
  ASSUME Shapes
  PROVE  /\ ParsedPositions \in SUBSET (1..Len(listClauses))
         /\ Len(ParsedClauses) = Cardinality(ParsedPositions)
<1> DEFINE P == ParsedPositions
           t == Selected(listClauses, P)
<1>1. P \in SUBSET (1..Len(listClauses))
  BY DEF ParsedPositions
<1> HIDE DEF P
<1>2. Len(t) = Cardinality(P) /\ Cardinality(P) \in Nat
  BY <1>1, SelectedElements DEF Shapes
<1>3. ParsedClauses = ClauseOfEach(t)
  BY ParsedAre DEF P
<1> HIDE DEF t
<1>4. Len(ClauseOfEach(t)) = Cardinality(P)
  BY <1>2 DEF ClauseOfEach
<1> QED BY <1>1, <1>3, <1>4 DEF P

\* A clause is listed.
LEMMA ParsedClausesMore ==
  ASSUME Shapes, NEW e \in Entries, listClauses' = Append(listClauses, e)
  PROVE  ParsedClauses' = IF e.by = 0 THEN Append(ParsedClauses, e.clause) ELSE ParsedClauses
<1> DEFINE P == ParsedPositions
           t == Append(listClauses, e)
           n == Len(listClauses)
           Q == {i \in 1..Len(t) : t[i].by = 0}
<1>1. listClauses \in Seq(Entries) /\ P \in SUBSET (1..n)
  BY DEF Shapes, ParsedPositions
<1>2. n \in Nat /\ Len(t) = n + 1 /\ t[n + 1] = e /\ \A k \in 1..n : t[k] = listClauses[k]
  BY <1>1
<1>3. ParsedClauses' = ClauseOfEach(Selected(t, Q))
  BY DEF ParsedClauses, ParsedPositions, ClauseOfEach
<1>4. Q = P \cup (IF e.by = 0 THEN {n + 1} ELSE {})
  <2> HIDE DEF t, n
  <2>1. \A k \in 1..(n + 1) : k \in 1..n \/ k = n + 1
    BY <1>2
  <2>2. n + 1 \in 1..(n + 1) /\ \A k \in 1..n : k \in 1..(n + 1)
    BY <1>2
  <2> QED BY <1>2, <2>1, <2>2 DEF ParsedPositions, n
<1>5. ParsedClauses = ClauseOfEach(Selected(listClauses, P))
  BY ParsedAre
<1> HIDE DEF P, Q
<1>6. CASE e.by = 0
  <2>1. Q = P \cup {n + 1}
    BY <1>4, <1>6
  <2>2. Selected(t, P \cup {n + 1}) = Append(Selected(listClauses, P), e)
    <3>1. \A u \in Seq(Entries) : \A R \in SUBSET (1..Len(u)) : \A x \in Entries :
            Selected(Append(u, x), R \cup {Len(u) + 1}) = Append(Selected(u, R), x)
      BY SelectedAppend
    <3> QED BY <1>1, <3>1
  <2>3. Selected(listClauses, P) \in Seq(Entries)
    BY <1>1, SelectedElements
  <2>4. ClauseOfEach(Append(Selected(listClauses, P), e))
          = Append(ClauseOfEach(Selected(listClauses, P)), e.clause)
    BY <2>3, OneMoreOfEach
  <2> QED BY <1>3, <1>5, <1>6, <2>1, <2>2, <2>4
<1>7. CASE e.by # 0
  <2>1. Q = P
    BY <1>4, <1>7
  <2>2. Selected(t, P) = Selected(listClauses, P)
    BY <1>1, SelectedKept
  <2> QED BY <1>3, <1>5, <1>7, <2>1, <2>2
<1> QED BY <1>6, <1>7

\* A job is submitted.
LEMMA ParsedQueriesMore ==
  ASSUME Shapes, NEW e \in JobRecords, jobs' = Append(jobs, e)
  PROVE  ParsedQueries' = IF e.onFinished # "barrier"
                            THEN Append(ParsedQueries, <<e.query, Cardinality(e.above)>>)
                            ELSE ParsedQueries
<1> DEFINE P == QueryPositions
           t == Append(jobs, e)
           n == Len(jobs)
           Q == {i \in 1..Len(t) : t[i].onFinished # "barrier"}
<1>1. jobs \in Seq(JobRecords) /\ P \in SUBSET (1..n)
  BY DEF Shapes, QueryPositions
<1>2. n \in Nat /\ Len(t) = n + 1 /\ t[n + 1] = e /\ \A k \in 1..n : t[k] = jobs[k]
  BY <1>1
<1>3. ParsedQueries' = JobOfEach(Selected(t, Q))
  BY DEF ParsedQueries, QueryPositions, JobOfEach
<1>4. Q = P \cup (IF e.onFinished # "barrier" THEN {n + 1} ELSE {})
  <2> HIDE DEF t, n
  <2>1. \A k \in 1..(n + 1) : k \in 1..n \/ k = n + 1
    BY <1>2
  <2>2. n + 1 \in 1..(n + 1) /\ \A k \in 1..n : k \in 1..(n + 1)
    BY <1>2
  <2> QED BY <1>2, <2>1, <2>2 DEF QueryPositions, n
<1>5. ParsedQueries = JobOfEach(Selected(jobs, P))
  BY ParsedAre
<1> HIDE DEF P, Q
<1>6. CASE e.onFinished # "barrier"
  <2>1. Q = P \cup {n + 1}
    BY <1>4, <1>6
  <2>2. Selected(t, P \cup {n + 1}) = Append(Selected(jobs, P), e)
    <3>1. \A u \in Seq(JobRecords) : \A R \in SUBSET (1..Len(u)) : \A x \in JobRecords :
            Selected(Append(u, x), R \cup {Len(u) + 1}) = Append(Selected(u, R), x)
      BY SelectedAppend
    <3> QED BY <1>1, <3>1
  <2>3. Selected(jobs, P) \in Seq(JobRecords)
    BY <1>1, SelectedElements
  <2>4. JobOfEach(Append(Selected(jobs, P), e))
          = Append(JobOfEach(Selected(jobs, P)), <<e.query, Cardinality(e.above)>>)
    BY <2>3, OneMoreOfEach
  <2> QED BY <1>3, <1>5, <1>6, <2>1, <2>2, <2>4
<1>7. CASE e.onFinished = "barrier"
  <2>1. Q = P
    BY <1>4, <1>7
  <2>2. Selected(t, P) = Selected(jobs, P)
    BY <1>1, SelectedKept
  <2> QED BY <1>3, <1>5, <1>7, <2>1, <2>2
<1> QED BY <1>6, <1>7

\* The worker leaves of a job what the parser gave it.
LEMMA ParsedQueriesSame ==
  ASSUME Shapes, jobs' \in Seq(JobRecords), Len(jobs') = Len(jobs),
         \A k \in 1..Len(jobs) : /\ jobs'[k].query = jobs[k].query
                                 /\ jobs'[k].onFinished = jobs[k].onFinished
                                 /\ jobs'[k].above = jobs[k].above
  PROVE  ParsedQueries' = ParsedQueries
<1> DEFINE P == QueryPositions
           s == Selected(jobs, P)
           t == Selected(jobs', P)
           m == Cardinality(P)
<1>1. P \in SUBSET (1..Len(jobs)) /\ jobs \in Seq(JobRecords)
  BY DEF QueryPositions, Shapes
<1>2. QueryPositions' = P
  BY DEF QueryPositions
<1>3. ParsedQueries' = JobOfEach(t)
  BY <1>2 DEF ParsedQueries, JobOfEach
<1>4. ParsedQueries = JobOfEach(s)
  BY ParsedAre
<1> HIDE DEF P
<1>5. /\ Len(s) = m
      /\ \A k \in 1..m : Ascending(P)[k] \in P /\ s[k] = jobs[Ascending(P)[k]]
  BY <1>1, SelectedElements
<1>6. Len(t) = m /\ \A k \in 1..m : t[k] = jobs'[Ascending(P)[k]]
  <2> DEFINE u == jobs'
  <2>1. u \in Seq(JobRecords) /\ P \in SUBSET (1..Len(u))
    BY <1>1
  <2> HIDE DEF u
  <2>2. /\ Len(Selected(u, P)) = m
        /\ \A k \in 1..m : Selected(u, P)[k] = u[Ascending(P)[k]]
    BY <2>1, SelectedElements
  <2> QED BY <2>2 DEF u
<1>7. \A k \in 1..m : t[k].query = s[k].query /\ t[k].above = s[k].above
  <2> TAKE k \in 1..m
  <2>1. Ascending(P)[k] \in 1..Len(jobs)
    BY <1>1, <1>5
  <2> QED BY <1>5, <1>6, <2>1
<1> HIDE DEF s, t, m
<1> QED BY <1>3, <1>4, <1>5, <1>6, <1>7 DEF JobOfEach

-----------------------------------------------------------------------------
(* The invariant: what has been parsed, and what the calls under way will  *)
(* make of it.                                                             *)

Whole == TextsExpanded(contents, texts)

Parsed(items) == ParsedClauses = ClausesOf(items) /\ ParsedQueries = QueriesOf(items)

\* The calls under way have these items, and will return with the expansion.
UnderWay(items) ==
  \E so : /\ Resumes(contents, frames, so)
          /\ so[1] = Whole
          /\ so[Len(frames) + 1] = Part(items, importedFiles, 0)

\* They have returned.
AllParsed(items) ==
  /\ Whole.items = items /\ Whole.once = importedFiles
  /\ mainpc = "returned" => Whole.errors = returned

ImportInv ==
  /\ texts \in Seq(DOMAIN contents)
  /\ \E items \in Seq(Items(contents)) :
       /\ Parsed(items)
       /\ mainpc = "parsing" => UnderWay(items)
       /\ mainpc # "parsing" => AllParsed(items)

\* It is what the property asks for.
LEMMA ImportInvShows == IInv /\ ImportInv => InlineImports
<1> SUFFICES ASSUME IInv, ImportInv PROVE InlineImports
  OBVIOUS
<1>1. contents \in Corpora /\ frames \in Seq(FramesIn(contents))
  BY DEF IInv, Shapes, FramesInv, Frames, FramesIn
<1>2. texts \in Seq(DOMAIN contents)
  BY DEF ImportInv
<1>3. PICK items \in Seq(Items(contents)) :
        /\ Parsed(items)
        /\ mainpc = "parsing" => UnderWay(items)
        /\ mainpc # "parsing" => AllParsed(items)
  BY DEF ImportInv
<1> DEFINE l == Len(items)
           all == Whole.items
<1>4. l \in Nat
  BY <1>3
<1>5. CASE mainpc = "parsing"
  <2>1. PICK so : /\ Resumes(contents, frames, so) /\ so[1] = Whole
                  /\ so[Len(frames) + 1] = Part(items, importedFiles, 0)
    BY <1>3, <1>5 DEF UnderWay
  <2>2. so[Len(frames) + 1].items = items
    BY <2>1 DEF Part
  <2>3. l <= Len(all) /\ items = SubSeq(all, 1, l)
    BY <1>1, <2>1, <2>2, BeginsWith
  <2>4. so[1] \in Results(contents)
    <3>1. 1 \in 1..(Len(frames) + 1)
      BY <1>1
    <3> QED BY <2>1, <3>1 DEF Resumes
  <2>5. Len(all) \in Nat
    BY <2>1, <2>4 DEF Results
  <2> HIDE DEF l, all
  <2>6. l \in 0..Len(all)
    BY <1>4, <2>3, <2>5
  <2> QED BY <1>3, <1>5, <2>3, <2>6 DEF InlineImports, Parsed, Whole, all
<1>6. CASE mainpc # "parsing"
  <2>1. all = items /\ (mainpc = "returned" => Whole.errors = returned)
    BY <1>3, <1>6 DEF AllParsed
  <2>2. items = SubSeq(items, 1, l)
    <3> DEFINE none == <<>>
    <3>1. none \in Seq(Items(contents)) /\ items \o none = items
      <4> DEFINE S == Items(contents)
      <4>1. items \in Seq(S)
        BY <1>3
      <4> HIDE DEF S
      <4> QED BY <4>1
    <3> HIDE DEF none
    <3>2. SubSeq(items \o none, 1, l) = items
      BY <1>3, <3>1, PrefixIsPart
    <3> QED BY <3>1, <3>2
  <2> HIDE DEF l, all
  <2>3. l \in 0..l
    BY <1>4
  <2> QED BY <1>3, <1>6, <2>1, <2>2, <2>3 DEF InlineImports, Parsed, Whole, all, l
<1> QED BY <1>5, <1>6

\* A text is begun.
LEMMA TextBegins ==
  ASSUME NEW fs \in Corpora, NEW before \in Results(fs), NEW f \in DOMAIN fs
  PROVE  \E so : /\ Resumes(fs, <<FrameAt(f, 1, 0)>>, so)
                 /\ so[1] = TextAdded(fs, before, f)
                 /\ so[Len(<<FrameAt(f, 1, 0)>>) + 1] = Part(before.items, before.once, 0)
<1> DEFINE x == FrameAt(f, 1, 0)
           on == Part(before.items, before.once, 0)
           fr == <<x>>
           z == Start(f, before.once)
           last == Expansion(fs)[z]
           so == [k \in 1..2 |-> IF k = 1 THEN Continued(fs, on, x) ELSE on]
<1>1. before.items \in Seq(Items(fs)) /\ before.once \in SUBSET DOMAIN fs
  BY DEF Results
<1>2. on \in Results(fs) /\ on.items = before.items /\ on.once = before.once /\ on.errors = 0
  BY <1>1, PartFresh
<1>3. x \in FramesIn(fs) /\ x.errors = 0 /\ z = At(x, before.once)
  BY DEF FramesIn, FrameAt, At, Start
<1>4. fr[1] = x /\ Len(fr) = 1
  OBVIOUS
<1>5. last \in Results(fs) /\ TextAdded(fs, before, f)
                                = Part(before.items \o last.items, last.once, last.errors)
  BY TextAddedTyped
<1> HIDE DEF x, on, fr, z
<1>6. Continued(fs, on, x) = Part(before.items \o last.items, last.once, 0 + 0 + last.errors)
  BY <1>2, <1>3 DEF Continued
<1>7. 0 + 0 + last.errors = last.errors
  BY <1>5 DEF Results
<1>8. Continued(fs, on, x) = TextAdded(fs, before, f)
  BY <1>5, <1>6, <1>7
<1>9. Continued(fs, on, x) \in Results(fs)
  BY <1>2, <1>3, ContinuedTyped
<1>10. so \in [1..2 -> Results(fs)] /\ so[1] = Continued(fs, on, x) /\ so[2] = on
  BY <1>2, <1>9
<1> HIDE DEF so
<1>11. Resumes(fs, fr, so)
  BY <1>4, <1>10 DEF Resumes
<1> QED BY <1>4, <1>8, <1>10, <1>11 DEF x, on, fr

-----------------------------------------------------------------------------
(* The steps of the parser.                                                *)

LEMMA InitImportInv == Init => ImportInv
<1> SUFFICES ASSUME Init PROVE ImportInv
  OBVIOUS
<1> DEFINE none == <<>>
<1>1. contents \in Corpora /\ listClauses = none /\ jobs = none /\ importedFiles = {}
  BY DEF Init
<1>2. PICK p \in Programs :
        /\ frames = IF p = None THEN <<>> ELSE <<Frame(p)>>
        /\ mainpc = IF p = None THEN "prompt" ELSE "parsing"
        /\ texts = IF p = None THEN <<>> ELSE <<p>>
  BY DEF Init
<1>3. TextsExpanded(contents, <<>>) = Part(<<>>, {}, 0)
  BY <1>1, TextsExpandedNone
<1>4. none \in Seq(Items(contents)) /\ Len(none) = 0 /\ 1..0 = {}
  OBVIOUS
<1>5. \A s : Len(s) = 0 => ItemsOf(s, "clause") = {} /\ ItemsOf(s, "query") = {}
  BY <1>4 DEF ItemsOf
<1> HIDE DEF none
<1>6. Parsed(none)
  <2> DEFINE q == WithClausesAbove(none)
  <2>1. ParsedPositions = {} /\ QueryPositions = {}
    BY <1>1, <1>4 DEF ParsedPositions, QueryPositions
  <2>2. ClausesOf(none) = ClauseOfEach(Selected(none, {}))
    BY <1>4, <1>5 DEF ClausesOf, ClauseOfEach
  <2>3. QueriesOf(none) = QueryOfEach(Selected(q, {}))
    BY <1>4, <1>5 DEF QueriesOf, QueryOfEach
  <2>4. ParsedClauses = ClauseOfEach(Selected(listClauses, {}))
    BY <2>1, ParsedAre
  <2>5. ParsedQueries = JobOfEach(Selected(jobs, {}))
    BY <2>1, ParsedAre
  <2> HIDE DEF q
  <2>6. /\ Selected(none, {}) = none /\ Selected(q, {}) = none
        /\ Selected(listClauses, {}) = none /\ Selected(jobs, {}) = none
    BY SelectedNothing DEF none
  <2>7. QueryOfEach(none) = JobOfEach(none)
    <3>1. \A f, g : [k \in {} |-> f[k]] = [k \in {} |-> g[k]]
      OBVIOUS
    <3>2. QueryOfEach(none) = [k \in {} |-> <<none[k][1].query, none[k][2]>>]
      BY <1>4 DEF QueryOfEach
    <3>3. JobOfEach(none) = [k \in {} |-> <<none[k].query, Cardinality(none[k].above)>>]
      BY <1>4 DEF JobOfEach
    <3> QED BY <3>2, <3>3
  <2> QED BY <2>2, <2>3, <2>4, <2>5, <2>6, <2>7 DEF Parsed
<1>7. CASE p = None
  <2>1. texts = <<>> /\ mainpc = "prompt"
    BY <1>2, <1>7
  <2>2. AllParsed(none)
    BY <1>1, <1>3, <2>1 DEF AllParsed, Whole, Part, none
  <2>3. texts \in Seq(DOMAIN contents)
    BY <2>1
  <2> QED BY <1>4, <1>6, <2>1, <2>2, <2>3 DEF ImportInv
<1>8. CASE p # None
  <2>1. p \in DOMAIN contents
    BY <1>1, <1>8, CorporaAssumption DEF CorporaAssumption
  <2>2. frames = <<FrameAt(p, 1, 0)>> /\ mainpc = "parsing" /\ texts = <<p>>
    BY <1>2, <1>8 DEF Frame, FrameAt
  <2>3. texts \in Seq(DOMAIN contents) /\ <<>> \in Seq(DOMAIN contents) /\ texts = Append(<<>>, p)
    BY <2>1, <2>2
  <2> DEFINE before == Part(none, {}, 0)
             start == <<>>
  <2>4. Whole = TextAdded(contents, before, p) /\ before \in Results(contents)
    <3>1. start \in Seq(DOMAIN contents) /\ TextsExpanded(contents, start) = before
      BY <1>3, <2>3 DEF none
    <3> HIDE DEF start, before
    <3>2. /\ TextsExpanded(contents, start) \in Results(contents)
          /\ TextsExpanded(contents, Append(start, p))
               = TextAdded(contents, TextsExpanded(contents, start), p)
      BY <1>1, <2>1, <3>1, TextsExpandedMore
    <3>3. texts = Append(start, p)
      BY <2>3 DEF start
    <3> QED BY <3>1, <3>2, <3>3 DEF Whole
  <2>5. before.items = none /\ before.once = {}
    BY DEF Part
  <2> HIDE DEF before
  <2>6. PICK so : /\ Resumes(contents, frames, so)
                  /\ so[1] = TextAdded(contents, before, p)
                  /\ so[Len(frames) + 1] = Part(before.items, before.once, 0)
    BY <1>1, <2>1, <2>2, <2>4, TextBegins
  <2>7. UnderWay(none)
    BY <1>1, <2>4, <2>5, <2>6 DEF UnderWay
  <2> QED BY <1>4, <1>6, <2>2, <2>3, <2>7 DEF ImportInv
<1> QED BY <1>7, <1>8

\* The innermost call, and the same one when it has passed its event.
LEMMA TopIs ==
  ASSUME IInv, mainpc = "parsing"
  PROVE  LET n == Len(frames) - 1 IN
         /\ contents \in Corpora /\ importedFiles \in SUBSET DOMAIN contents
         /\ frames # <<>> /\ frames \in Seq(FramesIn(contents))
         /\ n \in Nat /\ Len(frames) = n + 1 /\ TopFrame = frames[n + 1]
         /\ TopFrame.file \in DOMAIN contents /\ TopFrame.pos \in Nat \ {0}
         /\ TopFrame.errors \in Nat
         /\ TopFrame = FrameAt(TopFrame.file, TopFrame.pos, TopFrame.errors)
         /\ \A m \in Nat : Past(m) = FrameAt(TopFrame.file, TopFrame.pos + 1,
                                             TopFrame.errors + m)
<1> DEFINE n == Len(frames) - 1
<1>1. contents \in Corpora /\ importedFiles \in SUBSET DOMAIN contents
  BY DEF IInv, Shapes, FramesInv
<1>2. frames \in Seq(FramesIn(contents)) /\ frames # <<>>
  BY DEF IInv, FramesInv, Frames, FramesIn
<1>3. n \in Nat /\ Len(frames) = n + 1 /\ TopFrame = frames[n + 1]
  BY <1>2 DEF TopFrame, Last
<1>4. TopFrame \in FramesIn(contents)
  BY <1>2, <1>3
<1>5. /\ TopFrame.file \in DOMAIN contents /\ TopFrame.pos \in Nat \ {0}
      /\ TopFrame.errors \in Nat
      /\ TopFrame = FrameAt(TopFrame.file, TopFrame.pos, TopFrame.errors)
  BY <1>4 DEF FramesIn, FrameAt
<1>6. ASSUME NEW m \in Nat
      PROVE Past(m) = FrameAt(TopFrame.file, TopFrame.pos + 1, TopFrame.errors + m)
  <2> DEFINE t == TopFrame
             p == t.pos + 1
             q == t.errors + m
  <2>1. Past(m) = [t EXCEPT !.pos = p, !.errors = q] /\ t \in FramesIn(contents)
    BY <1>4 DEF Past
  <2> HIDE DEF t, p, q
  <2>2. Past(m) = FrameAt(t.file, p, q)
    BY <2>1 DEF FramesIn, FrameAt
  <2> QED BY <2>2 DEF t, p, q
<1> QED BY <1>1, <1>2, <1>3, <1>5, <1>6

\* The sequence of calls with another one innermost.
FrontIs(fs, fr, x) ==
  /\ Front(fr) \o <<x>> \in Seq(FramesIn(fs)) /\ Len(Front(fr) \o <<x>>) = Len(fr)
  /\ \A k \in 1..Len(fr) : (Front(fr) \o <<x>>)[k] = IF k = Len(fr) THEN x ELSE fr[k]

LEMMA TopFrameIs ==
  ASSUME NEW fs, NEW fr \in Seq(FramesIn(fs)), NEW x \in FramesIn(fs), fr # <<>>
  PROVE  FrontIs(fs, fr, x)
<1> DEFINE S == FramesIn(fs)
<1>1. fr \in Seq(S) /\ x \in S
  OBVIOUS
<1> HIDE DEF S
<1>2. /\ Front(fr) \o <<x>> \in Seq(S) /\ Len(Front(fr) \o <<x>>) = Len(fr)
      /\ \A k \in 1..Len(fr) : (Front(fr) \o <<x>>)[k] = IF k = Len(fr) THEN x ELSE fr[k]
  BY <1>1, FrontReplaced
<1> QED BY <1>2 DEF FrontIs, S

\* The calls under way when the innermost of them has passed its event.
LEMMA CallGoesOn ==
  ASSUME IInv, mainpc = "parsing", UNCHANGED <<contents, texts, importedFiles>>,
         NEW items \in Seq(Items(contents)), UnderWay(items),
         NEW more \in Seq(Items(contents)), NEW x \in FramesIn(contents),
         frames' = Front(frames) \o <<x>>,
         Continued(contents, Part(items, importedFiles, 0), TopFrame)
           = Continued(contents, Part(more, importedFiles, 0), x)
  PROVE  UnderWay(more)'
<1> DEFINE n == Len(frames) - 1
           gr == Front(frames) \o <<x>>
           on == Part(more, importedFiles, 0)
<1>1. /\ contents \in Corpora /\ importedFiles \in SUBSET DOMAIN contents
      /\ frames # <<>> /\ frames \in Seq(FramesIn(contents))
      /\ n \in Nat /\ Len(frames) = n + 1 /\ TopFrame = frames[n + 1]
  BY TopIs
<1>2. PICK so : /\ Resumes(contents, frames, so) /\ so[1] = Whole
                /\ so[Len(frames) + 1] = Part(items, importedFiles, 0)
  BY DEF UnderWay
<1>3. /\ gr \in Seq(FramesIn(contents)) /\ Len(gr) = Len(frames)
      /\ \A k \in 1..Len(frames) : gr[k] = IF k = Len(frames) THEN x ELSE frames[k]
  <2>1. FrontIs(contents, frames, x)
    BY <1>1, TopFrameIs
  <2> QED BY <2>1 DEF FrontIs
<1>4. on \in Results(contents)
  BY <1>1, PartFresh
<1>5. frames' = gr
  OBVIOUS
<1> HIDE DEF gr, on, n
<1>6. /\ SameUpTo(n, frames, gr) /\ Len(gr) = n + 1 /\ gr[n + 1] = x
      /\ Len(frames) + 1 = n + 2
  BY <1>1, <1>3 DEF SameUpTo
<1>7. Continued(contents, on, gr[n + 1]) = Continued(contents, so[n + 2], frames[n + 1])
  BY <1>1, <1>2, <1>6 DEF on
<1>8. PICK t : Resumes(contents, gr, t) /\ t[1] = so[1] /\ t[Len(gr) + 1] = on
  BY <1>1, <1>2, <1>3, <1>4, <1>6, <1>7, TopChanged
<1>9. Whole' = Whole
  BY DEF Whole
<1> QED BY <1>2, <1>5, <1>8, <1>9 DEF UnderWay, on

\* What has been parsed stays the same.
LEMMA StaysParsed ==
  ASSUME Shapes, UNCHANGED <<listClauses, jobs>>, NEW items, Parsed(items)
  PROVE  Parsed(items)'
<1>1. ParsedPositions' = ParsedPositions /\ QueryPositions' = QueryPositions
  BY DEF ParsedPositions, QueryPositions
<1>2. ParsedClauses' = ParsedClauses /\ ParsedQueries' = ParsedQueries
  BY <1>1 DEF ParsedClauses, ParsedQueries
<1> QED BY <1>2 DEF Parsed

\* Main goes on parsing.
LEMMA ParsingGoesOn ==
  ASSUME ImportInv, UNCHANGED <<contents, texts, mainpc>>, mainpc = "parsing",
         NEW items \in Seq(Items(contents)), Parsed(items)', UnderWay(items)'
  PROVE  ImportInv'
BY DEF ImportInv

\* The event at hand, and the place it is at.
LEMMA TopPicked ==
  ASSUME IInv, mainpc = "parsing"
  PROVE  \E file \in DOMAIN contents, pos \in Nat \ {0}, n \in Nat, e \in {Event} :
           /\ TopFrame = FrameAt(file, pos, n)
           /\ \A m \in Nat : /\ Past(m) = FrameAt(file, pos + 1, n + m)
                             /\ FrameAt(file, pos + 1, n + m) \in FramesIn(contents)
           /\ e = contents[file][pos]
           /\ AtEvent <=> pos <= Len(contents[file])
<1> DEFINE top == TopFrame
<1>1. /\ top.file \in DOMAIN contents /\ top.pos \in Nat \ {0} /\ top.errors \in Nat
      /\ top = FrameAt(top.file, top.pos, top.errors)
      /\ \A m \in Nat : Past(m) = FrameAt(top.file, top.pos + 1, top.errors + m)
  BY TopIs
<1>2. Event = contents[top.file][top.pos] /\ (AtEvent <=> top.pos <= Len(contents[top.file]))
  BY DEF AtEvent, Event
<1> HIDE DEF top
<1>3. PICK file \in DOMAIN contents, pos \in Nat \ {0}, n \in Nat :
        file = top.file /\ pos = top.pos /\ n = top.errors
  BY <1>1
<1>4. ASSUME NEW m \in Nat PROVE FrameAt(file, pos + 1, n + m) \in FramesIn(contents)
  BY DEF FrameAt, FramesIn
<1> QED BY <1>1, <1>2, <1>3, <1>4 DEF top

\* A clause is listed.
LEMMA ClauseParsed ==
  ASSUME IInv, ImportInv, ParseClause
  PROVE  ImportInv'
<1>1. /\ mainpc = "parsing" /\ AtEvent /\ Event.kind = "clause"
      /\ listClauses' = Append(listClauses, [clause |-> Event.clause, by |-> 0])
      /\ frames' = Front(frames) \o <<Past(0)>>
      /\ UNCHANGED <<contents, texts, importedFiles, mainpc, jobs>>
  BY DEF ParseClause, AtEvent, mainVars
<1>2. PICK items \in Seq(Items(contents)) : Parsed(items) /\ UnderWay(items)
  BY <1>1 DEF ImportInv
<1>3. PICK file \in DOMAIN contents, pos \in Nat \ {0}, n \in Nat, e \in {Event} :
           /\ TopFrame = FrameAt(file, pos, n)
           /\ \A m \in Nat : /\ Past(m) = FrameAt(file, pos + 1, n + m)
                             /\ FrameAt(file, pos + 1, n + m) \in FramesIn(contents)
           /\ e = contents[file][pos]
           /\ AtEvent <=> pos <= Len(contents[file])
  BY <1>1, TopPicked
<1>4. PICK x \in FramesIn(contents) : x = Past(0) /\ x = FrameAt(file, pos + 1, n)
  <2>1. n + 0 = n /\ 0 \in Nat
    OBVIOUS
  <2> QED BY <1>3, <2>1
<1>5. contents \in Corpora /\ importedFiles \in SUBSET DOMAIN contents
  BY <1>1, TopIs
<1>6. /\ e \in Items(contents) /\ Append(items, e) \in Seq(Items(contents))
      /\ Continued(contents, Part(items, importedFiles, 0), TopFrame)
           = Continued(contents, Part(Append(items, e), importedFiles, 0), x)
  <2>1. pos <= Len(contents[file]) /\ contents[file][pos].kind \notin {"import", "error"}
    BY <1>1, <1>3
  <2>2. PICK fs \in Corpora : fs = contents
    BY <1>5
  <2>3. PICK once \in SUBSET DOMAIN fs : once = importedFiles
    BY <1>5, <2>2
  <2>4. /\ items \in Seq(Items(fs)) /\ file \in DOMAIN fs
        /\ pos <= Len(fs[file]) /\ fs[file][pos].kind \notin {"import", "error"}
    BY <2>1, <2>2
  <2>5. /\ fs[file][pos] \in Items(fs)
        /\ Append(items, fs[file][pos]) \in Seq(Items(fs))
        /\ Continued(fs, Part(items, once, 0), FrameAt(file, pos, n))
             = Continued(fs, Part(Append(items, fs[file][pos]), once, 0),
                         FrameAt(file, pos + 1, n))
    BY <2>4, ItemPassed
  <2> QED BY <1>3, <1>4, <2>2, <2>3, <2>5
<1>7. PICK more \in Seq(Items(contents)) : more = Append(items, e)
  BY <1>6
<1>8. UnderWay(more)'
  <2>1. frames' = Front(frames) \o <<x>>
    BY <1>1, <1>4
  <2> QED BY <1>1, <1>2, <1>6, <1>7, <2>1, CallGoesOn
<1>9. Parsed(more)'
  <2> DEFINE entry == [clause |-> e.clause, by |-> 0]
  <2>1. e.clause \in Clauses
    BY <1>1, <1>3, EventTyped DEF IInv, IsEvent
  <2>2. entry \in Entries /\ entry.by = 0 /\ entry.clause = e.clause
    BY <2>1 DEF Entries
  <2>3. listClauses' = Append(listClauses, entry)
    BY <1>1, <1>3
  <2> HIDE DEF entry
  <2>4. ParsedClauses' = Append(ParsedClauses, e.clause)
    BY <2>2, <2>3, ParsedClausesMore DEF IInv
  <2>5. QueryPositions' = QueryPositions
    BY <1>1 DEF QueryPositions
  <2>6. ParsedQueries' = ParsedQueries
    BY <1>1, <2>5 DEF ParsedQueries
  <2>7. ClausesOf(more) = Append(ClausesOf(items), e.clause)
    BY <1>1, <1>3, <1>6, <1>7, ClausesMore
  <2>8. QueriesOf(more) = QueriesOf(items)
    BY <1>1, <1>3, <1>6, <1>7, QueriesMore
  <2> QED BY <1>2, <2>4, <2>6, <2>7, <2>8 DEF Parsed
<1>10. more \in Seq(Items(contents))
  BY <1>7
<1> QED BY <1>1, <1>8, <1>9, <1>10, ParsingGoesOn

\* A query is submitted, and sees the clauses above it.
LEMMA QueryParsed ==
  ASSUME IInv, ImportInv, ParseQuery
  PROVE  ImportInv'
<1> DEFINE l == IF session THEN "session" ELSE "program"
           j == Job(Event.query, l)
<1>1. /\ mainpc = "parsing" /\ AtEvent /\ Event.kind = "query"
      /\ jobs' = Append(jobs, j)
      /\ frames' = Front(frames) \o <<Past(0)>>
      /\ UNCHANGED <<contents, texts, importedFiles, mainpc, listClauses>>
  BY DEF ParseQuery, AtEvent, mainVars
<1>2. PICK items \in Seq(Items(contents)) : Parsed(items) /\ UnderWay(items)
  BY <1>1 DEF ImportInv
<1>3. PICK file \in DOMAIN contents, pos \in Nat \ {0}, n \in Nat, e \in {Event} :
           /\ TopFrame = FrameAt(file, pos, n)
           /\ \A m \in Nat : /\ Past(m) = FrameAt(file, pos + 1, n + m)
                             /\ FrameAt(file, pos + 1, n + m) \in FramesIn(contents)
           /\ e = contents[file][pos]
           /\ AtEvent <=> pos <= Len(contents[file])
  BY <1>1, TopPicked
<1>4. PICK x \in FramesIn(contents) : x = Past(0) /\ x = FrameAt(file, pos + 1, n)
  <2>1. n + 0 = n /\ 0 \in Nat
    OBVIOUS
  <2> QED BY <1>3, <2>1
<1>5. contents \in Corpora /\ importedFiles \in SUBSET DOMAIN contents
  BY <1>1, TopIs
<1>6. /\ e \in Items(contents) /\ Append(items, e) \in Seq(Items(contents))
      /\ Continued(contents, Part(items, importedFiles, 0), TopFrame)
           = Continued(contents, Part(Append(items, e), importedFiles, 0), x)
  <2>1. pos <= Len(contents[file]) /\ contents[file][pos].kind \notin {"import", "error"}
    BY <1>1, <1>3
  <2>2. PICK fs \in Corpora : fs = contents
    BY <1>5
  <2>3. PICK once \in SUBSET DOMAIN fs : once = importedFiles
    BY <1>5, <2>2
  <2>4. /\ items \in Seq(Items(fs)) /\ file \in DOMAIN fs
        /\ pos <= Len(fs[file]) /\ fs[file][pos].kind \notin {"import", "error"}
    BY <2>1, <2>2
  <2>5. /\ fs[file][pos] \in Items(fs)
        /\ Append(items, fs[file][pos]) \in Seq(Items(fs))
        /\ Continued(fs, Part(items, once, 0), FrameAt(file, pos, n))
             = Continued(fs, Part(Append(items, fs[file][pos]), once, 0),
                         FrameAt(file, pos + 1, n))
    BY <2>4, ItemPassed
  <2> QED BY <1>3, <1>4, <2>2, <2>3, <2>5
<1>7. PICK more \in Seq(Items(contents)) : more = Append(items, e)
  BY <1>6
<1> HIDE DEF j
<1>8. UnderWay(more)'
  <2>1. frames' = Front(frames) \o <<x>>
    BY <1>1, <1>4
  <2> QED BY <1>1, <1>2, <1>6, <1>7, <2>1, CallGoesOn
<1>9. Parsed(more)'
  <2>1. l \in {"program", "session", "barrier"} /\ l # "barrier"
    OBVIOUS
  <2> HIDE DEF l
  <2>2. j \in JobRecords /\ j.query = e.query
    <3>1. Event.query \in Questions
      BY <1>1, EventTyped DEF IInv, IsEvent
    <3> QED BY <1>3, <2>1, <3>1, JobTyped DEF IInv, j
  <2>3. j.onFinished = l /\ j.above = ParsedPositions
    BY DEF Job, ParsedPositions, j
  <2>4. ParsedQueries' = Append(ParsedQueries, <<e.query, Cardinality(ParsedPositions)>>)
    BY <1>1, <2>1, <2>2, <2>3, ParsedQueriesMore DEF IInv
  <2>5. ParsedPositions' = ParsedPositions
    BY <1>1 DEF ParsedPositions
  <2>6. ParsedClauses' = ParsedClauses
    BY <1>1, <2>5 DEF ParsedClauses
  <2>7. ClausesOf(more) = ClausesOf(items)
    BY <1>1, <1>3, <1>6, <1>7, ClausesMore
  <2>8. QueriesOf(more)
          = Append(QueriesOf(items), <<e.query, Cardinality(ItemsOf(items, "clause"))>>)
    BY <1>1, <1>3, <1>6, <1>7, QueriesMore
  <2>9. Cardinality(ItemsOf(items, "clause")) = Cardinality(ParsedPositions)
    <3>1. Len(ParsedClauses) = Cardinality(ParsedPositions)
      BY ParsedLength DEF IInv
    <3>2. Len(ClausesOf(items)) = Cardinality(ItemsOf(items, "clause"))
      BY <1>6, ClausesMore
    <3> QED BY <1>2, <3>1, <3>2 DEF Parsed
  <2> QED BY <1>2, <2>4, <2>6, <2>7, <2>8, <2>9 DEF Parsed
<1>10. more \in Seq(Items(contents))
  BY <1>7
<1> QED BY <1>1, <1>8, <1>9, <1>10, ParsingGoesOn

\* A text is left at an error.
LEMMA ErrorParsed ==
  ASSUME IInv, ImportInv, ParseError
  PROVE  ImportInv'
<1>1. /\ mainpc = "parsing" /\ AtEvent /\ Event.kind = "error"
      /\ frames' = Front(frames) \o <<[Past(1) EXCEPT !.pos = Len(contents[TopFrame.file]) + 1]>>
      /\ UNCHANGED <<contents, texts, importedFiles, mainpc, listClauses, jobs>>
  BY DEF ParseError, AtEvent, mainVars
<1>2. PICK items \in Seq(Items(contents)) : Parsed(items) /\ UnderWay(items)
  BY <1>1 DEF ImportInv
<1>3. PICK file \in DOMAIN contents, pos \in Nat \ {0}, n \in Nat, e \in {Event} :
           /\ TopFrame = FrameAt(file, pos, n)
           /\ \A m \in Nat : /\ Past(m) = FrameAt(file, pos + 1, n + m)
                             /\ FrameAt(file, pos + 1, n + m) \in FramesIn(contents)
           /\ e = contents[file][pos]
           /\ AtEvent <=> pos <= Len(contents[file])
  BY <1>1, TopPicked
<1>4. contents \in Corpora /\ importedFiles \in SUBSET DOMAIN contents
  BY <1>1, TopIs
<1>5. /\ Len(contents[file]) + 1 \in Nat \ {0}
      /\ Continued(contents, Part(items, importedFiles, 0), TopFrame)
           = Continued(contents, Part(items, importedFiles, 0),
                       FrameAt(file, Len(contents[file]) + 1, n + 1))
  <2>1. pos <= Len(contents[file]) /\ contents[file][pos].kind = "error"
    BY <1>1, <1>3
  <2>2. PICK fs \in Corpora : fs = contents
    BY <1>4
  <2>3. PICK once \in SUBSET DOMAIN fs : once = importedFiles
    BY <1>4, <2>2
  <2>4. /\ items \in Seq(Items(fs)) /\ file \in DOMAIN fs
        /\ pos <= Len(fs[file]) /\ fs[file][pos].kind = "error"
    BY <2>1, <2>2
  <2>5. /\ Len(fs[file]) + 1 \in Nat \ {0}
        /\ Continued(fs, Part(items, once, 0), FrameAt(file, pos, n))
             = Continued(fs, Part(items, once, 0), FrameAt(file, Len(fs[file]) + 1, n + 1))
    BY <2>4, ErrorMet
  <2> QED BY <1>3, <2>2, <2>3, <2>5
<1>6. PICK x \in FramesIn(contents) :
        /\ x = FrameAt(file, Len(contents[file]) + 1, n + 1)
        /\ frames' = Front(frames) \o <<x>>
  <2> DEFINE l == Len(contents[file]) + 1
  <2>1. [Past(1) EXCEPT !.pos = l] = FrameAt(file, l, n + 1)
    <3>1. 1 \in Nat
      OBVIOUS
    <3>2. Past(1) = FrameAt(file, pos + 1, n + 1)
      BY <1>3, <3>1
    <3> HIDE DEF l
    <3> QED BY <3>2 DEF FrameAt
  <2>2. TopFrame.file = file
    BY <1>3 DEF FrameAt
  <2>3. FrameAt(file, l, n + 1) \in FramesIn(contents)
    BY <1>5 DEF FrameAt, FramesIn
  <2> QED BY <1>1, <2>1, <2>2, <2>3
<1>7. UnderWay(items)'
  BY <1>1, <1>2, <1>5, <1>6, CallGoesOn
<1>8. Parsed(items)'
  BY <1>1, <1>2, StaysParsed DEF IInv
<1> QED BY <1>1, <1>7, <1>8, ParsingGoesOn

\* The calls under way when the innermost of them has called another.
LEMMA CallMade ==
  ASSUME IInv, mainpc = "parsing", UNCHANGED <<contents, texts>>,
         NEW items \in Seq(Items(contents)), UnderWay(items),
         NEW known \in SUBSET DOMAIN contents, importedFiles' = known,
         NEW x \in FramesIn(contents), NEW y \in FramesIn(contents),
         frames' = Front(frames) \o <<x>> \o <<y>>,
         Continued(contents, Part(items, importedFiles, 0), TopFrame)
           = Continued(contents, Continued(contents, Part(items, known, 0), y), x)
  PROVE  UnderWay(items)'
<1> DEFINE n == Len(frames) - 1
           hr == Front(frames) \o <<x>>
           gr == hr \o <<y>>
           on == Part(items, known, 0)
<1>1. /\ contents \in Corpora /\ importedFiles \in SUBSET DOMAIN contents
      /\ frames # <<>> /\ frames \in Seq(FramesIn(contents))
      /\ n \in Nat /\ Len(frames) = n + 1 /\ TopFrame = frames[n + 1]
  BY TopIs
<1>2. PICK so : /\ Resumes(contents, frames, so) /\ so[1] = Whole
                /\ so[Len(frames) + 1] = Part(items, importedFiles, 0)
  BY DEF UnderWay
<1>3. /\ hr \in Seq(FramesIn(contents)) /\ Len(hr) = Len(frames)
      /\ \A k \in 1..Len(frames) : hr[k] = IF k = Len(frames) THEN x ELSE frames[k]
  <2>1. \A fs : \A fr \in Seq(FramesIn(fs)) : \A z \in FramesIn(fs) :
          fr # <<>> => FrontIs(fs, fr, z)
    BY TopFrameIs
  <2>2. FrontIs(contents, frames, x)
    BY <1>1, <2>1
  <2> QED BY <2>2 DEF FrontIs
<1>4. frames' = gr
  OBVIOUS
<1> HIDE DEF hr
<1>5. /\ gr \in Seq(FramesIn(contents)) /\ Len(gr) = Len(hr) + 1 /\ gr[Len(hr) + 1] = y
      /\ \A k \in 1..Len(hr) : gr[k] = hr[k]
  <2> DEFINE S == FramesIn(contents)
  <2>1. hr \in Seq(S) /\ y \in S
    BY <1>3
  <2> HIDE DEF S
  <2>2. /\ hr \o <<y>> \in Seq(S) /\ Len(hr \o <<y>>) = Len(hr) + 1
        /\ (hr \o <<y>>)[Len(hr) + 1] = y
        /\ \A k \in 1..Len(hr) : (hr \o <<y>>)[k] = hr[k]
    BY <2>1, OneMore
  <2> QED BY <2>2 DEF S
<1>6. on \in Results(contents)
  BY PartFresh
<1> HIDE DEF gr, on, n
<1>7. /\ SameUpTo(n, frames, gr) /\ Len(gr) = n + 2 /\ gr[n + 1] = x /\ gr[n + 2] = y
      /\ Len(frames) + 1 = n + 2
  BY <1>1, <1>3, <1>5 DEF SameUpTo
<1>8. Continued(contents, Continued(contents, on, gr[n + 2]), gr[n + 1])
        = Continued(contents, so[n + 2], frames[n + 1])
  BY <1>1, <1>2, <1>7 DEF on
<1>9. PICK t : Resumes(contents, gr, t) /\ t[1] = so[1] /\ t[Len(gr) + 1] = on
  BY <1>1, <1>2, <1>5, <1>6, <1>7, <1>8, Pushed
<1>10. Whole' = Whole
  BY DEF Whole
<1> QED BY <1>2, <1>4, <1>9, <1>10 DEF UnderWay, on

\* An import is passed over, or calls the parser.
LEMMA ImportParsed ==
  ASSUME IInv, ImportInv, ParseImport
  PROVE  ImportInv'
<1>1. /\ mainpc = "parsing" /\ AtEvent /\ Event.kind = "import"
      /\ UNCHANGED <<contents, texts, mainpc, listClauses, jobs>>
  BY DEF ParseImport, AtEvent, mainVars
<1>2. PICK items \in Seq(Items(contents)) : Parsed(items) /\ UnderWay(items)
  BY <1>1 DEF ImportInv
<1>3. PICK file \in DOMAIN contents, pos \in Nat \ {0}, n \in Nat, e \in {Event} :
           /\ TopFrame = FrameAt(file, pos, n)
           /\ \A m \in Nat : /\ Past(m) = FrameAt(file, pos + 1, n + m)
                             /\ FrameAt(file, pos + 1, n + m) \in FramesIn(contents)
           /\ e = contents[file][pos]
           /\ AtEvent <=> pos <= Len(contents[file])
  BY <1>1, TopPicked
<1>4. contents \in Corpora /\ importedFiles \in SUBSET DOMAIN contents
  BY <1>1, TopIs
<1>5. PICK fs \in Corpora : fs = contents
  BY <1>4
<1>6. PICK once \in SUBSET DOMAIN fs : once = importedFiles
  BY <1>4, <1>5
<1>7. /\ items \in Seq(Items(fs)) /\ file \in DOMAIN fs
      /\ pos <= Len(fs[file]) /\ fs[file][pos].kind = "import"
      /\ fs[file][pos].file = Event.file
  BY <1>1, <1>3, <1>5
<1>8. Parsed(items)'
  BY <1>1, <1>2, StaysParsed DEF IInv
<1>9. CASE Event.file \notin DOMAIN contents
  <2>1. frames' = Front(frames) \o <<Past(1)>> /\ importedFiles' = importedFiles
    BY <1>9 DEF ParseImport
  <2>2. PICK x \in FramesIn(contents) : x = Past(1) /\ x = FrameAt(file, pos + 1, n + 1)
    <3>1. 1 \in Nat
      OBVIOUS
    <3> QED BY <1>3, <3>1
  <2>3. Continued(fs, Part(items, once, 0), FrameAt(file, pos, n))
          = Continued(fs, Part(items, once, 0), FrameAt(file, pos + 1, n + 1))
    <3>1. fs[file][pos].file \notin DOMAIN fs
      BY <1>5, <1>7, <1>9
    <3> QED BY <1>7, <3>1, MissingPassed
  <2>4. UnderWay(items)'
    BY <1>1, <1>2, <1>3, <1>5, <1>6, <2>1, <2>2, <2>3, CallGoesOn
  <2> QED BY <1>1, <1>8, <2>4, ParsingGoesOn
<1>10. CASE Event.file \in DOMAIN contents
  <2>1. /\ frames' = Front(frames) \o <<Past(0)>>
                       \o (IF Event.file \in importedFiles THEN <<>> ELSE <<Frame(Event.file)>>)
        /\ importedFiles' = importedFiles \cup {Event.file}
    BY <1>10 DEF ParseImport
  <2>2. PICK x \in FramesIn(contents) : x = Past(0) /\ x = FrameAt(file, pos + 1, n)
    <3>1. n + 0 = n /\ 0 \in Nat
      OBVIOUS
    <3> QED BY <1>3, <3>1
  <2>3. PICK f \in DOMAIN fs : f = Event.file
    BY <1>5, <1>10
  <2>4. CASE f \in once
    <3>1. importedFiles' = importedFiles
      BY <1>6, <2>1, <2>3, <2>4
    <3>2. frames' = Front(frames) \o <<x>>
      <4> DEFINE S == FramesIn(contents)
                 gr == Front(frames) \o <<x>>
                 none == <<>>
      <4>1. frames \in Seq(S) /\ frames # <<>> /\ x \in S
        BY <1>1, TopIs
      <4> HIDE DEF S
      <4>2. gr \in Seq(S)
        BY <4>1, FrontReplaced
      <4>3. frames' = gr \o none
        BY <1>6, <2>1, <2>2, <2>3, <2>4
      <4> HIDE DEF gr
      <4>4. gr \o none = gr
        BY <4>2
      <4> QED BY <4>3, <4>4 DEF gr
    <3>3. Continued(fs, Part(items, once, 0), FrameAt(file, pos, n))
            = Continued(fs, Part(items, once, 0), FrameAt(file, pos + 1, n))
      <4>1. fs[file][pos].file \in DOMAIN fs /\ fs[file][pos].file \in once
        BY <1>7, <2>3, <2>4
      <4> QED BY <1>7, <4>1, AgainPassed
    <3>4. UnderWay(items)'
      BY <1>1, <1>2, <1>3, <1>5, <1>6, <2>2, <3>1, <3>2, <3>3, CallGoesOn
    <3> QED BY <1>1, <1>8, <3>4, ParsingGoesOn
  <2>5. CASE f \notin once
    <3>1. PICK known \in SUBSET DOMAIN contents :
            known = once \cup {f} /\ importedFiles' = known
      BY <1>4, <1>5, <1>6, <2>1, <2>3
    <3>2. PICK y \in FramesIn(contents) : y = Frame(f) /\ y = FrameAt(f, 1, 0)
      <4>1. FrameAt(f, 1, 0) \in FramesIn(contents) /\ Frame(f) = FrameAt(f, 1, 0)
        BY <1>5 DEF FrameAt, FramesIn, Frame
      <4> QED BY <4>1
    <3>3. frames' = Front(frames) \o <<x>> \o <<y>>
      BY <1>6, <2>1, <2>2, <2>3, <2>5, <3>2
    <3>4. Continued(fs, Part(items, once, 0), FrameAt(file, pos, n))
            = Continued(fs, Continued(fs, Part(items, once \cup {f}, 0), FrameAt(f, 1, 0)),
                        FrameAt(file, pos + 1, n))
      <4>1. fs[file][pos].file = f
        BY <1>7, <2>3
      <4> QED BY <1>7, <2>5, <4>1, ImportPassed
    <3>5. Continued(contents, Part(items, importedFiles, 0), TopFrame)
            = Continued(contents, Continued(contents, Part(items, known, 0), y), x)
      BY <1>3, <1>5, <1>6, <2>2, <3>1, <3>2, <3>4
    <3>6. UnderWay(items)'
      BY <1>1, <1>2, <3>1, <3>3, <3>5, CallMade
    <3> QED BY <1>1, <1>8, <3>6, ParsingGoesOn
  <2> QED BY <2>4, <2>5
<1> QED BY <1>9, <1>10

\* A call returns: to the import that made it, ...
LEMMA CallReturned ==
  ASSUME IInv, ImportInv, SegmentReturns, Len(frames) > 1
  PROVE  ImportInv'
<1> DEFINE n == Len(frames) - 2
           t == SubSeq(frames, 1, Len(frames) - 1)
<1>1. /\ mainpc = "parsing" /\ ~AtEvent
      /\ frames' = [t EXCEPT ![Len(frames) - 1].errors = @ + frames[Len(frames)].errors]
      /\ UNCHANGED <<contents, texts, importedFiles, mainpc, listClauses, jobs>>
  BY DEF SegmentReturns
<1>2. PICK items \in Seq(Items(contents)) : Parsed(items) /\ UnderWay(items)
  BY <1>1 DEF ImportInv
<1>3. /\ contents \in Corpora /\ importedFiles \in SUBSET DOMAIN contents
      /\ frames \in Seq(FramesIn(contents)) /\ frames # <<>>
      /\ TopFrame = frames[Len(frames)]
  <2>1. /\ Len(frames) = Len(frames) - 1 + 1 /\ TopFrame = frames[Len(frames) - 1 + 1]
        /\ contents \in Corpora /\ importedFiles \in SUBSET DOMAIN contents
        /\ frames \in Seq(FramesIn(contents)) /\ frames # <<>>
    BY <1>1, TopIs
  <2> QED BY <2>1
<1>4. n \in Nat /\ Len(frames) = n + 2 /\ Len(frames) - 1 = n + 1
  BY <1>3
<1>5. /\ t \in Seq(FramesIn(contents)) /\ Len(t) = n + 1
      /\ \A k \in 1..(n + 1) : t[k] = frames[k]
  <2> DEFINE S == FramesIn(contents)
  <2>1. frames \in Seq(S) /\ frames # <<>>
    BY <1>3
  <2> HIDE DEF S
  <2>2. /\ t \in Seq(S) /\ Len(t) = Len(frames) - 1
        /\ \A k \in 1..(Len(frames) - 1) : t[k] = frames[k]
    BY <2>1, AllButLast
  <2> QED BY <1>4, <2>2 DEF S
<1> HIDE DEF t, n
<1>6. PICK file \in DOMAIN contents, pos \in Nat \ {0}, e \in Nat :
        /\ TopFrame = FrameAt(file, pos, e) /\ ~(pos <= Len(contents[file]))
  <2>1. \E f \in DOMAIN contents, p \in Nat \ {0}, m \in Nat, v \in {Event} :
           /\ TopFrame = FrameAt(f, p, m)
           /\ \A d \in Nat : /\ Past(d) = FrameAt(f, p + 1, m + d)
                             /\ FrameAt(f, p + 1, m + d) \in FramesIn(contents)
           /\ v = contents[f][p]
           /\ AtEvent <=> p <= Len(contents[f])
    BY <1>1, TopPicked
  <2> QED BY <1>1, <2>1
<1>7. PICK low \in DOMAIN contents, p \in Nat \ {0}, m \in Nat :
        frames[n + 1] = FrameAt(low, p, m)
  <2> DEFINE fr == frames[n + 1]
  <2>1. fr \in FramesIn(contents)
    BY <1>3, <1>4
  <2> HIDE DEF fr
  <2>2. /\ fr.file \in DOMAIN contents /\ fr.pos \in Nat \ {0} /\ fr.errors \in Nat
        /\ fr = FrameAt(fr.file, fr.pos, fr.errors)
    BY <2>1 DEF FramesIn, FrameAt
  <2> QED BY <2>2 DEF fr
<1>8. PICK x \in FramesIn(contents) :
        x = FrameAt(low, p, m + e) /\ frames' = [t EXCEPT ![n + 1] = x]
  <2>1. frames[Len(frames)].errors = e /\ t[n + 1] = FrameAt(low, p, m)
    BY <1>3, <1>4, <1>5, <1>6, <1>7 DEF FrameAt
  <2>2. frames' = [t EXCEPT ![n + 1] = [t[n + 1] EXCEPT !.errors = @ + e]]
    BY <1>1, <1>4, <2>1
  <2>3. [t[n + 1] EXCEPT !.errors = @ + e] = FrameAt(low, p, m + e)
    BY <2>1 DEF FrameAt
  <2>4. FrameAt(low, p, m + e) \in FramesIn(contents)
    BY DEF FrameAt, FramesIn
  <2> QED BY <2>2, <2>3, <2>4
<1>9. PICK gr : gr = [t EXCEPT ![n + 1] = x]
  OBVIOUS
<1>10. /\ gr \in Seq(FramesIn(contents)) /\ Len(gr) = n + 1 /\ gr[n + 1] = x
       /\ \A k \in 1..n : gr[k] = frames[k]
  <2> DEFINE S == FramesIn(contents)
  <2>1. t \in Seq(S) /\ n + 1 \in 1..Len(t) /\ x \in S
    BY <1>4, <1>5
  <2> HIDE DEF S
  <2>2. /\ gr \in Seq(S) /\ Len(gr) = Len(t)
        /\ \A k \in 1..Len(t) : gr[k] = IF k = n + 1 THEN x ELSE t[k]
    BY <1>9, <2>1, ExceptSeq
  <2> QED BY <1>4, <1>5, <2>1, <2>2 DEF S
<1>11. PICK fs \in Corpora : fs = contents
  BY <1>3
<1>12. PICK once \in SUBSET DOMAIN fs : once = importedFiles
  BY <1>3, <1>11
<1> DEFINE on == Part(items, once, 0)
<1>13. on \in Results(fs)
  BY <1>11, PartFresh
<1>14. PICK so : /\ Resumes(fs, frames, so) /\ so[1] = Whole
                 /\ so[Len(frames) + 1] = on
  BY <1>2, <1>11, <1>12 DEF UnderWay
<1>15. Continued(fs, on, x) = Continued(fs, Continued(fs, on, frames[n + 2]), frames[n + 1])
  <2>1. Continued(fs, Part(items, once, 0), FrameAt(file, pos, e)) = Part(items, once, e)
    BY <1>6, <1>11, EndReached
  <2>2. Continued(fs, Part(items, once, e), FrameAt(low, p, m))
          = Continued(fs, Part(items, once, 0), FrameAt(low, p, m + e))
    BY <1>11, ErrorsMoved
  <2>3. frames[n + 2] = FrameAt(file, pos, e)
    BY <1>3, <1>4, <1>6
  <2> QED BY <1>7, <1>8, <2>1, <2>2, <2>3
<1> HIDE DEF on
<1>16. SameUpTo(n, frames, gr) /\ Len(frames) + 1 = n + 3
  BY <1>4, <1>10 DEF SameUpTo
<1>17. \E u : Resumes(fs, gr, u) /\ u[1] = so[1] /\ u[Len(gr) + 1] = on
  <2>1. so[n + 3] = on
    BY <1>14, <1>16
  <2>2. Continued(fs, on, gr[n + 1])
          = Continued(fs, Continued(fs, so[n + 3], frames[n + 2]), frames[n + 1])
    BY <1>10, <1>15, <2>1
  <2> QED BY <1>3, <1>4, <1>10, <1>11, <1>13, <1>14, <1>16, <2>2, Popped
<1>18. UnderWay(items)'
  <2>1. frames' = gr /\ Whole' = Whole
    BY <1>1, <1>8, <1>9 DEF Whole
  <2> QED BY <1>1, <1>11, <1>12, <1>14, <1>17, <2>1 DEF UnderWay, on
<1>19. Parsed(items)'
  BY <1>1, <1>2, StaysParsed DEF IInv
<1> QED BY <1>1, <1>18, <1>19, ParsingGoesOn

\* ... or to main(), which has the whole text then.
LEMMA TextReturned ==
  ASSUME IInv, ImportInv, SegmentReturns, ~(Len(frames) > 1)
  PROVE  ImportInv'
<1>1. /\ mainpc = "parsing" /\ ~AtEvent
      /\ frames' = <<>> /\ returned' = frames[1].errors /\ mainpc' = "returned"
      /\ UNCHANGED <<contents, texts, importedFiles, listClauses, jobs>>
  BY DEF SegmentReturns
<1>2. PICK items \in Seq(Items(contents)) : Parsed(items) /\ UnderWay(items)
  BY <1>1 DEF ImportInv
<1>3. /\ contents \in Corpora /\ importedFiles \in SUBSET DOMAIN contents
      /\ Len(frames) = 1 /\ TopFrame = frames[1]
  <2> DEFINE n == Len(frames) - 1
  <2>1. /\ contents \in Corpora /\ importedFiles \in SUBSET DOMAIN contents
        /\ n \in Nat /\ Len(frames) = n + 1 /\ TopFrame = frames[n + 1]
    BY <1>1, TopIs
  <2> HIDE DEF n
  <2>2. n = 0
    BY <2>1
  <2> QED BY <2>1, <2>2
<1>4. PICK file \in DOMAIN contents, pos \in Nat \ {0}, e \in Nat :
        /\ TopFrame = FrameAt(file, pos, e) /\ ~(pos <= Len(contents[file]))
  <2>1. \E f \in DOMAIN contents, p \in Nat \ {0}, m \in Nat, v \in {Event} :
           /\ TopFrame = FrameAt(f, p, m)
           /\ \A d \in Nat : /\ Past(d) = FrameAt(f, p + 1, m + d)
                             /\ FrameAt(f, p + 1, m + d) \in FramesIn(contents)
           /\ v = contents[f][p]
           /\ AtEvent <=> p <= Len(contents[f])
    BY <1>1, TopPicked
  <2> QED BY <1>1, <2>1
<1>5. PICK so : /\ Resumes(contents, frames, so) /\ so[1] = Whole
                /\ so[Len(frames) + 1] = Part(items, importedFiles, 0)
  BY <1>2 DEF UnderWay
<1>6. Whole = Part(items, importedFiles, e)
  <2>1. PICK fs \in Corpora : fs = contents
    BY <1>3
  <2>2. PICK once \in SUBSET DOMAIN fs : once = importedFiles
    BY <1>3, <2>1
  <2>3. Continued(fs, Part(items, once, 0), FrameAt(file, pos, e)) = Part(items, once, e)
    BY <1>4, <2>1, EndReached
  <2>4. 1 \in 1..Len(frames) /\ Len(frames) + 1 = 1 + 1
    BY <1>3
  <2>5. so[1] = Continued(contents, so[1 + 1], frames[1])
    BY <1>5, <2>4 DEF Resumes
  <2> QED BY <1>3, <1>4, <1>5, <2>1, <2>2, <2>3, <2>4, <2>5
<1>7. returned' = e /\ Whole' = Whole
  BY <1>1, <1>3, <1>4 DEF FrameAt, Whole
<1>8. AllParsed(items)'
  BY <1>1, <1>6, <1>7 DEF AllParsed, Part
<1>9. Parsed(items)'
  BY <1>1, <1>2, StaysParsed DEF IInv
<1>10. texts' \in Seq(DOMAIN contents') /\ items \in Seq(Items(contents')) /\ mainpc' # "parsing"
  BY <1>1 DEF ImportInv
<1> QED BY <1>8, <1>9, <1>10 DEF ImportInv

-----------------------------------------------------------------------------
(* The other steps.                                                        *)

\* A text is submitted.
LEMMA TextSubmitted ==
  ASSUME IInv, ImportInv, NEW f, Submit(f)
  PROVE  ImportInv'
<1>1. /\ mainpc = "prompt" /\ mainpc' = "parsing" /\ f \in DOMAIN contents
      /\ texts' = Append(texts, f) /\ frames' = <<Frame(f)>>
      /\ UNCHANGED <<contents, importedFiles, listClauses, jobs>>
  BY DEF Submit
<1>2. PICK items \in Seq(Items(contents)) : Parsed(items) /\ AllParsed(items)
  BY <1>1 DEF ImportInv
<1>3. contents \in Corpora /\ texts \in Seq(DOMAIN contents)
  BY DEF IInv, Shapes, ImportInv
<1>4. Whole \in Results(contents) /\ Whole' = TextAdded(contents, Whole, f)
  BY <1>1, <1>3, TextsExpandedMore DEF Whole
<1>5. frames' = <<FrameAt(f, 1, 0)>>
  BY <1>1 DEF Frame, FrameAt
<1>6. PICK before \in Results(contents) : before = Whole
  BY <1>4
<1>7. PICK so : /\ Resumes(contents, <<FrameAt(f, 1, 0)>>, so)
                /\ so[1] = TextAdded(contents, before, f)
                /\ so[Len(<<FrameAt(f, 1, 0)>>) + 1] = Part(before.items, before.once, 0)
  BY <1>1, <1>3, TextBegins
<1>8. before.items = items /\ before.once = importedFiles
  BY <1>2, <1>6 DEF AllParsed
<1>9. UnderWay(items)'
  BY <1>1, <1>4, <1>5, <1>6, <1>7, <1>8 DEF UnderWay
<1>10. Parsed(items)'
  BY <1>1, <1>2, StaysParsed DEF IInv
<1>11. texts' \in Seq(DOMAIN contents') /\ items \in Seq(Items(contents'))
  BY <1>1, <1>3
<1> QED BY <1>1, <1>9, <1>10, <1>11 DEF ImportInv

\* Nothing the parser has done is touched.
LEMMA ParserAway ==
  ASSUME ImportInv, UNCHANGED <<contents, texts, importedFiles, frames, returned>>,
         mainpc' = mainpc \/ (mainpc # "parsing" /\ mainpc' \notin {"parsing", "returned"}),
         ParsedClauses' = ParsedClauses, ParsedQueries' = ParsedQueries
  PROVE  ImportInv'
<1>1. PICK items \in Seq(Items(contents)) :
        /\ Parsed(items)
        /\ mainpc = "parsing" => UnderWay(items)
        /\ mainpc # "parsing" => AllParsed(items)
  BY DEF ImportInv
<1>2. Parsed(items)'
  BY <1>1 DEF Parsed
<1>3. Whole' = Whole
  BY DEF Whole
<1>4. mainpc' = "parsing" => UnderWay(items)'
  BY <1>1, <1>3 DEF UnderWay
<1>5. mainpc' # "parsing" => AllParsed(items)'
  BY <1>1, <1>3 DEF AllParsed
<1>6. texts' \in Seq(DOMAIN contents') /\ items \in Seq(Items(contents'))
  BY DEF ImportInv
<1> QED BY <1>2, <1>4, <1>5, <1>6 DEF ImportInv

LEMMA ListsStay ==
  ASSUME UNCHANGED <<listClauses, jobs>>
  PROVE  ParsedClauses' = ParsedClauses /\ ParsedQueries' = ParsedQueries
<1>1. ParsedPositions' = ParsedPositions /\ QueryPositions' = QueryPositions
  BY DEF ParsedPositions, QueryPositions
<1> QED BY <1>1 DEF ParsedClauses, ParsedQueries

\* main() outside the parser: it submits a barrier at most.
LEMMA MainKeepsImports ==
  ASSUME IInv, ImportInv,
         KeepParseErrors \/ ReadCount \/ WriteCount \/ WaitForEngine \/ EngineIdle \/ Exit
  PROVE  ImportInv'
<1>1. CASE KeepParseErrors \/ ReadCount \/ WriteCount \/ EngineIdle \/ Exit
  <2>1. /\ UNCHANGED <<contents, texts, importedFiles, frames, returned, listClauses, jobs>>
        /\ mainpc # "parsing" /\ mainpc' \notin {"parsing", "returned"}
    BY <1>1 DEF KeepParseErrors, ReadCount, WriteCount, EngineIdle, Exit, parserVars
  <2> QED BY <2>1, ListsStay, ParserAway
<1>2. CASE WaitForEngine
  <2>1. /\ UNCHANGED <<contents, texts, importedFiles, frames, returned, listClauses>>
        /\ mainpc # "parsing" /\ mainpc' \notin {"parsing", "returned"}
        /\ jobs' = Append(jobs, Job(TrivialQuery, "barrier"))
    BY <1>2 DEF WaitForEngine, parserVars
  <2>2. Job(TrivialQuery, "barrier") \in JobRecords
    <3>1. TrivialQuery \in Questions
      BY DEF TrivialQuery, Questions
    <3> QED BY <3>1, JobTyped DEF IInv
  <2>3. Job(TrivialQuery, "barrier").onFinished = "barrier"
    BY DEF Job
  <2>4. ParsedQueries' = ParsedQueries
    BY <2>1, <2>2, <2>3, ParsedQueriesMore DEF IInv
  <2>5. ParsedPositions' = ParsedPositions
    BY <2>1 DEF ParsedPositions
  <2>6. ParsedClauses' = ParsedClauses
    BY <2>1, <2>5 DEF ParsedClauses
  <2> QED BY <2>1, <2>4, <2>6, ParserAway
<1> QED BY <1>1, <1>2

\* The worker lists clauses, but none as if it had been parsed.
LEMMA WorkerKeepsImports ==
  ASSUME IInv, ImportInv, WorkerStep
  PROVE  ImportInv'
<1>1. UNCHANGED <<contents, texts, importedFiles, frames, returned, mainpc>>
  BY DEF WorkerStep, StartJob, AssertClause, FinishJob, WorkerReadCount, WorkerWriteCount,
         DropJob, parserVars, mainVars
<1>2. CASE FinishJob \/ WorkerReadCount \/ WorkerWriteCount \/ DropJob
  <2>1. UNCHANGED <<listClauses, jobs>>
    BY <1>2 DEF FinishJob, WorkerReadCount, WorkerWriteCount, DropJob
  <2> QED BY <1>1, <2>1, ListsStay, ParserAway
<1> DEFINE r == Running
           old == jobs[r]
<1>3. ASSUME pending # <<>>
      PROVE  r \in 1..Len(jobs) /\ old \in JobRecords /\ r \in Nat /\ r # 0
  BY <1>3, RunningNext, RunningNumber DEF IInv
<1>4. ASSUME pending # <<>>, NEW j \in JobRecords, jobs' = [jobs EXCEPT ![r] = j],
             j.query = old.query, j.onFinished = old.onFinished, j.above = old.above
      PROVE  ParsedQueries' = ParsedQueries
  <2>1. /\ jobs' \in Seq(JobRecords) /\ Len(jobs') = Len(jobs) /\ jobs'[r] = j
        /\ \A k \in 1..Len(jobs) : k # r => jobs'[k] = jobs[k]
    BY <1>4, RunningReplaced DEF IInv
  <2> HIDE DEF r
  <2>2. \A k \in 1..Len(jobs) : /\ jobs'[k].query = jobs[k].query
                                /\ jobs'[k].onFinished = jobs[k].onFinished
                                /\ jobs'[k].above = jobs[k].above
    BY <1>4, <2>1
  <2> QED BY <2>1, <2>2, ParsedQueriesSame DEF IInv
<1>5. CASE StartJob
  <2> DEFINE j == [old EXCEPT !.root = Len(listClauses)]
  <2>1. pending # <<>> /\ jobs' = [jobs EXCEPT ![r] = j] /\ UNCHANGED listClauses
    BY <1>5 DEF StartJob
  <2>2. j \in JobRecords /\ j.query = old.query /\ j.onFinished = old.onFinished
        /\ j.above = old.above
    <3>1. Len(listClauses) \in Nat
      BY DEF IInv, Shapes
    <3>2. old \in JobRecords
      BY <1>3, <2>1
    <3> HIDE DEF old
    <3> QED BY <3>1, <3>2 DEF JobRecords
  <2> HIDE DEF j, old, r
  <2>3. ParsedQueries' = ParsedQueries
    BY <1>4, <2>1, <2>2
  <2>4. ParsedPositions' = ParsedPositions
    BY <2>1 DEF ParsedPositions
  <2>5. ParsedClauses' = ParsedClauses
    BY <2>1, <2>4 DEF ParsedClauses
  <2> QED BY <1>1, <2>3, <2>5, ParserAway
<1>6. CASE AssertClause
  <2> DEFINE n == old.asserted + 1
             j == [old EXCEPT !.asserted = n]
             entry == [clause |-> Query.asserts[n], by |-> r]
  <2>1. /\ workerpc = "running" /\ n <= Len(Query.asserts)
        /\ listClauses' = Append(listClauses, entry)
        /\ jobs' = [jobs EXCEPT ![r] = j]
    BY <1>6 DEF AssertClause
  <2>2. pending # <<>>
    BY <2>1 DEF IInv, WorkerInv
  <2>3. old \in JobRecords /\ r \in Nat /\ r # 0
    BY <1>3, <2>2
  <2>4. Query = old.query
    BY DEF Query
  <2> HIDE DEF old, r
  <2>5. n \in Nat \ {0} /\ Query.asserts \in Seq(Clauses)
    BY <2>3, <2>4 DEF JobRecords, Questions
  <2>6. entry \in Entries /\ entry.by = r
    <3>1. Query.asserts[n] \in Clauses
      <4>1. n \in 1..Len(Query.asserts)
        BY <2>1, <2>5
      <4> HIDE DEF n
      <4> QED BY <2>5, <4>1
    <3> QED BY <2>3, <3>1 DEF Entries
  <2>7. j \in JobRecords /\ j.query = old.query /\ j.onFinished = old.onFinished
        /\ j.above = old.above
    BY <2>3, <2>5 DEF JobRecords
  <2> HIDE DEF j, entry
  <2>8. ParsedQueries' = ParsedQueries
    BY <1>4, <2>1, <2>2, <2>7
  <2>9. ParsedClauses' = ParsedClauses
    BY <2>1, <2>3, <2>6, ParsedClausesMore DEF IInv
  <2> QED BY <1>1, <2>8, <2>9, ParserAway
<1> QED BY <1>2, <1>5, <1>6 DEF WorkerStep

\* Whatever the files import, and whatever the worker asserts meanwhile,
\* parseExecuteSegment() and processImport() have done a beginning of what
\* the texts come to when each file is put in the place of its first import,
\* have done all of it when they return, and return the number of its errors.
THEOREM ImportsAreInlined == Spec => []InlineImports
<1>1. ASSUME IInv, ImportInv, [Next]_vars PROVE ImportInv'
  <2>1. ASSUME UNCHANGED vars PROVE ImportInv'
    <3>1. UNCHANGED <<contents, texts, importedFiles, frames, returned, mainpc,
                      listClauses, jobs>>
      BY <2>1 DEF vars, parserVars, mainVars
    <3> QED BY <1>1, <3>1, ListsStay, ParserAway
  <2>2. ASSUME ParserStep PROVE ImportInv'
    BY <1>1, <2>2, ClauseParsed, QueryParsed, ImportParsed, ErrorParsed, CallReturned,
       TextReturned DEF ParserStep
  <2>3. ASSUME NEW f \in Typed, Submit(f) PROVE ImportInv'
    BY <1>1, <2>3, TextSubmitted
  <2> QED BY <1>1, <2>1, <2>2, <2>3, MainKeepsImports, WorkerKeepsImports
          DEF Next, MainStep
<1> QED BY InitImportInv, <1>1, ImportInvShows, Inductive, PTL DEF Spec

=============================================================================
