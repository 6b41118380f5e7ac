------------------------------ MODULE Runtime ------------------------------
(***************************************************************************)
(* A run of unify-run: main() parses a program event by event, following   *)
(* its imports, and then items typed at the prompt; every query it meets   *)
(* becomes a job of the one worker thread, which searches and asserts      *)
(* while main() goes on parsing.  After each text main() waits for the     *)
(* queue to drain, and the errors of both threads end up in its exit code. *)
(*                                                                         *)
(* The scheduler is the JobQueue that Engine implements with one worker.   *)
(* A search is reduced to the snapshot of its root, the clauses it asserts *)
(* and the errors it records; appendClause() is one step here, and ClauseDb *)
(* has the steps in it.                                                    *)
(***************************************************************************)
EXTENDS Naturals, Sequences, SequencesExt

CONSTANTS
  Clauses,      \* the clauses of programs
  Corpora,      \* the file systems: functions from files to event sequences
  Programs,     \* the files named on the command line, None for no program
  Typed,        \* the files given to :load, and the items typed
  MaxTexts,     \* a bound on the texts parsed, the program included
  None

\* A query by what it does: the clauses it asserts and the errors it records.
Questions == [asserts : Seq(Clauses), errors : Nat]

IsEvent(e) ==
  /\ e.kind \in {"clause", "query", "import", "error"}
  /\ e.kind = "clause" => e.clause \in Clauses
  /\ e.kind = "query" => e.query \in Questions

\* Files hold events, and the program on the command line can be opened.
ASSUME CorporaAssumption ==
  \A c \in Corpora :
    /\ Programs \subseteq DOMAIN c \cup {None}
    /\ \A f \in DOMAIN c :
         /\ Len(c[f]) \in Nat
         /\ \A k \in 1..Len(c[f]) : IsEvent(c[f][k])

VARIABLES
  contents,       \* the file system, fixed
  listClauses,    \* m_listClauses: each clause and the job that asserted it
  importedFiles,  \* m_importedFiles
  frames,         \* the calls of parseExecuteSegment() under way
  returned,       \* what the outermost of them returned
  mainpc,         \* "parsing", "returned", "counting", "counted", "waiting",
                  \* "prompt" or "done"
  session,        \* whether main() is in runRepl()
  texts,          \* history: the texts given so far, in order
  jobs,           \* every job, in the order of addJob()
  pending,        \* the jobs not finished, the running one in front
  done,           \* the jobs whose onFinished() has been called
  workerpc,       \* "idle", "running", "counting" or "dropping"
  parseErrors,    \* main()'s parseErrorCount
  runtimeErrors,  \* s_runtimeErrorCount
  sessionErrors,  \* SessionCounters::errorCount
  mainRead,       \* the count main() has read and not yet written back
  workerRead,     \* the count the worker has read and not yet written back
  result,         \* main()'s exit code
  errorsMet       \* history: the errors that were reported or recorded

parserVars == <<importedFiles, frames, returned>>
queueVars  == <<pending, done>>
countVars  == <<parseErrors, runtimeErrors, sessionErrors, mainRead, workerRead>>
mainVars   == <<mainpc, session, texts, result>>
vars == <<contents, listClauses, parserVars, mainVars, jobs, queueVars,
          workerpc, countVars, errorsMet>>

Queue == INSTANCE JobQueue WITH Jobs <- Nat \ {0}

-----------------------------------------------------------------------------

Frame(file) == [file |-> file, pos |-> 1, errors |-> 0]

\* A job that is submitted now, and who is told of its end.  Its root context
\* is built with it, and takes a first snapshot: so much of the list it sees.
Job(query, listener) ==
  [query |-> query, onFinished |-> listener,
   above |-> {i \in 1..Len(listClauses) : listClauses[i].by = 0},
   root |-> Len(listClauses), asserted |-> 0]

TrivialQuery == [asserts |-> <<>>, errors |-> 0]

Init ==
  /\ contents \in Corpora
  /\ listClauses = <<>>
  /\ importedFiles = {}
  /\ \E p \in Programs :
       /\ frames = IF p = None THEN <<>> ELSE <<Frame(p)>>
       /\ mainpc = IF p = None THEN "prompt" ELSE "parsing"
       /\ session = (p = None)
       /\ texts = IF p = None THEN <<>> ELSE <<p>>
  /\ returned = 0
  /\ jobs = <<>>
  /\ Queue!Init
  /\ workerpc = "idle"
  /\ parseErrors = 0 /\ runtimeErrors = 0 /\ sessionErrors = 0
  /\ mainRead = 0 /\ workerRead = 0
  /\ result = None
  /\ errorsMet = 0

-----------------------------------------------------------------------------
(* parseExecuteSegment() and processImport(), on the main thread.          *)

TopFrame == Last(frames)
AtEvent == mainpc = "parsing" /\ TopFrame.pos <= Len(contents[TopFrame.file])
Event == contents[TopFrame.file][TopFrame.pos]

\* The top frame after the event at hand, with so many more errors.
Past(more) == [TopFrame EXCEPT !.pos = @ + 1, !.errors = @ + more]

ParseClause ==
  /\ AtEvent /\ Event.kind = "clause"
  /\ listClauses' = Append(listClauses, [clause |-> Event.clause, by |-> 0])
  /\ frames' = Front(frames) \o <<Past(0)>>
  /\ UNCHANGED <<contents, importedFiles, returned, mainVars, jobs,
                 queueVars, workerpc, countVars, errorsMet>>

ParseQuery ==
  /\ AtEvent /\ Event.kind = "query"
  /\ jobs' = Append(jobs, Job(Event.query, IF session THEN "session" ELSE "program"))
  /\ Queue!Add(Len(jobs'))
  /\ frames' = Front(frames) \o <<Past(0)>>
  /\ UNCHANGED <<contents, listClauses, importedFiles, returned,
                 mainVars, workerpc, countVars, errorsMet>>

\* A slip: a file is skipped only while it is being parsed.
ParseImportAgain ==
  /\ AtEvent /\ Event.kind = "import"
  /\ Event.file \in DOMAIN contents
  /\ frames' = Front(frames) \o <<Past(0)>>
       \o (IF \E k \in 1..Len(frames) : frames[k].file = Event.file THEN <<>>
           ELSE <<Frame(Event.file)>>)
  /\ UNCHANGED <<contents, listClauses, importedFiles, returned,
                 mainVars, jobs, queueVars, workerpc, countVars, errorsMet>>

\* A target that cannot be opened is an error, one that was imported before is
\* skipped, any other is parsed at once.
ParseImport ==
  /\ AtEvent /\ Event.kind = "import"
  /\ IF Event.file \notin DOMAIN contents
       THEN /\ frames' = Front(frames) \o <<Past(1)>>
            /\ errorsMet' = errorsMet + 1
            /\ UNCHANGED importedFiles
       ELSE /\ frames' = Front(frames) \o <<Past(0)>>
                 \o (IF Event.file \in importedFiles THEN <<>>
                     ELSE <<Frame(Event.file)>>)
            /\ importedFiles' = importedFiles \cup {Event.file}
            /\ UNCHANGED errorsMet
  /\ UNCHANGED <<contents, listClauses, returned, mainVars, jobs,
                 queueVars, workerpc, countVars>>

\* A slip: the loop is not left, and the same text is parsed again.
ParseErrorLoops ==
  /\ AtEvent /\ Event.kind = "error"
  /\ UNCHANGED vars

\* No rule matches: the grammar consumes nothing, and the loop is left.
ParseError ==
  /\ AtEvent /\ Event.kind = "error"
  /\ frames' = Front(frames) \o
       <<[Past(1) EXCEPT !.pos = Len(contents[TopFrame.file]) + 1]>>
  /\ errorsMet' = errorsMet + 1
  /\ UNCHANGED <<contents, listClauses, importedFiles, returned, mainVars, jobs,
                 queueVars, workerpc, countVars>>

\* The end of a text: its errors go to the import that asked for it, or are
\* what the outermost call returns.
SegmentReturns ==
  LET n == Len(frames) IN
  /\ mainpc = "parsing" /\ ~AtEvent
  /\ IF n > 1
       THEN /\ frames' = [SubSeq(frames, 1, n - 1)
                            EXCEPT ![n - 1].errors = @ + frames[n].errors]
            /\ UNCHANGED <<returned, mainpc>>
       ELSE /\ frames' = <<>>
            /\ returned' = frames[1].errors
            /\ mainpc' = "returned"
  /\ UNCHANGED <<contents, listClauses, importedFiles, session, texts,
                 result, jobs, queueVars, workerpc, countVars, errorsMet>>

-----------------------------------------------------------------------------
(* main(), runProgramFile() and runRepl().                                 *)

\* int parseErrorCount = rt.parseExecuteSegment( ... ).
KeepParseErrors ==
  /\ mainpc = "returned" /\ ~session
  /\ parseErrors' = returned
  /\ mainpc' = "counted"
  /\ UNCHANGED <<contents, listClauses, parserVars, session, texts, result, jobs,
                 queueVars, workerpc, runtimeErrors, sessionErrors, mainRead,
                 workerRead, errorsMet>>

\* counters.errorCount += rt.parseExecuteSegment( ... ): a read and a write.
ReadCount ==
  /\ mainpc = "returned" /\ session
  /\ mainRead' = sessionErrors
  /\ mainpc' = "counting"
  /\ UNCHANGED <<contents, listClauses, parserVars, session, texts, result, jobs,
                 queueVars, workerpc, parseErrors, runtimeErrors, sessionErrors,
                 workerRead, errorsMet>>

WriteCount ==
  /\ mainpc = "counting"
  /\ sessionErrors' = mainRead + returned
  /\ mainpc' = "counted"
  /\ UNCHANGED <<contents, listClauses, parserVars, session, texts, result, jobs,
                 queueVars, workerpc, parseErrors, runtimeErrors, mainRead,
                 workerRead, errorsMet>>

\* A slip: main() does not wait for the queries of the text.
WaitForEngineNot ==
  /\ mainpc = "counted"
  /\ mainpc' = "prompt"
  /\ session' = TRUE
  /\ UNCHANGED <<contents, listClauses, parserVars, texts, result, workerpc,
                 jobs, queueVars, countVars, errorsMet>>

\* waitForEngineIdle(): the barrier job is queued ...
WaitForEngine ==
  /\ mainpc = "counted"
  /\ jobs' = Append(jobs, Job(TrivialQuery, "barrier"))
  /\ Queue!Add(Len(jobs'))
  /\ mainpc' = "waiting"
  /\ UNCHANGED <<contents, listClauses, parserVars, session, texts, result,
                 workerpc, countVars, errorsMet>>

\* ... and its onFinished() has been called.
EngineIdle ==
  /\ mainpc = "waiting"
  /\ Len(done) = Len(jobs)
  /\ mainpc' = "prompt"
  /\ session' = TRUE
  /\ UNCHANGED <<contents, listClauses, parserVars, texts, result, jobs,
                 queueVars, workerpc, countVars, errorsMet>>

\* An item is typed or a file that exists is loaded: neither is an import.
Submit(file) ==
  /\ mainpc = "prompt"
  /\ file \in DOMAIN contents
  /\ Len(texts) < MaxTexts
  /\ texts' = Append(texts, file)
  /\ frames' = <<Frame(file)>>
  /\ mainpc' = "parsing"
  /\ UNCHANGED <<contents, listClauses, importedFiles, returned,
                 session, result, jobs, queueVars, workerpc, countVars, errorsMet>>

\* The end of the input, which may drop a half-typed item, or no prompt at all:
\* main() returns.
Exit ==
  \E dropped \in IF Len(texts) < MaxTexts THEN {0, 1} ELSE {0} :
    /\ mainpc = "prompt"
    /\ mainpc' = "done"
    /\ sessionErrors' = sessionErrors + dropped
    /\ errorsMet' = errorsMet + dropped
    /\ result' = IF parseErrors + runtimeErrors + sessionErrors' > 0 THEN 1 ELSE 0
    /\ UNCHANGED <<contents, listClauses, parserVars, session, texts, jobs,
                   queueVars, workerpc, parseErrors, runtimeErrors, mainRead,
                   workerRead>>

-----------------------------------------------------------------------------
(* The worker thread.                                                      *)

Running == Head(pending)
Query == jobs[Running].query

\* A slip: the snapshot of startJob() is kept.
StartJobStale ==
  /\ workerpc = "idle" /\ pending # <<>>
  /\ workerpc' = "running"
  /\ UNCHANGED <<contents, listClauses, parserVars, mainVars, jobs, queueVars,
                 countVars, errorsMet>>

\* The first slice: the root context takes its snapshot again.
StartJob ==
  /\ workerpc = "idle" /\ pending # <<>>
  /\ jobs' = [jobs EXCEPT ![Running].root = Len(listClauses)]
  /\ workerpc' = "running"
  /\ UNCHANGED <<contents, listClauses, parserVars, mainVars, queueVars,
                 countVars, errorsMet>>

\* The search reaches an assert().
AssertClause ==
  LET n == jobs[Running].asserted + 1 IN
  /\ workerpc = "running"
  /\ n <= Len(Query.asserts)
  /\ listClauses' = Append(listClauses, [clause |-> Query.asserts[n], by |-> Running])
  /\ jobs' = [jobs EXCEPT ![Running].asserted = n]
  /\ UNCHANGED <<contents, parserVars, mainVars, queueVars, workerpc, countVars,
                 errorsMet>>

Searched == workerpc = "running" /\ jobs[Running].asserted = Len(Query.asserts)

\* A slip: the count of the last query replaces the sum.
FinishJobOverwrites ==
  /\ Searched /\ jobs[Running].onFinished # "session"
  /\ runtimeErrors' = Query.errors
  /\ errorsMet' = errorsMet + Query.errors
  /\ Queue!Finish
  /\ workerpc' = "dropping"
  /\ UNCHANGED <<contents, listClauses, parserVars, mainVars, jobs, parseErrors,
                 sessionErrors, mainRead, workerRead>>

\* A slip: the job is left in its READY state, as if it had another slice.
FinishJobReady ==
  /\ Searched /\ jobs[Running].onFinished # "session"
  /\ runtimeErrors' = runtimeErrors + Query.errors
  /\ errorsMet' = errorsMet + Query.errors
  /\ Queue!Finish
  /\ UNCHANGED <<contents, listClauses, parserVars, mainVars, jobs, workerpc,
                 parseErrors, sessionErrors, mainRead, workerRead>>

\* unify-run's onFinished(), and that of the barrier, which counts nothing.
FinishJob ==
  /\ Searched /\ jobs[Running].onFinished # "session"
  /\ runtimeErrors' = runtimeErrors + Query.errors
  /\ errorsMet' = errorsMet + Query.errors
  /\ Queue!Finish
  /\ workerpc' = "dropping"
  /\ UNCHANGED <<contents, listClauses, parserVars, mainVars, jobs, parseErrors,
                 sessionErrors, mainRead, workerRead>>

\* The prompt's: counters.errorCount += getErrorCount(), a read and a write.
WorkerReadCount ==
  /\ Searched /\ jobs[Running].onFinished = "session"
  /\ workerRead' = sessionErrors
  /\ errorsMet' = errorsMet + Query.errors
  /\ workerpc' = "counting"
  /\ UNCHANGED <<contents, listClauses, parserVars, mainVars, jobs, queueVars,
                 parseErrors, runtimeErrors, sessionErrors, mainRead>>

WorkerWriteCount ==
  /\ workerpc = "counting"
  /\ sessionErrors' = workerRead + Query.errors
  /\ Queue!Finish
  /\ workerpc' = "dropping"
  /\ UNCHANGED <<contents, listClauses, parserVars, mainVars, jobs, parseErrors,
                 runtimeErrors, mainRead, workerRead, errorsMet>>

\* The last reference to the job goes, and with it the job's own to the World.
DropJob ==
  /\ workerpc = "dropping"
  /\ workerpc' = "idle"
  /\ UNCHANGED <<contents, listClauses, parserVars, mainVars, jobs, queueVars,
                 countVars, errorsMet>>

-----------------------------------------------------------------------------

ParserStep ==
  ParseClause \/ ParseQuery \/ ParseImport \/ ParseError \/ SegmentReturns

MainStep ==
  \/ ParserStep
  \/ KeepParseErrors \/ ReadCount \/ WriteCount
  \/ WaitForEngine \/ EngineIdle \/ Exit

WorkerStep ==
  \/ StartJob \/ AssertClause \/ FinishJob
  \/ WorkerReadCount \/ WorkerWriteCount \/ DropJob

Next == MainStep \/ WorkerStep \/ \E f \in Typed : Submit(f)

Spec == Init /\ [][Next]_vars

\* Both threads run.  Nobody has to type anything, and every search ends.
FairSpec == Spec /\ WF_vars(MainStep) /\ WF_vars(WorkerStep)

-----------------------------------------------------------------------------
(* Properties.                                                             *)

Started(k) == k <= Len(done) \/ (k = Len(done) + 1 /\ workerpc \in {"running", "counting"})

Ended == mainpc = "done"

\* Every variable has its type, and the job numbers are those of the queue.
TypeOK ==
  /\ importedFiles \subseteq DOMAIN contents
  /\ \A k \in 1..Len(frames) :
       /\ frames[k].file \in DOMAIN contents
       /\ frames[k].pos \in 1..(Len(contents[frames[k].file]) + 1)
       /\ frames[k].errors \in Nat
  /\ mainpc = "parsing" <=> frames # <<>>
  /\ workerpc \in {"idle", "running", "counting", "dropping"}
  /\ workerpc \in {"running", "counting"} => pending # <<>>
  /\ done \o pending = [k \in 1..Len(jobs) |-> k]
  /\ \A k \in 1..Len(jobs) :
       /\ jobs[k].root \in 0..Len(listClauses)
       /\ jobs[k].asserted \in 0..Len(jobs[k].query.asserts)
  /\ result \in {None, 0, 1}

\* SPEC.md section 13: the search of a query starts from all that came before
\* it, the clauses above it in the text and whatever the queries queued ahead
\* of it have asserted, although its root was built when it was parsed.
SeesEarlierWork ==
  \A k \in 1..Len(jobs) : Started(k) =>
    \A i \in 1..Len(listClauses) :
      \/ i \in jobs[k].above
      \/ listClauses[i].by \in 1..(k - 1)
      => i <= jobs[k].root

\* The exit code of unify-run is 1 exactly if a parse error, an import error
\* or a query's error was met, on whichever thread.
ExitCodeTells == Ended => (result = 1 <=> errorsMet > 0)

\* It does for a program that is run without typing anything after it, which is
\* how unify-run is used in scripts.
ProgramExitCodeTells == Len(texts) = 1 /\ texts[1] \in Programs => ExitCodeTells

\* main() returns, and tears the runtime down, with no search under way and
\* none left in the queue.
NothingInFlight ==
  Ended => pending = <<>> /\ workerpc \notin {"running", "counting"}

\* A program that is run ends, whatever imports what.
ProgramEnds == <>Ended

===============================================================================
