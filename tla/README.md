# A TLA+ verification of Unify

Unify (`src/unify`) is a small logic language: a program is a text of clauses,
queries and imports, a query is solved depth first over one list of clauses,
and a program may assert and retract facts while it is searched. One thread
parses, another one solves; a debugger may halt and step the search. This
directory holds TLA+ models of the parts where order, interleaving and state
decide, the TLC runs that check them, and TLAPS proofs.

## 1. The system

### Components

| Component | Source | State it keeps | Operations |
|---|---|---|---|
| clause database | `vault-unify-execution-state.cpp`, `vault-unify-world.cpp`, `Clause` and `ClauseIterator` in `vault-unify.hpp`, the retract scan in `vault-unify-solvejob.cpp` | the clause list, the mutation generation, append and retire stamps, the mutex of the writers, each iterator's snapshot and position | append (parser, `assert`), retract, iterate, invalidate |
| engine | `vault-unify-engine.cpp`, `vault-unify-job.cpp` | the ready queue, the halted flag, the debug target state, the count of sleeping workers | `addJob`, `executionLoop`, `requestDebugState`; the barrier of `waitForEngineIdle()` |
| search | `vault-unify-solvejob.cpp`, clause and unify context classes | the stack of solve contexts with their cursors and iterators, the solutions, the errors, the nested jobs of `findall` | one turn of `performSlice()`: solution, halt, exhaustion, cut, findall, assert, retract, clause resolution |
| runtime context | `vault-unify-runtime-context.cpp` | the set of imported files, the recursion of the parse, the error count | parse a clause, a query, an import, an error; tear down |
| tools | `tools/unify-run.cpp`, `unify-repl.cpp`, `unify-tool-support.cpp` | three error counters, the item being typed | run a file, add a line to an item, submit it, load a file, wait for the engine, exit code |
| bindings | `vault-unify-term-*.cpp`, `vault-unify-unifycontext.cpp` | variable to instance to term maps along a chain of contexts | unify two terms, resolve a term |
| builtins | `vault-unify-clause-builtin-*.cpp` | none | arithmetic, comparison, ranges, arrays, strings, output |
| parser | `vault-unify-parser.hpp`, `vault-unify-parser.cpp` | the clause context (variable names, fresh names) | grammar; desugaring of `if`, `for`, `foreach`, ranges, `->`, `findall` |
| debugger protocol | `vault-unify-xdebug*.cpp` | the pieces of a line read so far, the controller's status, the expected change reason, the id of the last command | DBGp commands, the listener's notification |

### How they interact

* `main()` and the parser run on one thread, the search on the engine's one
  worker thread. They share the clause list (without a lock for readers), the
  ready queue (under `m_mutex`) and the error counters (without a lock).
* A query is a `SolveJob`. Its root context is built by the parser; its search
  starts when the worker pops it. `onFinished()` runs on the worker.
* `waitForEngineIdle()` queues an empty job and waits for its `onFinished()`.
* `findall` runs a second `SolveJob` inside a turn of the first.
* The debugger's thread calls `requestDebugState()`; the worker calls the
  debug listener after it has published a halt.

### What is hard, and what makes each part correct

* **Clause database.** Readers take no lock, so a scan can overlap an append
  between its stamp and its push. Correct: a scan sees exactly the clauses
  live when it began (*logical update view*), in list order; one retract takes
  one clause.
* **Engine.** Wake-ups are signalled by count, a halted job goes back to the
  front, a request can meet an empty queue. Correct: first in first out, no
  lost wake-up, a halted engine shows a halted job, a request resumes it.
* **Search.** The loop is re-entered after every halt; cut prunes by walking
  parents; updates change the list under the scan. Correct: the solutions, in
  order, and the database afterwards are those of the textbook reading of the
  program.
* **Runtime and tools.** Parsing and solving overlap, imports recurse, errors
  come in on two threads. Correct: imports amount to inlining each file once,
  a query sees all earlier work, the exit code misses no error, nothing runs
  after `main()`.
* **Bindings.** A variable is known by scope and object, is bound through an
  instance id that it may share, and is looked up along a chain of contexts of
  which only the top is written. Correct: what is bound is a most general
  unifier of the equations of the branch, and dropping the top context undoes
  exactly one candidate.
* **Desugaring and builtins.** A loop becomes a recursive predicate with a
  cut, copies of its variables and a fact to fall back on. Correct: the query
  prints, fails and succeeds as its source says, and nothing is left to try
  of an iteration that is over.
* **Debugger.** Commands come in on one thread, halts on another, and a reply
  is paired with a command by what the controller remembers. Correct: a reply
  answers the command it names, once, and tells where the job stands.
* **Prompt.** An item is complete when a scan that knows strings, comments and
  brackets says so; the parser then decides on its own what it is. Correct:
  what runs is what was typed, however it is cut into lines.

## 2. Plan

1. `ClauseDb`, its abstract view `LogicalUpdateView`, proofs, of the
   refinement too. *Done.*
2. `Engine`, its abstract queue `JobQueue`, proofs. *Done.*
3. `Solver` against `SolverReference`. *Done for ground goals; proofs of its
   stack invariants (`CutFindsEntry`, the stamps of `TypeOK`), and that a
   job solves its query as the reference does.*
4. `Runtime`, on `JobQueue`, against `RuntimeReference`, proofs, of the
   expansion of imports too. *Done.*
5. `Bindings` against the most general unifier, `BindingsReference`. *Done;
   proofs of types, of one-step lookup and, by readings of the terms, that the
   bindings solve the equations and that a clash has no solution. The
   comparison with the recursive `BindingsReference` stays with TLC.*
6. `XDebug`: the controller over `Engine`, proofs. *Done; breakpoints do not
   exist in the code.*
7. `Desugar` and `Loops` with the builtins they need, against
   `LoopsReference`. *Done for ranges, `->`, `=`, `if`, `for`, `foreach`.*
8. `Grammar` and `Repl` against `ReplReference`. *Done.*
9. Left: the string builtins; `findall` with variables (the copies it makes of
   its template in `Bindings`); one composition of `Solver` and `Bindings`.

Further abstract specifications worth stating: a serial evaluation of the
program text that `Runtime` implements while the parser is quiet; the scans of
`Solver` as instances of `LogicalUpdateView`. Further proofs worth having: the
same for `Loops`, which would need `Desugar` and its reference stated without
recursion over terms.

## 3. Modules

| Module | Models | Notes |
|---|---|---|
| `ClauseDb` | clause list, stamps, mutex, iterators | a step is one access to shared state |
| `LogicalUpdateView` | what a scan promises: a fixed sequence, a cursor | abstract; `ClauseDb` implements it, an append taking effect at its stamp |
| `Selections` | the entries of a sequence that pass a test, in order | one operator and what it is made of; of the code it models nothing |
| `Engine` | scheduler, workers, submitters, debugger | a step is one critical section |
| `JobQueue` | what one worker promises: a queue | abstract; `Engine` implements it, `Runtime` builds on it |
| `Solver` | one job's `performSlice()` | a step is one turn of the loop |
| `SolverReference` | recursive reading of a program | a function of the number of steps; for TLC and for the proofs |
| `Runtime` | parser, imports, queries, `main()`, prompt | composes the above: the queue is `JobQueue`, an append is one step |
| `RuntimeReference` | the inline expansion of texts, by the rule of the code, and by that of `SPEC.md` | recursive functions; for TLC and for the proofs |
| `Bindings` | one branch of a search: contexts, ids, instances, `unifyTerm()` | a step is one call of `unifyTerm()` |
| `BindingsReference` | the least equivalence that solves the equations of a branch | `RECURSIVE`, for TLC only |
| `XDebug` | IDE, stream, reader, controller, listener | composes with `Engine`, which it extends |
| `Desugar` | what the parser makes of a query | operators; `RECURSIVE` |
| `Loops` | such a query, run, with the builtins | a step is one goal or one candidate |
| `LoopsReference` | what the source of the query means | `RECURSIVE`, for TLC only |
| `Grammar` | the rules of the parser, and how a text is parsed | operators; `RECURSIVE` |
| `Repl` | the prompt, line by line | a step is one line |
| `ReplReference` | what the lines of a session mean, by the grammar alone | `RECURSIVE`, for TLC only |
| `ClauseDbProofs`, `EngineProofs`, `SolverProofs`, `RuntimeProofs`, `BindingsProofs`, `XDebugProofs` | theorems about the module of the name | section 5 |
| `SearchProofs` | the theorem that `Solver` finds what `SolverReference` finds | stands on `SolverProofs` |
| `SequenceLemmas` | lemmas on least and greatest numbers, on functions defined by recursion on them, on the parts of sequences and on selections from them | used by the proofs of most modules |
| `MC...` | instances for TLC | |

Definitions named `...Missing`, `...Stale`, `...Again` and the like, each under
a comment that begins "A slip", are plausible bugs of the definition below
them. They are not part of any specification; they serve to show that the
properties would notice.

### Correspondence

*ClauseDb.* `AppendCall/Lock/Stamp/Push` are `appendClause()` up to its lock,
its lock, `setAppendGeneration( bumpGeneration() )` and `push_back()`.
`RetractCall/Skip/None/Hit` are the scan of `__builtin_retract`.
`NewIterator`, `SkipHidden`, `Offer` and `Invalidate` are the constructor,
`isValid()`, `getClause()` with `next()`, and `invalidate()`. `view`,
`inFlight` and `offered` are history. For the refinement the database is the
list and behind it the clause that is stamped and not pushed yet (`Entries`). Only the worker iterates; only it
retracts. Memory is sequentially consistent: the unsynchronised reads are
undefined behaviour in C++, and the model takes the outcomes of a build in
which each is an atomic word read. `std::list::end()` is a sentinel, so an
iterator that reached the end stays there. Term debug information, parent
states (`fork()` is never called) and the destructor are left out.

*Engine.* `AddJobRead` and `AddJobPush` are the two critical sections of
`addJob()`. `Sleep`, `TakeJob`, `Halt`, `Finish` are those of
`executionLoop()`, `TellListener` the call after the lock of `Halt` is gone.
`RequestDebugState` is the function of that name. Threads blocked on the
mutex are not represented; those in the condition variable are, with spurious
wake-ups. READY and BLOCKED are left out: no job ends a slice in either.

*Solver.* One action per way a turn of the loop can go, in the order of the
code: `EmitSolution`, `DebugHalt`, `DebugStop`, `Exhausted`, then the special
forms, then `TryClause`. A solve context is a record; its parent is the entry
below it. A goal part cursor is its chain of unfinished frames. Goals are
ground atoms with one argument; a unify context is the path of clauses, so
that solutions can be told apart. A slice of a nested job is part of the
turn that calls `findall`, as in the code, but is taken in steps: nothing
else can happen between them.

*SolverReference.* A search is a list of goals, the choices for the first of
them, the depth of calls, a path, and the state it starts from: the live
clauses, the solutions, the errors, and the level that a cut abandons.
`Search[n]` is what becomes of every search in `n` searches one within the
other, and is marked as not `ended` where that is too few. The builtins are
the ones every world has (`ReferenceAssumption`): a list without any clause,
where the code would leave even a cut untried, does not occur.

*Runtime.* `frames` is the C++ recursion of `parseExecuteSegment()`. An event
of a text is a clause, a query, an import or a parse error. A search is the
snapshot of its root, the facts it asserts, and the errors it records, one
step each; how the search arrives at them is `Solver`'s business.
`counters.errorCount += ...` is a read and a write on both threads, the read
of the main thread after the parse has returned (C++17). File names stand for
canonical paths. `:load` of a file that does not exist changes nothing and is
left out.

*Bindings.* `Try` makes the unify context of a candidate, `Backtrack` drops
it. `UnifyVarVar` is `VarTerm::unifyVarTerm()` with all its cases,
`UnifyVarKnown` is `genericUnifyVarWithKnown()`, the other actions are
`ConsTerm`, `MapTerm` and `ArrayTerm`, and `Clash` is `UnifyNot`. `todo` is
the recursion of the C++ calls. `lossy` marks the two steps that take two
things for one: the move of one variable of a group to another id, and the
same compound object met in two scopes. What `UnifyIdentical` loses is
section 6; the other one is the comment "Override the other variable binding"
in the code.

*XDebug.* The stream is cut into reads in every way. `ConsumeInput` is
`consumeInput()` with `flushCurrentLine()`, the `Execute...` actions are the
branches of `consumeXDebugCommand()`, and `FetchLocation`, `MirrorState` and
`SendReply` are `onDebugStateChanged()` before, in and after its critical
section. `m_strLastId` is read again in the last one, as the code does. A
name has one piece on the wire and its arguments another one. A reply carries
a name of its own (`ResponseName`): to `stack_get` `sendStack()` answers with
`command="status"`. A command without an option it needs, for which
`parseCommand()` fails, is the name `incomplete`: it is dropped without a
reply, like one that is not known (`ExecuteUnknown`).

*Desugar, Loops.* `DesugarFor`, `DesugarForEach` and `DesugarIf` are the
functors of `AnyTermFactory` for these statements; the C++ clones the terms of
a rule, here a name is read in the scope of its clause, which is the same.
`Loops` has the search and the bindings in the short form of a Prolog machine;
`Solver` and `Bindings` have them in the form of the code. Integers have
`2 * Half` values and wrap: overflow is undefined in C++, and the model takes
the outcome of the usual build. `INT64_MIN / -1`, which traps, is not reached.

*Grammar, Repl.* `Grammar` writes each rule of `ClauseParser` as an
expression, with the order of its alternatives, and `Ends` matches as Spirit
does: what has matched is not tried again. Words, variables and numbers are
one character each, so a keyword is never the beginning of a longer word,
and hexadecimal escapes are left out. `Repl` runs what it parses at once;
when queries run and what their errors count for is `Runtime`'s.

## 4. Runs

All state spaces are finite. Deadlock is checked in `engine_one` and in
`xdebug_session`, where it cannot be reached: a spurious wake-up or a request
is always possible. In the others a program, a branch, a query or a session
ends.

| Run | Shows |
|---|---|
| `db_both` | With parser and worker at work: list order is generation order; a scan offers what was live when it began, plus at most the one clause in flight then; it is complete, and implements `LogicalUpdateView`; a retract takes the first match; appends land and the mutex is given back. |
| `engine_one` | One worker, two queries, a barrier, any requests: types, order, the refinement of `JobQueue`, no lost wake-up, a halted job in front; jobs progress, requests resume. |
| `solver_programs` | Every program of three families (updates, cuts at two levels, nested searches with errors), and a few that are halted and stepped, is solved like the reference; cut finds its entry; every job finishes. |
| `solver_errors` | *Violation.* Errors inside `findall` are lost. |
| `runtime_texts` | Programs with imports, cycles and errors, and items typed after them, both threads: inline expansion, earlier work seen, the exit code of a program, empty queue at the end, and an end to every run. |
| `runtime_specified` | *Violation.* A program that imports itself through a file is parsed again within itself, and its parsing stops at a parse error; `SPEC.md` says otherwise of both. |
| `bindings_terms` | Along every branch of three families (goals with heads, a rule that calls itself, groups of variables that are joined) the contexts hold a most general unifier; a clash is only reported where there is none; both sides read alike; a unification ends. |
| `bindings_occurrence` | *Violation.* The same compound in two scopes unifies although its equations have no solution. |
| `xdebug_session` | An IDE that waits for its replies, two queries, one worker: replies match, tell where the job stands, miss no context, and come; no command is lost in the stream, however it is cut. |
| `loops_sources` | Every query of five families of loops, with steps that fail among them, prints, fails and succeeds as its source says; iterations are committed; queries end. |
| `loops_reuse` | *Violation.* A second loop with the variable of the first starts with it bound. |
| `repl_session` | Any four of sixteen lines, and the end of input after each: what runs is what was typed, like one file, nothing complete is held back, and success means that all of it ran. |

### Bounds, and why they are enough

* `ClauseDb`: a builtin, two facts and a rule, each appended once by one of two
  threads, and one iterator, which is built at any time and may be
  invalidated at any time. An overlap needs one append in flight, and one clause before and one
  after it. A scan writes nothing that another one reads, so a second iterator
  would add no behaviour of the first; `ClauseDbProofs` covers any number.
* `Engine`: two queries and a barrier, up to two contexts each (`MaxVisits`),
  one worker, as every tool has. Overtaking needs two jobs and the barrier; a
  halt, a request and a second halt need two visits. `EngineProofs` covers
  any number of workers.
* `Solver`: families of all programs with two rules of up to two goals, two
  levels of calls and duplicate facts, so that a cut has choice points on
  both sides, above and below, and an update meets a running scan. In the
  family of nested searches the second rule has one goal. Rules are
  not recursive, since the search of a recursive one need not end. The
  reference is given 60 searches within searches (`MaxSteps`), and none of
  these programs needs more (`MCCasesEnd`). `SearchProofs` covers every
  program whose search ends, for any `MaxSteps`.
* `Runtime`: programs of up to three events out of six, four libraries that
  import each other and the program; two texts at the prompt (`MaxTexts`).
  `runtime_specified` has the one program that shows both differences.
* `Bindings`: up to five contexts (`MaxContexts`). Two groups of two variables
  take two candidates, their join a third, a value that must reach all four a
  fourth. No branch builds a cyclic term: without an occurs check that would
  not end, in the code either.
* `XDebug`: three commands (`MaxCommands`), of seven kinds, and an IDE that
  waits for each reply (`Window = 1`), as the protocol's synchronous mode
  asks. A halt, a step and a run on need three. The kinds are those that the
  code tells apart: the other queries go the way of `status`, and `step_over`
  and names that are not known that of `incomplete`. `Window = 1` leaves out
  what an IDE meets that sends ahead, see section 6.
* `Loops`: ranges of up to `RangeMax = 3` elements and integers of four bits
  (`Half = 8`), so that ranges that are cut off, empty or too long, and a sum that
  wraps, are met; bodies of one or two statements out of nine, nested loops among
  them; steps that count, multiply, pass the smallest integer, and divide by
  zero in the second iteration. `MaxScopes = 30` is never reached by a query of the run:
  `QueryEnds` would fail there.
* `Repl`: four lines (`MaxLines`) out of sixteen, which cut items of each kind
  in the middle and have terminators and brackets in strings and comments. An
  item that is open, one that looks complete too early, the rest of it and
  one behind it are four lines. No line has a dereference `a[b`, see
  section 6.

The properties of `Repl` leave out a session that has *strayed*: in it an item
was abandoned with an empty line, or a block comment was left open before an
item. What was typed is then not what is run, and the code means it so in the
first case.

### Fairness

Threads run: a worker that is awake continues (`WF`), a submission that was
begun completes, an append inside its critical section completes, and a
thread that waits for the mutex gets it (`SF`; `boost::mutex` promises no
order, but the holder always leaves, and there are two threads). A command
that was sent is read. Nothing is assumed of what programs do next, of the
debugger, of spurious wake-ups, or of what is typed. In the debugged programs
of `solver_programs` the debugger keeps stepping: a job that is left halted
does not finish. `JobsProgress` excludes an engine that is held halted for the
same reason. A unification and a query run on one thread, which goes on
(`WF`).

## 5. Proofs

`ClauseDbProofs` proves, for any clauses, iterators and threads (under
`BuiltinsAssumption` and `ThreadsAssumption`):

* `TypeCorrect`, `OrderedGenerations`, `ViewsAlmostFrozen`, `RetractIsFirstMatch`
  and, with the parser not running, `ViewsFrozen`.
* `ScansComplete`: a scan that has reached the end has offered every clause of
  its view, once and in list order. Its invariant (`OfferInv`) says that what
  an iterator has offered is the selection, from the list before its position, of the
  clauses its snapshot shows.
* `DatabaseImplementsView`: each iterator implements `LogicalUpdateView`, with
  both threads at work. The code does not give a scan the list as it is when
  the scan begins, but it does give it the list with the clause that is stamped and not
  pushed: an append takes effect at its stamp. The sequence promised is what
  the iterator selects from these entries. A push leaves them as they are
  (`SameEntries`), a stamp adds one that is behind every snapshot taken before,
  and a retraction keeps the clause in the list, so nothing changes what was promised.
* The invariant is inductive only together with: who holds the mutex is the
  one thread inside `appendClause()`'s critical section; no stamp exceeds the
  generation; the clause in flight carries the current greatest append stamp;
  no clause is both pending and listed; and each iterator's snapshot divides
  the list into the clauses of its view, with at most one clause in flight.

`EngineProofs` proves, for any jobs, workers, submitters and requests (under
`EngineAssumption`):

* `TypeCorrect`, `InspectsHaltedJob`, `WakeupsKept`, `FirstInFirstOut` and,
  for one worker, `EngineIsQueue`: `Spec => JobQueue's Spec`, with the job in
  the worker's hands in front of the ready queue as the refinement mapping.
  Halting is a stutter there, because the job goes back to the front.
* The invariant needs: `m_nThreadsWaiting` is the number of threads asleep or
  signalled (so a zero count really means nobody sleeps); a job is in one
  place only; with one worker, finished, running and ready jobs together are
  the jobs queued, in order.

`SolverProofs` proves, for any queries, clause lists and debugger (under
`SolverAssumption`: goals and clauses have their fields, and the list that a
job finds was left by appends and retractions that counted):

* `CutFindsItsEntry`: every goal part that a context may still have to run was
  entered by exactly one context of its stack, and below. The walk in
  `performSlice()` from a cut up the parents has no test for the end of the
  chain; this is why it needs none.
* `SolverTypeCorrect`: stamps, snapshots and positions are ones the database
  has had, and a job that waits for a `findall` still has the context that
  called it.
* The invariant (`StackInv`) needs: parts below the next one to be allocated,
  so that a new one is new; no two contexts with one part; and for each frame
  of each cursor its entry below. Popping, leaving, pushing and invalidating
  contexts keep it (`PoppedStack`, `LeftStack`, `PushedStack`, `SameParts`);
  each action is then a combination of these. It also needs that of a job
  that waits the context on top has a goal left, or the return from a
  `findall` would go on from nothing.

`SearchProofs` proves `SolvesAsItMeans` (that is `SolvesLikeReference`), for any
case under the same assumption and `ReferenceAssumption` (there is a builtin,
and an atom makes something of each): if the search of the reference ends at
all within `MaxSteps`, whatever that is, the job's solutions are a beginning of
its solutions, and when the stack runs empty they are the same, with the same
live clauses and as many errors.

* First what the reference owes to the searches in it: a search that ends adds
  to the solutions it starts from and abandons no level above its own
  (`SoundSearch`), and gives what the searches in it give (`GivesCut` to
  `GivesCall`), with however many steps. From there on nothing is said of
  steps.
* Then what the data of the code stand for. A cursor spells the goals that are
  left, each with the level of its goal part (`Spells`); leaving a goal or
  entering a body spells what follows it in the reference. An iterator has the choices
  that are left (`Remaining`): the clauses of its snapshot behind its
  position, retired since then or not. An append or a retraction changes the state as the
  reference does and no walk that is under way (`ListMore`, `ListLess`).
* The invariant (`Agrees`) gives every context of every stack an *account*: the
  search it has still to make and the state it will leave. An account's search
  starts from the state that the context above will leave (`Within`), and a job
  that waits for a `findall` from what the job above will have found
  (`Waiting`); the account at the bottom ends in the meaning of the query. That the
  solutions are a beginning of the right ones is not inductive without it: it says
  nothing of what the stack still holds.
* A cut is where code and reference differ most. The code goes down the
  stack once and invalidates the iterators; the reference does what follows the cut
  and then hands a level down, past each call that is abandoned. `CutHandedDown`
  follows the level from the top to the context that entered the goal part,
  and `PrunedStack` is left with accounts in which each of them only passes
  the state on. The contexts above the caller and below the cut were called at greater
  depths (`DepthsGrow`), so none of them can take the cut for its own.
* `IInv` of `SolverProofs` is needed throughout: without `CutFindsEntry` there
  is no context to hand the level to, and without the order of stamps a new
  clause could slip into an old walk.

`RuntimeProofs` proves, for any files, command lines and typed items (under
`CorporaAssumption`: files hold events, and the program can be opened):

* `TypeCorrect`, `SearchesSeeEarlierWork` and `QueueEmptyAtTheEnd`.
* The invariant needs: the jobs finished and pending are the numbers
  1 to `Len(jobs)` in order, so that a running job is the first unfinished
  one and what it asserts is of no job ahead of it; a job has seen no more
  than was listed when it was submitted; the queue is empty at the prompt,
  where `Len(done) = Len(jobs)` was observed and nothing is submitted.
* `ExitCodeOfPrograms`: run on one program, with nothing typed after it,
  `unify-run` returns 1 exactly if an error was met. It assumes that a program
  is not also a text that is typed (`Programs \cap Typed = {}`), since the
  history tells the two apart by it. The invariant follows an error from the
  call of `parseExecuteSegment()` that met it, through what the outermost one
  returned, to one of the two counts that `main()` reads, and says that no
  other thread touches the third.

It also proves `ImportsAreInlined` (that is `InlineImports`, under
`CorporaAssumption` and `FilesAssumption`: there are finitely many files):

* The expansion is defined by recursion through the files, which may import
  each other in circles, so the first thing proved is that the definition
  defines something (`ExpansionIs`). From any places in files, one is last:
  behind it, and in what it imports, none of the others is met (`LastPlace`),
  because an import either adds to the once-set or is passed over. Two
  functions that satisfy the definition therefore agree (the last place where
  they differ would have to agree), and one exists (from any partial one, more
  can be defined). Had `processImport()` no once-set this would fail, and with
  it the parser would not end.
* The invariant (`ImportInv`) gives each call of `parseExecuteSegment()` under
  way what there will be when it returns: what has been parsed so far, the
  expansion from its place on, and its errors. For the outermost of them this is the
  expansion of all the texts, and for the innermost what has been parsed.
  Passing an event, calling for an import and returning from it move items,
  files and errors from one to the other and leave the outermost alone
  (`TopChanged`, `Pushed`, `Popped`).
* What has been parsed is read off the clause list and the jobs, past whatever
  the worker has asserted meanwhile and the barriers; each query with the
  clauses it saw when it was submitted.

`BindingsProofs` proves, for any terms and candidates:

* `ValuesAreNoVariables`: an instance id is never bound to a variable, so that
  one look-up along the chain ends at a term (`getBoundTerm()` looks no
  further), and `BindingsTypeCorrect`.
* The invariant needs the scopes of bound terms to be scopes of contexts that
  were made, and a unification under way to have a context below its own, so
  that dropping a candidate leaves one.
* `ClashesHaveNoSolution` and `BindingsAreTheSolution` are about *readings*. A
  reading `J` gives each term in each scope a value, such that compounds are
  read alike exactly if they have one kind and shape and their parts are read
  alike. It need not be a
  term: any domain with that property will do. `Solves(J)` says that `J` reads
  both sides of every equation of the branch alike, `BindingsHold(J)` that it
  reads variables of one id alike and like the term the id is bound to. Whenever no
  unification is under way, a reading that solves the equations respects the
  bindings, so the bindings claim no more than the equations do; and, unless the
  branch is lossy, a reading that respects the bindings solves the
  equations, so they claim no less. That is what makes them most general.
  `UnifyNot` is only reached in a branch that no reading solves.
* Their invariant (`MeaningInv`) says this for each depth of the chain, with
  the equations that are still in `todo` counted in, and with the bindings
  that contexts above hide kept apart: dropping the top context must leave the meaning of
  the ones below as it was.

`XDebugProofs` proves, for any commands, reads, jobs and workers in which the
engine takes the two requests the controller makes
(`{"START", "STEP_INTO"} \subseteq Requests`):

* `SessionRunsEngine`: `SpecSession => Spec` of `Engine`, so every theorem of
  `EngineProofs` holds under the debugger; and `SessionTypeCorrect`.
* `NoCommandLost`, for an IDE that waits for its replies (`Window = 1`): the
  pieces on their way, those read and the command in execution are together
  one command, so the terminator at which `consumeInput()` leaves its loop is
  always the last piece of a read.
* `NoContextSkipped`, for such an IDE and one worker: a job that is stepped
  halts at each context, in order. The invariant (`StepInv`) says that a job
  once halted keeps the place of its halt until a slice takes it on, and that a slice which
  was asked to step has run no context since.
* `EveryReplyIsAnAnswer` (each reply carries the id of a command and the name
  that command is answered with, and no command has two) and
  `HaltsReportedInPlace`, for such an IDE and one worker: the invariant says which of the stream, the reader, the controller,
  the engine's target or the listener holds the one command that is not
  answered, and that an engine nobody has asked to run halts nowhere.

Only model-checked:

* what the recursive references over terms and texts say: `SolvesEquations`
  and `FailsOnlyWithoutSolution` (of which the two theorems on readings are
  the counterparts), and the properties of `Loops` and `Repl`. What recursive
  operators compute (`BindingsReference`, `Desugar`, `LoopsReference`,
  `Grammar`, `Repl`, `ReplReference`) can only be compared on bounded inputs,
  and those of `Repl` moreover hold for the sixteen kinds of lines of its run:
  a line with a dereference breaks them (section 6). `RuntimeReference` and
  `SolverReference` are the exceptions: they are written with recursive
  functions, of the files left to import and of a number of steps, and there
  induction is on numbers;
* all liveness: fairness and `ENABLED` are outside what the provers handle.

Only proved: `FirstInFirstOut`, which on the instance of `engine_one` follows
from `ImplementsJobQueue`, and `FrozenView`, which with the parser not running
says of a whole scan what `ImplementsLogicalUpdateView` says of its steps.

## 6. Where the code and its documents part

With a run:

1. `ROADMAP.md` says errors drive the exit code. Those of a `findall` do not
   (`solver_errors`).
2. A comment in `unifyConsTerm()` (`vault-unify-term-cons.cpp:61`) says no
   compound term is met in two scopes. A head with two uses is; it is taken to
   be equal to itself, and a unification that has no solution succeeds
   (`bindings_occurrence`).
3. A comment in the parser (`vault-unify-parser.cpp:1328`) says the variable of
   a loop starts unbound. It belongs to the enclosing scope, where the first
   loop has bound it: a second one with the same variable starts with it bound
   (`loops_reuse`).
4. `SPEC.md` 15.2 (line 2117) and the comment in `processImport()`
   (`vault-unify-runtime-context.cpp:276`) say that a file that transitively
   imports itself is not parsed again. `processImport()` is the only place that fills
   the once-set, so the program itself is not in it and is parsed again within
   itself (`runtime_specified`).
5. `SPEC.md` 15.4 (line 2158) says parsing goes on after a parse error. The
   loop of `parseExecuteSegment()` is left (`runtime_specified`).

Of 4 and 5 `InlineImports` and the theorem `ImportsAreInlined` state the rule
that the code does follow: only what is imported is parsed once, and a text
ends at its first error. `ProgramEnds` says that the program is met again
once and not for ever.

Met while modelling; the models have the behaviour of the code, and a property
or a theorem says what holds instead:

* `SPEC.md:1801` promises every scan a frozen view of the list. `appendClause()`
  stamps before it pushes, so a scan that starts in between is offered the new
  clause although the list did not have it. `AtMostOneStraggler` is what
  holds, and `ImplementsLogicalUpdateView`, where that clause counts as one
  that was there.
* The comment at `vault-unify-engine.cpp:333` says a request is remembered
  while no job is ready. The halt of the running job overwrites it.
  `RequestResumes` is what holds.
* `LANGUAGE.md:198` says a query only sees what is written above it. It sees
  what is parsed by the time it starts. `SeesEarlierWork` is what holds: never
  less than is written above it.
* `unify-repl.cpp:347` says its counter needs no lock. Both threads add to it.
  `ProgramExitCodeTells` is what holds: without the prompt no error is lost.
* The comment on `~RuntimeContext()` says the worker is idle by then. The
  barrier's `onFinished()` comes before the worker lets go of the job
  (`DropJob`), so `main()` may return in between.
* Two groups of variables that are joined with neither having a value
  (`vault-unify-term-var.cpp:338`): only the variable passed as `pOther` is given
  this one's id, and those that shared its id stay behind. `Bindings` marks the
  context `lossy`, and `SolvesEquations` says nothing of such a branch.
* `SPEC.md` 12.2 (line 1489) says a failing step ends a `for`. The step is
  behind the cut, so the fallback fact is gone and the statement fails.
  `LoopsReference` states this as it is, for steps that divide by zero. The
  goals that are put before a step's terms are dropped: `Desugar` drops them
  too, and the steps of the runs have no such terms.
* The number of elements of a range is computed in 64 bits
  (`vault-unify-clause-builtin-arith.cpp:478`): one that is wide enough wraps
  passes for an empty one, though its elements exceed the cap.
* `INT64_MIN / -1` traps (`vault-unify-clause-builtin-arith.cpp:156`). No query
  of the runs gets there.
* `LANGUAGE.md:97` says that what is typed counts as if it were appended to one
  file. Not so: a block comment that is open at the beginning of an item is
  dropped (`unify-repl.cpp:672`), so of the lines `/*`, `p;`, `// */` the second
  one is read as source, and the session ends with success; an empty line
  abandons an item within a string or a rule, but not within a comment
  (line 589); `a[b`, which the grammar takes (`vault-unify-parser.hpp:721`), is
  never complete at the prompt; a `:load` that cannot be read is no error.
  `RunsWhatIsTyped` and `LikeOneFile` hold of the sessions that have not
  strayed.
* An IDE that sends a command before the reply to the last one loses commands
  (`vault-unify-xdebug-context.cpp:131` leaves its loop at the first
  terminator), gets replies with the wrong id (`vault-unify-xdebug.cpp:691`
  reads the last id again without the lock), changes with a `run` the target of
  a slice that runs (line 375), has a `step_into` forgotten without a reply
  (line 515), and can have its request overtake the notification of a halt
  (`vault-unify-engine.cpp:184`). `XDebug` has all these steps, but the run and
  the theorems are about `Window = 1`, where none of this happens: no property
  covers it.
* `step_over` is never executed: the branch that calls `stepOver()`
  (`vault-unify-xdebug.cpp:538`) compares with `step_into` a second time.
* `stack_get` is answered with `command="status"`
  (`vault-unify-xdebug-context.cpp:327`), so an IDE can only tell the reply by its
  id. `RepliesMatch` says which name goes with which command.
* A command without an option that it needs is dropped without a reply
  (`vault-unify-xdebug.cpp:465` and the like), and so is one that is not known.
* A variable that is bound into a term that holds it makes the next
  unification endless (`vault-unify-unifycontext.cpp:255` has no occurs check).
  `UnificationEnds` is about branches that build no such term.

## 7. Not modelled

* Bindings: the copies that `assert` and `findall` make of their terms, and the
  composition with `Solver`, whose goals are ground.
* Builtins: those on strings, the lexicographic comparison and the text that
  `print` makes. They keep no state and call nothing.
* Desugaring: `findall`, `concat` and `strlen`, negated goals in the queries of
  `Loops`, and the errors that a factory reports.
* Grammar: the attributes of the rules; only what is accepted, and how far.
* Engine: user events, and jobs that block, which no job does.
* Debugger: the socket loop, and what a reply says beyond id, name and place.
* Prompt: line editing, history and what is printed.
* The ownership of heap objects, term debug information, and the destructors
  but for when they may run.
* The legacy iterator headers, which nothing includes, and the plans under
  `src/plans`, which are for a program that is not written.
