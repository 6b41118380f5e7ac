------------------------------- MODULE Solver -------------------------------
(***************************************************************************)
(* SolveJob::performSlice(): the depth-first search of one job, on the     *)
(* worker thread.  A step is one turn of its loop: the top SolveContext is *)
(* looked at, and is popped, pruned, or tried with its next clause.        *)
(*                                                                         *)
(* Goals are ground.  An atom is a predicate (name and arity) with one     *)
(* argument, unification is equality, and a UnifyContext is the path of    *)
(* clauses that led to it; what variables do is not modelled here.  A      *)
(* context is pushed by the one on top, so its m_parentSolveContext is the *)
(* stack entry below it.  A nested findall search is a second job that     *)
(* runs on top of the one that waits for it.                               *)
(***************************************************************************)
EXTENDS Naturals, Sequences, SequencesExt, FiniteSets

CONSTANTS
  Cases,        \* the runs of a job: a clause list, a goal and the debug
                \* target states the job may be given
  Ground,       \* the atoms without a free variable
  Outcome,      \* what a builtin makes of an atom: "last", "not" or "error"
  None          \* no goal part

IsRetired(c) == c.retireGen # 0

\* m_mutationGeneration, when every append and every retraction has counted.
GenerationOf(list) == Len(list) + Cardinality({k \in 1..Len(list) : IsRetired(list[k])})

\* A clause is retired after it was appended, and neither is still to come.
WellStamped(list, gen) ==
  \A k \in 1..Len(list) :
    /\ list[k].appendGen \in 1..gen
    /\ list[k].retireGen \in 0..gen
    /\ IsRetired(list[k]) => list[k].appendGen < list[k].retireGen

\* The goals of the queries and of the clauses, and the atoms of the heads.
CaseGoals ==
  UNION {Range(c.query) \cup UNION {Range(c.db[k].body) : k \in DOMAIN c.db} : c \in Cases}
CaseHeads == UNION {{c.db[k].head : k \in DOMAIN c.db} : c \in Cases}

\* The case of a job is a query, and a clause list that a parser and earlier
\* jobs have left.
ASSUME SolverAssumption ==
  /\ None \notin Nat
  /\ \A c \in Cases :
       /\ c.query \in Seq(CaseGoals)
       /\ c.db \in Seq([head : CaseHeads, body : Seq(CaseGoals), builtin : BOOLEAN,
                        appendGen : Nat, retireGen : Nat])
       /\ WellStamped(c.db, GenerationOf(c.db))

VARIABLES
  db,           \* m_listClauses
  generation,   \* World::m_mutationGeneration
  jobs,         \* the job, and the nested jobs of findall() on top of it
  running,      \* whether performSlice() is on the stack
  sliceCount,   \* m_sliceCount of the job: 0, 1, or 2 for more
  target,       \* m_debugTargetState of the job
  jobState,     \* Job::m_state of the job
  nextPart,     \* the goal parts allocated so far
  recorded,     \* history: the calls of recordError(), on whichever job
  given         \* history: the case of the job

sliceVars == <<running, sliceCount, target, jobState>>
dbVars == <<db, generation>>
vars == <<dbVars, jobs, sliceVars, nextPart, recorded, given>>

-----------------------------------------------------------------------------
(* Clauses and their iterators.                                            *)

Visible(c, gen) == c.appendGen <= gen /\ ~(IsRetired(c) /\ c.retireGen <= gen)

NewIterator(gen) == [pos |-> 1, snapshot |-> gen, invalidated |-> FALSE]

\* isValid() moves on to the first of these.
Candidates(it) == {k \in it.pos..Len(db) : Visible(db[k], it.snapshot)}
IsValid(it) == ~it.invalidated /\ Candidates(it) # {}
GetClause(it) == CHOOSE k \in Candidates(it) : \A n \in Candidates(it) : k <= n

-----------------------------------------------------------------------------
(* Goal parts, cursors and contexts.                                       *)

\* normalize(): frames that have no term left are stepped out of.
Normalize(cs) ==
  LET left == {k \in 1..Len(cs) : cs[k].rest # <<>>}
  IN  IF left = {} THEN <<>> ELSE SubSeq(cs, Min(left), Len(cs))

\* GoalPartCursor::next().
NextTerm(cs) == Normalize(<<[cs[1] EXCEPT !.rest = Tail(@)]>> \o Tail(cs))

\* The cursor of a new goal part whose parent goes on after the current term.
EnterBody(cs, part, body) == <<[part |-> part, rest |-> body]>> \o NextTerm(cs)

\* new SolveContext(): its iterator starts at the generation of this moment.
NewContext(part, cursor, uc, gen) ==
  [part |-> part, cursor |-> cursor, uc |-> uc, it |-> NewIterator(gen),
   visits |-> 0]

\* startJob().
NewJob(goals, part, gen) ==
  [stack |-> <<NewContext(part, Normalize(<<[part |-> part, rest |-> goals]>>),
                          <<>>, gen)>>,
   solutions |-> <<>>, errors |-> 0]

\* The root context is built when the query is parsed, at any generation up to
\* the one the job finds when it runs.
Init ==
  /\ given \in Cases
  /\ db = given.db
  /\ generation = GenerationOf(db)
  /\ \E gen \in 0..generation : jobs = <<NewJob(given.query, 0, gen)>>
  /\ running = FALSE
  /\ sliceCount = 0
  /\ target = "REGULAR"
  /\ jobState = "CREATED"
  /\ nextPart = 1
  /\ recorded = 0

-----------------------------------------------------------------------------
(* One turn of the loop.                                                   *)

Top == Last(jobs)

\* A slip: the root context keeps the iterator it was built with.
VisitedStale(job) ==
  LET sc == Last(job.stack) IN [sc EXCEPT !.visits = IF @ = 0 THEN 1 ELSE 2]

\* The top context as the turn sees it: its visit is counted, and the first
\* visit of a root context replaces its iterator.
Visited(job) ==
  LET sc == Last(job.stack) IN
  [sc EXCEPT !.visits = IF @ = 0 THEN 1 ELSE 2,
             !.it = IF Len(job.stack) = 1 /\ sc.visits = 0
                      THEN NewIterator(generation) ELSE @]

\* A nested job is never handed to a debugger.
TargetState == IF Len(jobs) = 1 THEN target ELSE "REGULAR"

Halts(sc) ==
  \/ sliceCount = 1 /\ TargetState = "START"
  \/ sc.visits = 1 /\ TargetState = "STEP_INTO"

Stops == sliceCount = 1 /\ TargetState \in {"STOP", "DETACH"}

InLoop == running /\ Top.stack # <<>>
AtGoal(sc) == InLoop /\ sc.cursor # <<>> /\ ~Halts(sc) /\ ~Stops
CurrentGoal(sc) == Head(sc.cursor[1].rest)

\* The turn reaches the special forms, and the current goal is one.
AtSpecial(sc, op) == AtGoal(sc) /\ IsValid(sc.it) /\ CurrentGoal(sc).op = op

\* The top context is left as sc, with these contexts pushed on it.
Leave(sc, children) ==
  jobs' = [jobs EXCEPT ![Len(jobs)].stack = Front(@) \o <<sc>> \o children]

Invalidated(sc) == [sc EXCEPT !.it.invalidated = TRUE]

\* A slip: it is taken for the one that entered the goal part.
ContinueSamePart(sc, uc, gen) ==
  <<NewContext(sc.part, NextTerm(sc.cursor), uc, gen)>>

\* The context that goes on after the current term of sc.
Continue(sc, uc, gen) == <<NewContext(None, NextTerm(sc.cursor), uc, gen)>>

\* The engine hands the job a target state and calls performSlice().
BeginSlice(t) ==
  /\ ~running
  /\ jobState # "FINISHED"
  /\ running' = TRUE
  /\ sliceCount' = IF sliceCount = 0 THEN 1 ELSE 2
  /\ target' = t
  /\ UNCHANGED <<dbVars, jobs, jobState, nextPart, recorded, given>>

\* No goal is left in the entire chain: a solution.
EmitSolution ==
  LET sc == Visited(Top) IN
  /\ InLoop
  /\ sc.cursor = <<>>
  /\ jobs' = [jobs EXCEPT ![Len(jobs)].stack = Front(@),
                          ![Len(jobs)].solutions = Append(@, sc.uc)]
  /\ UNCHANGED <<dbVars, sliceVars, nextPart, recorded, given>>

\* A slip: the visit that halts is not counted.
DebugHaltUncounted ==
  LET sc == Visited(Top) IN
  /\ InLoop
  /\ sc.cursor # <<>>
  /\ Halts(sc)
  /\ running' = FALSE
  /\ jobState' = "DEBUGHALTED"
  /\ UNCHANGED <<dbVars, jobs, sliceCount, target, nextPart, recorded, given>>

\* START halts a job at once, STEP_INTO at the first visit of a context.
DebugHalt ==
  LET sc == Visited(Top) IN
  /\ InLoop
  /\ sc.cursor # <<>>
  /\ Halts(sc)
  /\ Leave(sc, <<>>)
  /\ running' = FALSE
  /\ jobState' = "DEBUGHALTED"
  /\ UNCHANGED <<dbVars, sliceCount, target, nextPart, recorded, given>>

\* STOP and DETACH finish the job, with its stack as it is.
DebugStop ==
  LET sc == Visited(Top) IN
  /\ InLoop
  /\ sc.cursor # <<>>
  /\ Stops
  /\ Leave(sc, <<>>)
  /\ running' = FALSE
  /\ jobState' = "FINISHED"
  /\ UNCHANGED <<dbVars, sliceCount, target, nextPart, recorded, given>>

\* discardTop(): no clause is left to try.
Exhausted ==
  LET sc == Visited(Top) IN
  /\ AtGoal(sc)
  /\ ~IsValid(sc.it)
  /\ jobs' = [jobs EXCEPT ![Len(jobs)].stack = Front(@)]
  /\ UNCHANGED <<dbVars, sliceVars, nextPart, recorded, given>>

\* cut: the context that entered the goal part of the cut is looked for, and
\* every iterator from the top down to the one below it, which chose the
\* clause, is invalidated.
CallCut ==
  LET sc == Visited(Top)
      stack == Front(Top.stack) \o <<sc>>
      owner == CHOOSE k \in 1..Len(stack) : stack[k].part = sc.cursor[1].part
      entry == IF owner = 1 THEN 1 ELSE owner - 1
  IN
  /\ AtSpecial(sc, "cut")
  /\ jobs' = [jobs EXCEPT ![Len(jobs)].stack =
       [k \in 1..Len(stack) |-> IF k < entry THEN stack[k] ELSE Invalidated(stack[k])]
         \o Continue(sc, sc.uc, generation)]
  /\ UNCHANGED <<dbVars, sliceVars, nextPart, recorded, given>>

\* findall(): a nested job is started on the subgoal.
CallFindall ==
  LET sc == Visited(Top) IN
  /\ AtSpecial(sc, "findall")
  /\ jobs' = Append([jobs EXCEPT ![Len(jobs)].stack = Front(@) \o <<sc>>],
                    NewJob(<<[op |-> "call", atom |-> CurrentGoal(sc).atom]>>,
                           nextPart, generation))
  /\ nextPart' = nextPart + 1
  /\ UNCHANGED <<dbVars, sliceVars, recorded, given>>

\* The nested search is exhausted.  The array of its solutions is unified with
\* the output argument: a free variable, or an array of some length.  What the
\* nested job recorded is dropped with it.
ReturnFindall ==
  LET n == Len(jobs) - 1
      sc == Last(jobs[n].stack)
      found == Len(Top.solutions)
      out == CurrentGoal(sc).out
  IN
  /\ running /\ Top.stack = <<>> /\ n > 0
  /\ jobs' = [SubSeq(jobs, 1, n) EXCEPT ![n].stack =
       Front(@) \o <<Invalidated(sc)>>
         \o (IF out \in {None, found}
               THEN Continue(sc, Append(sc.uc, 0), generation) ELSE <<>>)]
  /\ UNCHANGED <<dbVars, sliceVars, nextPart, recorded, given>>

\* assert(): a ground fact is appended; any other argument is an error.
CallAssert ==
  LET sc == Visited(Top)
      a == CurrentGoal(sc).atom
      fact == [head |-> a, body |-> <<>>, builtin |-> FALSE,
               appendGen |-> generation + 1, retireGen |-> 0]
  IN
  /\ AtSpecial(sc, "assert")
  /\ IF a \in Ground
       THEN /\ db' = Append(db, fact)
            /\ generation' = generation + 1
            /\ Leave(Invalidated(sc), Continue(sc, sc.uc, generation'))
            /\ UNCHANGED recorded
       ELSE /\ jobs' = [jobs EXCEPT
                 ![Len(jobs)].stack = Front(@) \o <<Invalidated(sc)>>,
                 ![Len(jobs)].errors = @ + 1]
            /\ recorded' = recorded + 1
            /\ UNCHANGED dbVars
  /\ UNCHANGED <<sliceVars, nextPart, given>>

\* A fact of the database that retract() may take for an atom.
Retractable(c, a) == ~IsRetired(c) /\ ~c.builtin /\ c.body = <<>> /\ c.head = a

\* retract(): the first match is retired, and no second one is looked for.
CallRetract ==
  LET sc == Visited(Top)
      a == CurrentGoal(sc).atom
      matches == {k \in 1..Len(db) : Retractable(db[k], a)}
      k == CHOOSE n \in matches : \A m \in matches : n <= m
  IN
  /\ AtSpecial(sc, "retract")
  /\ IF matches = {}
       THEN Leave(Invalidated(sc), <<>>) /\ UNCHANGED dbVars
       ELSE /\ db' = [db EXCEPT ![k].retireGen = generation + 1]
            /\ generation' = generation + 1
            /\ Leave(Invalidated(sc), Continue(sc, sc.uc, generation'))
  /\ UNCHANGED <<sliceVars, nextPart, recorded, given>>

\* startUnification() and getUnificationResult(): the name is compared first;
\* a negated goal turns the outcome round when a clause of its predicate was
\* found at all.
Unified(c, a) ==
  IF c.head[1] # a[1] THEN "not"
  ELSE IF c.builtin THEN Outcome[a]
  ELSE IF c.head = a THEN "last" ELSE "not"

UnificationResult(c, g) ==
  IF g.op # "not" \/ Unified(c, g.atom) = "error" THEN Unified(c, g.atom)
  ELSE IF Unified(c, g.atom) = "not" /\ c.head[1] = g.atom[1] THEN "last"
  ELSE "not"

\* The next clause is tried on the current goal, which is called or negated.
\* Only a clause that unified brings in its body.
TryClause ==
  LET sc == Visited(Top)
      g == CurrentGoal(sc)
      k == GetClause(sc.it)
      result == UnificationResult(db[k], g)
      uc == Append(sc.uc, k)
      left == [sc EXCEPT !.it.pos = k + 1]
      haveNewGoal == result = "last" /\ g.op = "call" /\ db[k].body # <<>>
  IN
  /\ AtGoal(sc) /\ IsValid(sc.it) /\ g.op \in {"call", "not"}
  /\ CASE haveNewGoal ->
            Leave(left, <<NewContext(nextPart, EnterBody(sc.cursor, nextPart, db[k].body),
                                     uc, generation)>>)
       [] result = "last" /\ ~haveNewGoal -> Leave(left, Continue(sc, uc, generation))
       [] result = "not" -> Leave(left, <<>>)
       [] OTHER ->
            jobs' = [jobs EXCEPT ![Len(jobs)].stack = Front(@) \o <<left>>,
                                 ![Len(jobs)].errors = @ + 1]
  /\ nextPart' = nextPart + (IF haveNewGoal THEN 1 ELSE 0)
  /\ recorded' = recorded + (IF result = "error" THEN 1 ELSE 0)
  /\ UNCHANGED <<dbVars, sliceVars, given>>

\* The stack of the job is empty.
FinishJob ==
  /\ running /\ Len(jobs) = 1 /\ Top.stack = <<>>
  /\ running' = FALSE
  /\ jobState' = "FINISHED"
  /\ UNCHANGED <<dbVars, jobs, sliceCount, target, nextPart, recorded, given>>

-----------------------------------------------------------------------------

Turn ==
  \/ EmitSolution \/ DebugHalt \/ DebugStop \/ Exhausted
  \/ CallCut \/ CallFindall \/ ReturnFindall \/ CallAssert \/ CallRetract
  \/ TryClause \/ FinishJob

Next == Turn \/ \E t \in given.targets : BeginSlice(t)

Spec == Init /\ [][Next]_vars

\* The worker goes on with the slice, and a halted job is given another: the
\* engine takes it when the debugger asks for the next step.
FairSpec == Spec /\ WF_vars(Turn) /\ WF_vars(\E t \in given.targets : BeginSlice(t))

-----------------------------------------------------------------------------
(* Properties.                                                             *)

Finished == jobState = "FINISHED"

\* Every stamp, snapshot and position is one the database has had, a clause is
\* retired after it was appended, and only the job on top may have run dry: one
\* that waits for a findall() still has the context that called it.
TypeOK ==
  /\ WellStamped(db, generation)
  /\ running \in BOOLEAN
  /\ sliceCount \in 0..2
  /\ target \in given.targets \cup {"REGULAR"}
  /\ jobState \in {"CREATED", "DEBUGHALTED", "FINISHED"}
  /\ Len(jobs) > 0
  /\ \A n \in 1..Len(jobs) :
       /\ n < Len(jobs) => jobs[n].stack # <<>>
       /\ \A k \in 1..Len(jobs[n].stack) :
            LET sc == jobs[n].stack[k] IN
            /\ sc.it.snapshot \in 0..generation
            /\ sc.it.pos \in 1..(Len(db) + 1)
            /\ sc.visits \in 0..2

\* Every goal part a context may still have to run, the current one and those
\* it returns to, was entered by exactly one context of the stack, and that
\* one is not above it.  The walk of cut up the parents has no test for the
\* end of the chain: it relies on this, now and after every return.
CutFindsEntry ==
  \A n \in 1..Len(jobs) : \A k \in 1..Len(jobs[n].stack) :
    LET stack == jobs[n].stack  cursor == stack[k].cursor IN
    \A f \in 1..Len(cursor) :
      /\ \E m \in 1..k : stack[m].part = cursor[f].part
      /\ Cardinality({m \in 1..Len(stack) : stack[m].part = cursor[f].part}) = 1

\* SPEC.md section 7 and ROADMAP.md Phase 1: an error is recorded on the job
\* and drives the exit code of unify-run, which reads the error count of the
\* job that has finished.
ErrorsReported == Finished => jobs[1].errors = recorded

\* A program whose rules are not recursive is searched to the end, although
\* what it asserts is appended to the list its searches walk.
JobFinishes == <>Finished

=============================================================================
