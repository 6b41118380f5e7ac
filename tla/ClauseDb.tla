------------------------------ MODULE ClauseDb ------------------------------
(***************************************************************************)
(* The clause database of the Unify engine: the one list of clauses of the *)
(* root ExecutionState, the World's mutation generation that stamps every  *)
(* append and every retraction, the mutex its writers share, and the       *)
(* clause iterators that read both without taking that mutex.              *)
(*                                                                         *)
(* Two threads touch it.  The parser thread appends what it parses.  The   *)
(* worker thread appends what a program asserts, retires what it retracts, *)
(* and is the only one that scans.  A step of the module is one access to  *)
(* shared state, so that every interleaving of the unlocked reader with a  *)
(* writer inside its critical section is a behaviour.                      *)
(*                                                                         *)
(* A clause is an opaque identity here: a Clause object is appended at     *)
(* most once in its life and is never erased, only retired.                *)
(***************************************************************************)
EXTENDS Naturals, Sequences, FiniteSets, Selections

CONSTANTS
  Clauses,      \* the Clause objects that may ever exist
  Builtins,     \* the clauses World::init() appends, in that order
  Facts,        \* the standard clauses without a body: what retract() takes
  Iterators,    \* the ClauseIterators of one run
  Threads,      \* the threads that run, among Parser and Worker
  Parser,
  Worker,
  None          \* no thread, no clause

BuiltinSet == {Builtins[k] : k \in 1..Len(Builtins)}

\* At least one builtin is registered before any thread can see the list.
ASSUME BuiltinsAssumption ==
  /\ Builtins \in Seq(Clauses)
  /\ Builtins # <<>>
  /\ \A j, k \in 1..Len(Builtins) : Builtins[j] = Builtins[k] => j = k
  /\ Facts \subseteq Clauses
  /\ Facts \cap BuiltinSet = {}

ASSUME ThreadsAssumption ==
  /\ Worker \in Threads
  /\ Threads \subseteq {Parser, Worker}
  /\ Parser # Worker
  /\ None \notin Threads
  /\ None \notin Clauses

VARIABLES
  listClauses,      \* m_listClauses
  generation,       \* World::m_mutationGeneration
  appendGen,        \* Clause::m_appendGeneration, 0 until stamped
  retireGen,        \* Clause::m_retireGeneration
  isRetired,        \* the clauses whose m_isRetired is set
  clauseDbMutex,    \* the thread that holds the mutex, or None
  pc,               \* what each thread is doing
  pending,          \* the clause a thread is appending
  retractMatch,     \* the facts whose head the running retract() unifies with
  retractPos,       \* where the running retract() stands in the list
  iterState,        \* "none", "scan", "end" or "invalidated"
  snapshotGen,      \* ClauseIterator::m_snapshotGen
  itClause,         \* ClauseIterator::m_itClause, a position in the list
  view,             \* history: the live clauses when the iterator was built
  inFlight,         \* history: the clause stamped but not yet listed then
  offered           \* history: the clauses the iterator has offered

dbVars    == <<listClauses, generation, appendGen, retireGen, isRetired>>
lockVars  == <<clauseDbMutex, pc, pending>>
scanVars  == <<retractMatch, retractPos>>
iterVars  == <<iterState, snapshotGen, itClause, view, inFlight, offered>>
vars == <<dbVars, lockVars, scanVars, iterVars>>

-----------------------------------------------------------------------------

Listed == {listClauses[k] : k \in 1..Len(listClauses)}

\* The clauses that exist as objects nobody has handed to appendClause() yet.
Unappended == Clauses \ (Listed \cup {pending[t] : t \in Threads})

\* A slip: a tombstone hides its clause from searches that started before it.
VisibleUntilRetired(c, gen) == appendGen[c] <= gen /\ c \notin isRetired

\* The visibility test of ClauseIterator::isValid(), for a snapshot generation.
Visible(c, gen) ==
  /\ appendGen[c] <= gen
  /\ ~(c \in isRetired /\ retireGen[c] <= gen)

\* The clause one thread has stamped and not pushed yet, or None.
Stamped ==
  IF \E t \in Threads : pc[t] = "stamped"
    THEN pending[CHOOSE t \in Threads : pc[t] = "stamped"]
    ELSE None

\* A slip: the last clause is taken for the end.
AdvanceShort(i) ==
  /\ iterState' = [iterState EXCEPT ![i] =
                     IF itClause[i] + 1 < Len(listClauses) THEN "scan" ELSE "end"]
  /\ itClause' = [itClause EXCEPT ![i] = @ + 1]

\* ++m_itClause: the state and the position the iterator is in afterwards.
\* The list's end is a sentinel: an iterator that reached it stays there
\* whatever is pushed later.
Advance(i) ==
  /\ iterState' = [iterState EXCEPT ![i] =
                     IF itClause[i] < Len(listClauses) THEN "scan" ELSE "end"]
  /\ itClause' = [itClause EXCEPT ![i] = @ + 1]

-----------------------------------------------------------------------------

Init ==
  /\ listClauses = Builtins
  /\ generation = Len(Builtins)
  /\ appendGen = [c \in Clauses |->
                    IF c \in BuiltinSet
                      THEN CHOOSE k \in 1..Len(Builtins) : Builtins[k] = c
                      ELSE 0]
  /\ retireGen = [c \in Clauses |-> 0]
  /\ isRetired = {}
  /\ clauseDbMutex = None
  /\ pc = [t \in Threads |-> "idle"]
  /\ pending = [t \in Threads |-> None]
  /\ retractMatch = {}
  /\ retractPos = 0
  /\ iterState = [i \in Iterators |-> "none"]
  /\ snapshotGen = [i \in Iterators |-> 0]
  /\ itClause = [i \in Iterators |-> 0]
  /\ view = [i \in Iterators |-> {}]
  /\ inFlight = [i \in Iterators |-> None]
  /\ offered = [i \in Iterators |-> <<>>]

-----------------------------------------------------------------------------
(* appendClause(): parse-time clauses on the parser thread, assert() on    *)
(* the worker.                                                             *)

\* The call, up to the wait for the mutex.  assert() only makes facts.
AppendCall(t, c) ==
  /\ pc[t] = "idle"
  /\ c \in Unappended
  /\ t = Worker => c \in Facts
  /\ pc' = [pc EXCEPT ![t] = "appending"]
  /\ pending' = [pending EXCEPT ![t] = c]
  /\ UNCHANGED <<dbVars, clauseDbMutex, scanVars, iterVars>>

\* A slip: the lock placeholder that appendClause() once had, in a comment.
AppendLockMissing(t) ==
  /\ pc[t] = "appending"
  /\ pc' = [pc EXCEPT ![t] = "locked"]
  /\ UNCHANGED <<dbVars, clauseDbMutex, pending, scanVars, iterVars>>

AppendLock(t) ==
  /\ pc[t] = "appending"
  /\ clauseDbMutex = None
  /\ clauseDbMutex' = t
  /\ pc' = [pc EXCEPT ![t] = "locked"]
  /\ UNCHANGED <<dbVars, pending, scanVars, iterVars>>

\* A slip: the stamp is the generation before the increment.
AppendStampStale(t) ==
  /\ pc[t] = "locked"
  /\ generation' = generation + 1
  /\ appendGen' = [appendGen EXCEPT ![pending[t]] = generation]
  /\ pc' = [pc EXCEPT ![t] = "stamped"]
  /\ UNCHANGED <<listClauses, retireGen, isRetired, clauseDbMutex, pending,
                 scanVars, iterVars>>

\* setAppendGeneration( bumpGeneration() ): the generation moves first.
AppendStamp(t) ==
  /\ pc[t] = "locked"
  /\ generation' = generation + 1
  /\ appendGen' = [appendGen EXCEPT ![pending[t]] = generation + 1]
  /\ pc' = [pc EXCEPT ![t] = "stamped"]
  /\ UNCHANGED <<listClauses, retireGen, isRetired, clauseDbMutex, pending,
                 scanVars, iterVars>>

\* Slips: the mutex is kept on return, or the clause pointer is cleared before
\* it is pushed.
AppendPushKeepsMutex(t) ==
  /\ pc[t] = "stamped"
  /\ listClauses' = Append(listClauses, pending[t])
  /\ pc' = [pc EXCEPT ![t] = "idle"]
  /\ pending' = [pending EXCEPT ![t] = None]
  /\ UNCHANGED <<generation, appendGen, retireGen, isRetired, clauseDbMutex,
                 scanVars, iterVars>>
AppendPushCleared(t) ==
  /\ pc[t] = "stamped"
  /\ pending' = [pending EXCEPT ![t] = None]
  /\ listClauses' = Append(listClauses, pending'[t])
  /\ clauseDbMutex' = None
  /\ pc' = [pc EXCEPT ![t] = "idle"]
  /\ UNCHANGED <<generation, appendGen, retireGen, isRetired, scanVars,
                 iterVars>>

\* push_back(), and the guard releases the mutex on return.
AppendPush(t) ==
  /\ pc[t] = "stamped"
  /\ listClauses' = Append(listClauses, pending[t])
  /\ clauseDbMutex' = None
  /\ pc' = [pc EXCEPT ![t] = "idle"]
  /\ pending' = [pending EXCEPT ![t] = None]
  /\ UNCHANGED <<generation, appendGen, retireGen, isRetired, scanVars,
                 iterVars>>

-----------------------------------------------------------------------------
(* retract(): the worker scans the live list without the mutex and retires *)
(* the first fact that matches under it.                                   *)

RetractCall(M) ==
  /\ pc[Worker] = "idle"
  /\ pc' = [pc EXCEPT ![Worker] = "retracting"]
  /\ retractMatch' = M
  /\ retractPos' = 1
  /\ UNCHANGED <<dbVars, clauseDbMutex, pending, iterVars>>

\* A slip: a tombstoned fact matches again.
RetractableAgain(c) == c \in Facts /\ c \in retractMatch

\* A fact the argument unifies with that is still in the database.
Retractable(c) == c \notin isRetired /\ c \in Facts /\ c \in retractMatch

RetractSkip ==
  /\ pc[Worker] = "retracting"
  /\ retractPos <= Len(listClauses)
  /\ ~Retractable(listClauses[retractPos])
  /\ retractPos' = retractPos + 1
  /\ UNCHANGED <<dbVars, lockVars, retractMatch, iterVars>>

\* The end of the list: no fact matches, the goal fails silently.
RetractNone ==
  /\ pc[Worker] = "retracting"
  /\ retractPos > Len(listClauses)
  /\ pc' = [pc EXCEPT ![Worker] = "idle"]
  /\ retractMatch' = {}
  /\ retractPos' = 0
  /\ UNCHANGED <<dbVars, clauseDbMutex, pending, iterVars>>

\* Wait for the mutex, retire( bumpGeneration() ), release, leave the scan.
RetractHit ==
  /\ pc[Worker] = "retracting"
  /\ retractPos <= Len(listClauses)
  /\ Retractable(listClauses[retractPos])
  /\ clauseDbMutex = None
  /\ generation' = generation + 1
  /\ isRetired' = isRetired \cup {listClauses[retractPos]}
  /\ retireGen' = [retireGen EXCEPT ![listClauses[retractPos]] = generation + 1]
  /\ pc' = [pc EXCEPT ![Worker] = "idle"]
  /\ retractMatch' = {}
  /\ retractPos' = 0
  /\ UNCHANGED <<listClauses, appendGen, clauseDbMutex, pending, iterVars>>

-----------------------------------------------------------------------------
(* ClauseIterator, on the worker thread, without the mutex.                *)

\* The constructor: the generation first, then begin().
NewIterator(i) ==
  /\ pc[Worker] = "idle"
  /\ iterState[i] = "none"
  /\ iterState' = [iterState EXCEPT ![i] = "scan"]
  /\ snapshotGen' = [snapshotGen EXCEPT ![i] = generation]
  /\ itClause' = [itClause EXCEPT ![i] = 1]
  /\ view' = [view EXCEPT ![i] = Listed \ isRetired]
  /\ inFlight' = [inFlight EXCEPT ![i] = Stamped]
  /\ UNCHANGED <<dbVars, lockVars, scanVars, offered>>

\* isValid() steps over a clause its snapshot hides.
SkipHidden(i) ==
  /\ pc[Worker] = "idle"
  /\ iterState[i] = "scan"
  /\ ~Visible(listClauses[itClause[i]], snapshotGen[i])
  /\ Advance(i)
  /\ UNCHANGED <<dbVars, lockVars, scanVars, snapshotGen, view, inFlight,
                 offered>>

\* isValid() holds: getClause(), then next().
Offer(i) ==
  /\ pc[Worker] = "idle"
  /\ iterState[i] = "scan"
  /\ Visible(listClauses[itClause[i]], snapshotGen[i])
  /\ Advance(i)
  /\ offered' = [offered EXCEPT ![i] = Append(@, listClauses[itClause[i]])]
  /\ UNCHANGED <<dbVars, lockVars, scanVars, snapshotGen, view, inFlight>>

\* invalidate(): a cut, or a goal with exactly one outcome.
Invalidate(i) ==
  /\ pc[Worker] = "idle"
  /\ iterState[i] \in {"scan", "end"}
  /\ iterState' = [iterState EXCEPT ![i] = "invalidated"]
  /\ UNCHANGED <<dbVars, lockVars, scanVars, snapshotGen, itClause, view,
                 inFlight, offered>>

-----------------------------------------------------------------------------

AppendStep(t) == AppendLock(t) \/ AppendStamp(t) \/ AppendPush(t)
RetractStep == RetractSkip \/ RetractNone \/ RetractHit
ScanStep(i) == SkipHidden(i) \/ Offer(i)

Next ==
  \/ \E t \in Threads : AppendStep(t) \/ \E c \in Clauses : AppendCall(t, c)
  \/ RetractStep
  \/ \E M \in SUBSET Facts : RetractCall(M)
  \/ \E i \in Iterators : NewIterator(i) \/ ScanStep(i) \/ Invalidate(i)

\* Both threads keep running: a thread inside appendClause() or inside a
\* retract() scan goes on.  What a program appends, retracts or scans next is
\* its own business, so no other action is fair.
Fairness ==
  /\ \A t \in Threads : SF_vars(AppendLock(t))
  /\ \A t \in Threads : WF_vars(AppendStamp(t) \/ AppendPush(t))
  /\ WF_vars(RetractSkip \/ RetractNone)
  /\ SF_vars(RetractHit)

Spec == Init /\ [][Next]_vars
FairSpec == Spec /\ Fairness

-----------------------------------------------------------------------------
(* What the database promises.                                             *)

\* Every variable has its type: the list holds clauses, stamps are numbers, and
\* what a thread is appending is a clause or nothing.
TypeOK ==
  /\ listClauses \in Seq(Clauses)
  /\ generation \in Nat
  /\ appendGen \in [Clauses -> Nat]
  /\ retireGen \in [Clauses -> Nat]
  /\ isRetired \subseteq Clauses
  /\ clauseDbMutex \in Threads \cup {None}
  /\ pc \in [Threads ->
             {"idle", "appending", "locked", "stamped", "retracting"}]
  /\ pending \in [Threads -> Clauses \cup {None}]
  /\ retractMatch \subseteq Facts
  /\ retractPos \in Nat
  /\ iterState \in [Iterators -> {"none", "scan", "end", "invalidated"}]
  /\ snapshotGen \in [Iterators -> Nat]
  /\ itClause \in [Iterators -> Nat]
  /\ view \in [Iterators -> SUBSET Clauses]
  /\ inFlight \in [Iterators -> Clauses \cup {None}]
  /\ offered \in [Iterators -> Seq(Clauses)]

\* List order is generation order: what appendClause() stamps under the mutex
\* is also the order in which it pushes, whichever two threads append at once.
\* The comparison against one number in isValid() relies on it.
GenerationOrder ==
  /\ \A j, k \in 1..Len(listClauses) :
       j < k => appendGen[listClauses[j]] < appendGen[listClauses[k]]
  /\ \A k \in 1..Len(listClauses) : appendGen[listClauses[k]] <= generation

Built(i) == iterState[i] # "none"
VisibleTo(i) == {c \in Listed : Visible(c, snapshotGen[i])}

\* The view of an iterator (ClauseIterator::isValid()) is the live database of
\* the moment it was built, for its whole life, whatever is appended or retired
\* since, except for one clause at most: the one appendClause() had stamped and
\* not yet pushed at that moment.
AtMostOneStraggler ==
  \A i \in Iterators : Built(i) =>
    /\ view[i] \subseteq VisibleTo(i)
    /\ VisibleTo(i) \subseteq view[i] \cup {inFlight[i]}

\* The logical update view as SPEC.md section 13 words it: the iteration sees
\* the database exactly as it stood at the moment the iteration started.
FrozenView ==
  \A i \in Iterators : Built(i) => VisibleTo(i) = view[i]

\* A scan that ran to the end has offered every clause of its view once and in
\* list order, although clauses were pushed and retired behind and before it.
CompleteScan ==
  \A i \in Iterators : iterState[i] = "end" =>
    Among(offered[i], Clauses \ {inFlight[i]}) = Among(listClauses, view[i])

\* What a step may do to tombstones: retire the first live match of the running
\* retract(), or give up because there is none.
RetractStepOK ==
  /\ \A c \in Clauses : retireGen'[c] # retireGen[c] =>
       /\ c \notin isRetired
       /\ \E k \in 1..Len(listClauses) :
            /\ listClauses[k] = c
            /\ c \in retractMatch
            /\ \A j \in 1..(k - 1) :
                 listClauses[j] \notin (Facts \cap retractMatch) \ isRetired
  /\ (pc[Worker] = "retracting" /\ pc'[Worker] = "idle"
        /\ isRetired' = isRetired)
       => Listed \cap retractMatch \cap Facts \subseteq isRetired

\* retract() retires the first live fact that matches and no clause twice, and
\* gives up only when no live fact matches: its unlocked scan stays right while
\* the parser pushes clauses under it.
RetractTakesFirst == [][RetractStepOK]_vars

\* The refinement mapping.  A clause is in the database from its stamp on, listed
\* or not: the entries are the list and the clause that is on its way there.
\* Tombstones and stamps are forgotten, and a search's rest is what its iterator
\* would still offer.
Entries == IF Stamped = None THEN listClauses ELSE Append(listClauses, Stamped)
LivePositions ==
  {k \in 1..Len(Entries) : Entries[k] \notin isRetired}
PositionsAhead(i) ==
  {k \in 1..Len(Entries) :
     /\ iterState[i] = "scan"
     /\ itClause[i] <= k
     /\ Visible(Entries[k], snapshotGen[i])}

LUV == INSTANCE LogicalUpdateView WITH
  Initial  <- Builtins,
  Searches <- Iterators,
  live     <- Selected(Entries, LivePositions),
  started  <- {i \in Iterators : Built(i)},
  rest     <- [i \in Iterators |-> Selected(Entries, PositionsAhead(i))]

\* The database implements the abstract logical update view, step for step, with
\* both threads writing: appendClause() takes effect when it stamps, a search is
\* given what was stamped and not retired when its iterator was built, and loses
\* at most, by ending before the push, the clause in flight then.
ImplementsLogicalUpdateView == LUV!Spec

\* A clause handed to appendClause() reaches the list: the two writers never
\* keep each other out of the mutex for ever.
AppendsLand ==
  \A c \in Clauses : (\E t \in Threads : pending[t] = c) ~> c \in Listed
=============================================================================
