--------------------------- MODULE ClauseDbProofs ---------------------------
(***************************************************************************)
(* For any clauses, iterators and interleaving of the two threads: the     *)
(* writers exclude each other, list order is generation order, an          *)
(* iterator's view is frozen except for one clause at most, a scan that    *)
(* reaches the end has offered that view, and the database implements      *)
(* LogicalUpdateView.  Without a parser thread the view is frozen, full    *)
(* stop.                                                                   *)
(***************************************************************************)
EXTENDS ClauseDb, SequenceLemmas, TLAPS

Writing(t) == pc[t] \in {"locked", "stamped"}
Handing(t) == pc[t] \in {"appending", "locked", "stamped"}

\* The mutex is held by the thread inside the critical section, and two
\* threads never carry the same clause, nor one that is listed already.
MutexInv ==
  /\ \A t \in Threads : Writing(t) <=> clauseDbMutex = t
  /\ \A t \in Threads : Handing(t) <=> pending[t] # None
  /\ \A t \in Threads : pending[t] \notin Listed
  /\ \A t, u \in Threads : pending[t] = pending[u] => t = u \/ pending[t] = None

\* A stamped clause is newer than everything listed, and nothing is newer than
\* the generation.
StampInv ==
  /\ GenerationOrder
  /\ \A t \in Threads : pc[t] = "stamped" =>
       /\ appendGen[pending[t]] <= generation
       /\ \A k \in 1..Len(listClauses) :
            appendGen[listClauses[k]] < appendGen[pending[t]]
  /\ \A c \in Clauses : retireGen[c] <= generation

\* What an iterator will see is decided when it is built: the stamped clause
\* is the only one its snapshot covers and the list does not hold yet.
ViewInv ==
  \A i \in Iterators : Built(i) =>
    /\ snapshotGen[i] <= generation
    /\ view[i] \subseteq Listed
    /\ \A c \in view[i] : Visible(c, snapshotGen[i])
    /\ \A c \in Listed :
         Visible(c, snapshotGen[i]) => c \in view[i] \cup {inFlight[i]}
    /\ \A t \in Threads :
         (pc[t] = "stamped" /\ appendGen[pending[t]] <= snapshotGen[i])
           => inFlight[i] = pending[t]

\* A scanning iterator always stands on a listed clause, and there is one to
\* start on.
PosInv ==
  /\ Len(listClauses) > 0
  /\ \A i \in Iterators :
       iterState[i] = "scan" => itClause[i] \in 1..Len(listClauses)

IInv == TypeOK /\ MutexInv /\ StampInv /\ PosInv /\ ViewInv

-----------------------------------------------------------------------------

\* Pushing one clause adds it to the listed clauses and moves no other.
LEMMA PushListed ==
  ASSUME listClauses \in Seq(Clauses), NEW c \in Clauses,
         listClauses' = Append(listClauses, c)
  PROVE  /\ Listed' = Listed \cup {c}
         /\ Len(listClauses') = Len(listClauses) + 1
         /\ \A k \in 1..Len(listClauses) : listClauses'[k] = listClauses[k]
         /\ listClauses'[Len(listClauses) + 1] = c
<1>1. /\ Len(listClauses') = Len(listClauses) + 1
      /\ \A k \in 1..Len(listClauses) : listClauses'[k] = listClauses[k]
      /\ listClauses'[Len(listClauses) + 1] = c
  OBVIOUS
<1>2. Listed' = Listed \cup {c}
  BY <1>1 DEF Listed
<1> QED BY <1>1, <1>2

\* Init establishes the inductive invariant.
LEMMA InitIInv == Init => IInv
<1> SUFFICES ASSUME Init PROVE IInv
  OBVIOUS
<1> USE BuiltinsAssumption, ThreadsAssumption
<1>1. \A k \in 1..Len(Builtins) : appendGen[Builtins[k]] = k
  <2> SUFFICES ASSUME NEW k \in 1..Len(Builtins)
               PROVE  appendGen[Builtins[k]] = k
    OBVIOUS
  <2>1. Builtins[k] \in BuiltinSet /\ Builtins[k] \in Clauses
    BY DEF BuiltinSet
  <2>2. appendGen[Builtins[k]]
          = CHOOSE j \in 1..Len(Builtins) : Builtins[j] = Builtins[k]
    BY <2>1 DEF Init
  <2> QED BY <2>2
<1>2. appendGen \in [Clauses -> Nat]
  <2>1. ASSUME NEW c \in BuiltinSet
        PROVE  (CHOOSE k \in 1..Len(Builtins) : Builtins[k] = c) \in Nat
    BY DEF BuiltinSet
  <2> QED BY <2>1 DEF Init
<1>3. TypeOK
  BY <1>2 DEF Init, TypeOK
<1>4. MutexInv
  <2>1. Listed \subseteq Clauses
    BY DEF Init, Listed
  <2> QED BY <2>1 DEF Init, MutexInv, Writing, Handing
<1>5. StampInv
  <2>1. listClauses = Builtins /\ generation = Len(Builtins)
    BY DEF Init
  <2>2. GenerationOrder
    BY <1>1, <2>1 DEF GenerationOrder
  <2>3. \A t \in Threads : pc[t] # "stamped"
    BY DEF Init
  <2>4. \A c \in Clauses : retireGen[c] <= generation
    BY <2>1 DEF Init
  <2> QED BY <2>2, <2>3, <2>4 DEF StampInv
<1>6. ViewInv
  BY DEF Init, ViewInv, Built
<1>7. PosInv
  BY DEF Init, PosInv
<1> QED BY <1>3, <1>4, <1>5, <1>6, <1>7 DEF IInv

-----------------------------------------------------------------------------

\* Moving an iterator keeps its type.
LEMMA AdvanceType ==
  ASSUME TypeOK, NEW i \in Iterators, Advance(i)
  PROVE  /\ iterState' \in [Iterators -> {"none", "scan", "end", "invalidated"}]
         /\ itClause' \in [Iterators -> Nat]
<1>1. iterState' \in [Iterators -> {"none", "scan", "end", "invalidated"}]
  BY DEF TypeOK, Advance
<1>2. itClause[i] + 1 \in Nat
  BY DEF TypeOK
<1>3. itClause' \in [Iterators -> Nat]
  BY <1>2 DEF TypeOK, Advance
<1> QED BY <1>1, <1>3

\* Every step keeps the types.
LEMMA NextTypeOK == TypeOK /\ MutexInv /\ PosInv /\ [Next]_vars => TypeOK'
<1> SUFFICES ASSUME TypeOK, MutexInv, PosInv, [Next]_vars PROVE TypeOK'
  OBVIOUS
<1> USE BuiltinsAssumption, ThreadsAssumption DEF TypeOK
<1>1. ASSUME NEW t \in Threads, NEW c \in Clauses, AppendCall(t, c)
      PROVE  TypeOK'
  BY <1>1 DEF AppendCall, dbVars, scanVars, iterVars
<1>2. ASSUME NEW t \in Threads, AppendLock(t) PROVE TypeOK'
  BY <1>2 DEF AppendLock, dbVars, scanVars, iterVars
<1>3. ASSUME NEW t \in Threads, AppendStamp(t) PROVE TypeOK'
  <2>0. generation + 1 \in Nat /\ generation' = generation + 1
    BY <1>3 DEF AppendStamp
  <2>1. generation' \in Nat /\ appendGen' \in [Clauses -> Nat]
    <3>1. appendGen' = [appendGen EXCEPT ![pending[t]] = generation + 1]
      BY <1>3 DEF AppendStamp
    <3> QED BY <2>0, <3>1
  <2>2. pc' \in [Threads ->
          {"idle", "appending", "locked", "stamped", "retracting"}]
    BY <1>3 DEF AppendStamp
  <2> QED BY <1>3, <2>1, <2>2 DEF AppendStamp, scanVars, iterVars
<1>4. ASSUME NEW t \in Threads, AppendPush(t) PROVE TypeOK'
  <2>1. pending[t] \in Clauses
    BY <1>4 DEF AppendPush, MutexInv, Handing
  <2> QED BY <1>4, <2>1 DEF AppendPush, scanVars, iterVars
<1>5. ASSUME NEW M \in SUBSET Facts, RetractCall(M) PROVE TypeOK'
  BY <1>5 DEF RetractCall, dbVars, iterVars
<1>6. ASSUME RetractStep PROVE TypeOK'
  <2>1. CASE RetractSkip
    BY <2>1 DEF RetractSkip, dbVars, lockVars, iterVars
  <2>2. CASE RetractNone
    BY <2>2 DEF RetractNone, dbVars, iterVars
  <2>3. CASE RetractHit
    BY <2>3 DEF RetractHit, iterVars, Retractable
  <2> QED BY <1>6, <2>1, <2>2, <2>3 DEF RetractStep
<1>7. ASSUME NEW i \in Iterators, NewIterator(i) PROVE TypeOK'
  <2>1. Listed \subseteq Clauses
    BY DEF Listed
  <2>2. Stamped \in Clauses \cup {None}
    BY DEF Stamped
  <2> QED BY <1>7, <2>1, <2>2 DEF NewIterator, dbVars, lockVars, scanVars
<1>8. ASSUME NEW i \in Iterators, SkipHidden(i) PROVE TypeOK'
  <2>1. /\ iterState' \in [Iterators -> {"none", "scan", "end", "invalidated"}]
        /\ itClause' \in [Iterators -> Nat]
    BY <1>8, AdvanceType DEF SkipHidden
  <2> QED BY <1>8, <2>1 DEF SkipHidden, dbVars, lockVars, scanVars
<1>9. ASSUME NEW i \in Iterators, Offer(i) PROVE TypeOK'
  <2>1. /\ iterState' \in [Iterators -> {"none", "scan", "end", "invalidated"}]
        /\ itClause' \in [Iterators -> Nat]
    BY <1>9, AdvanceType DEF Offer
  <2>2. itClause[i] \in 1..Len(listClauses)
    BY <1>9 DEF Offer, PosInv
  <2>3. listClauses[itClause[i]] \in Clauses
    BY <2>2
  <2>4. Append(offered[i], listClauses[itClause[i]]) \in Seq(Clauses)
    BY <2>3
  <2>5. offered' \in [Iterators -> Seq(Clauses)]
    BY <1>9, <2>4 DEF Offer
  <2> QED BY <1>9, <2>1, <2>5 DEF Offer, dbVars, lockVars, scanVars
<1>10. ASSUME NEW i \in Iterators, Invalidate(i) PROVE TypeOK'
  BY <1>10 DEF Invalidate, dbVars, lockVars, scanVars
<1>11. CASE UNCHANGED vars
  BY <1>11 DEF vars, dbVars, lockVars, scanVars, iterVars
<1> QED
  BY <1>1, <1>2, <1>3, <1>4, <1>5, <1>6, <1>7, <1>8, <1>9, <1>10, <1>11
  DEF Next, AppendStep, ScanStep

-----------------------------------------------------------------------------

\* A step that touches neither the database nor the mutex keeps the invariants
\* of both.
LEMMA DbStutter ==
  ASSUME MutexInv, StampInv, UNCHANGED dbVars, UNCHANGED lockVars
  PROVE  MutexInv' /\ StampInv'
<1> USE DEF dbVars, lockVars
<1>1. MutexInv'
  BY DEF MutexInv, Writing, Handing, Listed
<1>2. StampInv'
  BY DEF StampInv, GenerationOrder
<1> QED BY <1>1, <1>2

\* The mutex discipline survives every step.
LEMMA NextMutexInv == IInv /\ [Next]_vars => MutexInv'
<1> SUFFICES ASSUME IInv, [Next]_vars PROVE MutexInv'
  OBVIOUS
<1> USE BuiltinsAssumption, ThreadsAssumption DEF IInv, TypeOK
<1> USE DEF MutexInv, Writing, Handing
<1>1. ASSUME NEW t \in Threads, NEW c \in Clauses, AppendCall(t, c)
      PROVE  MutexInv'
  <2>1. c \notin Listed /\ \A u \in Threads : pending[u] # c
    BY <1>1 DEF AppendCall, Unappended
  <2>2. Listed' = Listed
    BY <1>1 DEF AppendCall, dbVars, Listed
  <2>3. c # None
    OBVIOUS
  <2> QED BY <1>1, <2>1, <2>2, <2>3 DEF AppendCall
<1>2. ASSUME NEW t \in Threads, AppendLock(t) PROVE MutexInv'
  <2>1. Listed' = Listed
    BY <1>2 DEF AppendLock, dbVars, Listed
  <2> QED BY <1>2, <2>1 DEF AppendLock
<1>3. ASSUME NEW t \in Threads, AppendStamp(t) PROVE MutexInv'
  <2>1. Listed' = Listed
    BY <1>3 DEF AppendStamp, Listed
  <2> QED BY <1>3, <2>1 DEF AppendStamp
<1>4. ASSUME NEW t \in Threads, AppendPush(t) PROVE MutexInv'
  <2>1. pending[t] \in Clauses
    BY <1>4 DEF AppendPush
  <2>2. Listed' = Listed \cup {pending[t]}
    BY <1>4, <2>1, PushListed DEF AppendPush
  <2>3. None \notin Listed'
    <3>1. Listed \subseteq Clauses
      BY DEF Listed
    <3> QED BY <2>1, <2>2, <3>1
  <2> QED BY <1>4, <2>1, <2>2, <2>3 DEF AppendPush
<1>5. ASSUME NEW M \in SUBSET Facts, RetractCall(M) PROVE MutexInv'
  <2>1. Listed' = Listed
    BY <1>5 DEF RetractCall, dbVars, Listed
  <2> QED BY <1>5, <2>1 DEF RetractCall
<1>6. ASSUME RetractStep PROVE MutexInv'
  <2>1. Listed' = Listed
    BY <1>6 DEF RetractStep, RetractSkip, RetractNone, RetractHit, dbVars,
                Listed
  <2>2. CASE RetractSkip
    BY <2>1, <2>2 DEF RetractSkip, lockVars
  <2>3. CASE RetractNone
    BY <2>1, <2>3 DEF RetractNone
  <2>4. CASE RetractHit
    BY <2>1, <2>4 DEF RetractHit
  <2> QED BY <1>6, <2>2, <2>3, <2>4 DEF RetractStep
<1>7. ASSUME NEW i \in Iterators, NewIterator(i) \/ ScanStep(i) \/ Invalidate(i)
      PROVE  MutexInv'
  <2>1. UNCHANGED dbVars /\ UNCHANGED lockVars
    BY <1>7 DEF NewIterator, ScanStep, SkipHidden, Offer, Invalidate
  <2> QED BY <2>1, DbStutter
<1>8. CASE UNCHANGED vars
  BY <1>8, DbStutter DEF vars
<1> QED
  BY <1>1, <1>2, <1>3, <1>4, <1>5, <1>6, <1>7, <1>8 DEF Next, AppendStep

-----------------------------------------------------------------------------

\* Stamping and pushing under the mutex keep list order and generation order
\* the same, and retiring takes a generation of its own.
LEMMA NextStampInv == IInv /\ [Next]_vars => StampInv'
<1> SUFFICES ASSUME IInv, [Next]_vars PROVE StampInv'
  OBVIOUS
<1> USE BuiltinsAssumption, ThreadsAssumption
<1>0. /\ TypeOK /\ MutexInv /\ StampInv /\ GenerationOrder
      /\ Len(listClauses) \in Nat
      /\ generation \in Nat
      /\ \A c \in Clauses : appendGen[c] \in Nat /\ retireGen[c] \in Nat
      /\ \A k \in 1..Len(listClauses) : listClauses[k] \in Clauses
  BY DEF IInv, TypeOK, StampInv
<1>1. ASSUME NEW t \in Threads, NEW c \in Clauses, AppendCall(t, c)
      PROVE  StampInv'
  <2>1. \A u \in Threads : pc'[u] = "stamped" =>
          pc[u] = "stamped" /\ pending'[u] = pending[u]
    BY <1>0, <1>1 DEF AppendCall, TypeOK
  <2> QED BY <1>0, <1>1, <2>1 DEF AppendCall, dbVars, StampInv, GenerationOrder
<1>2. ASSUME NEW t \in Threads, AppendLock(t) PROVE StampInv'
  <2>1. \A u \in Threads : pc'[u] = "stamped" => pc[u] = "stamped"
    BY <1>0, <1>2 DEF AppendLock, TypeOK
  <2> QED BY <1>0, <1>2, <2>1 DEF AppendLock, dbVars, StampInv, GenerationOrder
<1>3. ASSUME NEW t \in Threads, AppendStamp(t) PROVE StampInv'
  <2>1. /\ pending[t] \in Clauses
        /\ pending[t] \notin Listed
        /\ \A u \in Threads : pc'[u] = "stamped" => u = t
    BY <1>0, <1>3 DEF AppendStamp, MutexInv, Writing, Handing, TypeOK
  <2>2. /\ generation' = generation + 1
        /\ \A c \in Clauses : appendGen'[c] =
             IF c = pending[t] THEN generation + 1 ELSE appendGen[c]
        /\ UNCHANGED <<listClauses, retireGen, pending>>
    BY <1>0, <1>3 DEF AppendStamp, TypeOK
  <2>3. \A k \in 1..Len(listClauses) :
          appendGen'[listClauses[k]] = appendGen[listClauses[k]]
    BY <1>0, <2>1, <2>2 DEF Listed
  <2>4. GenerationOrder'
    BY <1>0, <2>2, <2>3 DEF GenerationOrder
  <2>5. /\ appendGen'[pending[t]] = generation + 1
        /\ \A k \in 1..Len(listClauses) :
             appendGen'[listClauses[k]] < generation + 1
    BY <1>0, <2>1, <2>2, <2>3 DEF GenerationOrder
  <2>6. \A c \in Clauses : retireGen'[c] <= generation'
    BY <1>0, <2>2 DEF StampInv
  <2> QED BY <2>1, <2>2, <2>4, <2>5, <2>6 DEF StampInv
<1>4. ASSUME NEW t \in Threads, AppendPush(t) PROVE StampInv'
  <2>1. /\ pending[t] \in Clauses
        /\ \A u \in Threads : pc'[u] # "stamped"
    BY <1>0, <1>4 DEF AppendPush, MutexInv, Writing, Handing, TypeOK
  <2>2. /\ Len(listClauses') = Len(listClauses) + 1
        /\ \A k \in 1..Len(listClauses) : listClauses'[k] = listClauses[k]
        /\ listClauses'[Len(listClauses) + 1] = pending[t]
    BY <1>0, <1>4, <2>1, PushListed DEF AppendPush, TypeOK
  <2>3. UNCHANGED <<generation, appendGen, retireGen>>
    BY <1>4 DEF AppendPush
  <2>4. /\ appendGen[pending[t]] <= generation
        /\ \A k \in 1..Len(listClauses) :
             appendGen[listClauses[k]] < appendGen[pending[t]]
    BY <1>0, <1>4 DEF AppendPush, StampInv
  <2>5. GenerationOrder'
    <3>1. /\ appendGen[listClauses'[Len(listClauses) + 1]] <= generation
          /\ \A k \in 1..Len(listClauses) :
               appendGen[listClauses'[k]]
                 < appendGen[listClauses'[Len(listClauses) + 1]]
      BY <2>2, <2>4
    <3>2. /\ \A j, k \in 1..Len(listClauses) :
               j < k => appendGen[listClauses'[j]] < appendGen[listClauses'[k]]
          /\ \A k \in 1..Len(listClauses) :
               appendGen[listClauses'[k]] <= generation
      BY <1>0, <2>2 DEF GenerationOrder
    <3>3. \A k \in 1..(Len(listClauses) + 1) :
            k \in 1..Len(listClauses) \/ k = Len(listClauses) + 1
      BY <1>0
    <3>4. \A j, k \in 1..(Len(listClauses) + 1) :
            j < k => j \in 1..Len(listClauses)
      BY <1>0
    <3>5. \A j, k \in 1..Len(listClauses') :
            j < k => appendGen'[listClauses'[j]] < appendGen'[listClauses'[k]]
      BY <2>2, <2>3, <3>1, <3>2, <3>3, <3>4
    <3>6. \A k \in 1..Len(listClauses') :
            appendGen'[listClauses'[k]] <= generation'
      BY <2>2, <2>3, <3>1, <3>2, <3>3
    <3> QED BY <3>5, <3>6 DEF GenerationOrder
  <2>6. \A c \in Clauses : retireGen'[c] <= generation'
    BY <1>0, <2>3 DEF StampInv
  <2> QED BY <2>1, <2>5, <2>6 DEF StampInv
<1>5. ASSUME NEW M \in SUBSET Facts, RetractCall(M) PROVE StampInv'
  <2>1. \A u \in Threads : pc'[u] = "stamped" => pc[u] = "stamped"
    BY <1>0, <1>5 DEF RetractCall, TypeOK
  <2> QED
    BY <1>0, <1>5, <2>1 DEF RetractCall, dbVars, StampInv, GenerationOrder
<1>6. CASE RetractSkip
  BY <1>0, <1>6, DbStutter DEF RetractSkip
<1>7. CASE RetractNone
  <2>1. \A u \in Threads : pc'[u] = "stamped" => pc[u] = "stamped"
    BY <1>0, <1>7 DEF RetractNone, TypeOK
  <2> QED
    BY <1>0, <1>7, <2>1 DEF RetractNone, dbVars, StampInv, GenerationOrder
<1>8. CASE RetractHit
  <2>1. /\ generation' = generation + 1
        /\ UNCHANGED <<listClauses, appendGen, pending>>
        /\ \A c \in Clauses : retireGen'[c] \in {retireGen[c], generation + 1}
        /\ \A u \in Threads : pc'[u] = "stamped" => pc[u] = "stamped"
    BY <1>0, <1>8 DEF RetractHit, TypeOK
  <2>2. GenerationOrder'
    BY <1>0, <2>1 DEF GenerationOrder
  <2>3. \A c \in Clauses : retireGen'[c] <= generation'
    BY <1>0, <2>1 DEF StampInv
  <2>4. \A u \in Threads : pc'[u] = "stamped" =>
          /\ appendGen[pending[u]] <= generation
          /\ \A k \in 1..Len(listClauses) :
               appendGen[listClauses[k]] < appendGen[pending[u]]
    BY <1>0, <2>1 DEF StampInv
  <2>5. \A u \in Threads : pc'[u] = "stamped" => pending[u] \in Clauses
    BY <1>0, <2>1 DEF MutexInv, Handing, TypeOK
  <2>6. \A u \in Threads : pc'[u] = "stamped" =>
          appendGen[pending[u]] <= generation + 1
    BY <1>0, <2>4, <2>5
  <2> QED BY <2>1, <2>2, <2>3, <2>4, <2>6 DEF StampInv
<1>9. ASSUME NEW i \in Iterators, NewIterator(i) \/ ScanStep(i) \/ Invalidate(i)
      PROVE  StampInv'
  <2>1. UNCHANGED dbVars /\ UNCHANGED lockVars
    BY <1>9 DEF NewIterator, ScanStep, SkipHidden, Offer, Invalidate
  <2> QED BY <1>0, <2>1, DbStutter
<1>10. CASE UNCHANGED vars
  BY <1>0, <1>10, DbStutter DEF vars
<1> QED
  BY <1>1, <1>2, <1>3, <1>4, <1>5, <1>6, <1>7, <1>8, <1>9, <1>10
  DEF Next, AppendStep, RetractStep

-----------------------------------------------------------------------------

\* A scanning iterator stays on a listed clause: nothing is ever erased.
LEMMA NextPosInv == IInv /\ [Next]_vars => PosInv'
<1> SUFFICES ASSUME IInv, [Next]_vars PROVE PosInv'
  OBVIOUS
<1> USE BuiltinsAssumption, ThreadsAssumption
<1>0. /\ TypeOK /\ MutexInv /\ PosInv
      /\ Len(listClauses) \in Nat
      /\ \A i \in Iterators : itClause[i] \in Nat
  BY DEF IInv, TypeOK
<1>1. ASSUME NEW t \in Threads, AppendPush(t) PROVE PosInv'
  <2>1. pending[t] \in Clauses
    BY <1>0, <1>1 DEF AppendPush, MutexInv, Handing, TypeOK
  <2>2. Len(listClauses') = Len(listClauses) + 1
    BY <1>0, <1>1, <2>1, PushListed DEF AppendPush, TypeOK
  <2> QED BY <1>0, <1>1, <2>2 DEF AppendPush, iterVars, PosInv
<1>2. ASSUME NEW i \in Iterators, NewIterator(i) PROVE PosInv'
  <2>1. /\ UNCHANGED listClauses
        /\ \A j \in Iterators : itClause'[j] = IF j = i THEN 1 ELSE itClause[j]
        /\ \A j \in Iterators \ {i} : iterState'[j] = iterState[j]
    BY <1>0, <1>2 DEF NewIterator, dbVars, TypeOK
  <2> QED BY <1>0, <2>1 DEF PosInv
<1>3. ASSUME NEW i \in Iterators, ScanStep(i) PROVE PosInv'
  <2>1. Advance(i) /\ UNCHANGED listClauses
    BY <1>3 DEF ScanStep, SkipHidden, Offer, dbVars
  <2>2. /\ iterState'[i] =
             IF itClause[i] < Len(listClauses) THEN "scan" ELSE "end"
        /\ itClause'[i] = itClause[i] + 1
    BY <1>0, <2>1 DEF Advance, TypeOK
  <2>3. iterState'[i] = "scan" => itClause'[i] \in 1..Len(listClauses)
    BY <1>0, <2>2
  <2>4. \A j \in Iterators \ {i} :
          iterState'[j] = iterState[j] /\ itClause'[j] = itClause[j]
    BY <1>0, <2>1 DEF Advance, TypeOK
  <2> QED BY <1>0, <2>1, <2>3, <2>4 DEF PosInv
<1>4. ASSUME NEW i \in Iterators, Invalidate(i) PROVE PosInv'
  BY <1>0, <1>4 DEF Invalidate, dbVars, TypeOK, PosInv
<1>5. CASE UNCHANGED <<listClauses, iterVars>>
  BY <1>0, <1>5 DEF iterVars, PosInv
<1>6. ASSUME NEW t \in Threads,
             \/ \E c \in Clauses : AppendCall(t, c)
             \/ AppendLock(t) \/ AppendStamp(t)
      PROVE  PosInv'
  BY <1>5, <1>6 DEF AppendCall, AppendLock, AppendStamp, dbVars
<1>7. ASSUME RetractStep \/ \E M \in SUBSET Facts : RetractCall(M)
      PROVE  PosInv'
  BY <1>5, <1>7 DEF RetractCall, RetractStep, RetractSkip, RetractNone,
                    RetractHit, dbVars
<1>8. CASE UNCHANGED vars
  BY <1>5, <1>8 DEF vars, dbVars
<1> QED
  BY <1>1, <1>2, <1>3, <1>4, <1>6, <1>7, <1>8 DEF Next, AppendStep

-----------------------------------------------------------------------------

\* An iterator's view is decided when it is built.
LEMMA NextViewInv == IInv /\ [Next]_vars => ViewInv'
<1> SUFFICES ASSUME IInv, [Next]_vars PROVE ViewInv'
  OBVIOUS
<1> USE BuiltinsAssumption, ThreadsAssumption
<1>0. /\ TypeOK /\ MutexInv /\ StampInv /\ GenerationOrder /\ ViewInv
      /\ generation \in Nat
      /\ \A i \in Iterators : snapshotGen[i] \in Nat
      /\ \A c \in Clauses : appendGen[c] \in Nat /\ retireGen[c] \in Nat
      /\ Listed \subseteq Clauses
  BY DEF IInv, TypeOK, StampInv, Listed
\* Steps that leave the database and the iterators alone, and stamp nothing.
<1>1. ASSUME UNCHANGED dbVars, UNCHANGED iterVars,
             \A t \in Threads : pc'[t] = "stamped" =>
               pc[t] = "stamped" /\ pending'[t] = pending[t]
      PROVE  ViewInv'
  <2>1. Listed' = Listed
    BY <1>1 DEF dbVars, Listed
  <2> QED BY <1>0, <1>1, <2>1 DEF ViewInv, Built, Visible, dbVars, iterVars
<1>2. ASSUME NEW t \in Threads, NEW c \in Clauses, AppendCall(t, c)
      PROVE  ViewInv'
  BY <1>0, <1>1, <1>2 DEF AppendCall, TypeOK
<1>3. ASSUME NEW t \in Threads, AppendLock(t) PROVE ViewInv'
  BY <1>0, <1>1, <1>3 DEF AppendLock, TypeOK
<1>4. ASSUME NEW t \in Threads, AppendStamp(t) PROVE ViewInv'
  <2>1. /\ pending[t] \in Clauses
        /\ pending[t] \notin Listed
        /\ \A u \in Threads : pc'[u] = "stamped" => u = t
    BY <1>0, <1>4 DEF AppendStamp, MutexInv, Writing, Handing, TypeOK
  <2>2. /\ generation' = generation + 1
        /\ \A c \in Clauses : appendGen'[c] =
             IF c = pending[t] THEN generation + 1 ELSE appendGen[c]
        /\ UNCHANGED <<listClauses, retireGen, isRetired, pending, iterVars>>
    BY <1>0, <1>4 DEF AppendStamp, TypeOK
  <2>3. Listed' = Listed
    BY <2>2 DEF Listed
  <2>4. \A c \in Listed : appendGen'[c] = appendGen[c]
    BY <1>0, <2>1, <2>2
  <2>5. SUFFICES ASSUME NEW i \in Iterators, Built(i)'
                 PROVE  /\ snapshotGen'[i] <= generation'
                        /\ view'[i] \subseteq Listed'
                        /\ \A c \in view'[i] : Visible(c, snapshotGen[i])'
                        /\ \A c \in Listed' : Visible(c, snapshotGen[i])'
                             => c \in view'[i] \cup {inFlight'[i]}
                        /\ \A u \in Threads :
                             (pc'[u] = "stamped"
                                /\ appendGen'[pending'[u]] <= snapshotGen'[i])
                               => inFlight'[i] = pending'[u]
    BY DEF ViewInv
  <2>6. Built(i) /\ snapshotGen'[i] = snapshotGen[i] /\ view'[i] = view[i]
          /\ inFlight'[i] = inFlight[i]
    BY <2>2, <2>5 DEF Built, iterVars
  <2>7. /\ snapshotGen[i] <= generation
        /\ view[i] \subseteq Listed
        /\ \A c \in view[i] : Visible(c, snapshotGen[i])
        /\ \A c \in Listed :
             Visible(c, snapshotGen[i]) => c \in view[i] \cup {inFlight[i]}
    BY <1>0, <2>6 DEF ViewInv
  <2>8. \A c \in Listed : Visible(c, snapshotGen[i])' <=> Visible(c, snapshotGen[i])
    BY <2>2, <2>4, <2>6 DEF Visible
  <2>9. ~(appendGen'[pending[t]] <= snapshotGen[i])
    BY <1>0, <2>1, <2>2, <2>7
  <2>10. snapshotGen'[i] <= generation'
    BY <1>0, <2>2, <2>6, <2>7
  <2> QED BY <2>1, <2>2, <2>3, <2>6, <2>7, <2>8, <2>9, <2>10
<1>5. ASSUME NEW t \in Threads, AppendPush(t) PROVE ViewInv'
  <2>1. /\ pending[t] \in Clauses
        /\ \A u \in Threads : pc'[u] # "stamped"
    BY <1>0, <1>5 DEF AppendPush, MutexInv, Writing, Handing, TypeOK
  <2>2. Listed' = Listed \cup {pending[t]}
    BY <1>0, <1>5, <2>1, PushListed DEF AppendPush, TypeOK
  <2>3. UNCHANGED <<generation, appendGen, retireGen, isRetired, iterVars>>
    BY <1>5 DEF AppendPush
  <2>4. \A i \in Iterators : Built(i) /\ Visible(pending[t], snapshotGen[i])
          => inFlight[i] = pending[t]
    BY <1>0, <1>5 DEF AppendPush, ViewInv, Visible
  <2> QED
    BY <1>0, <2>1, <2>2, <2>3, <2>4 DEF ViewInv, Built, Visible, iterVars
<1>6. ASSUME NEW M \in SUBSET Facts, RetractCall(M) PROVE ViewInv'
  BY <1>0, <1>1, <1>6 DEF RetractCall, TypeOK
<1>7. CASE RetractSkip
  BY <1>1, <1>7 DEF RetractSkip, lockVars
<1>8. CASE RetractNone
  BY <1>0, <1>1, <1>8 DEF RetractNone, TypeOK
<1>9. CASE RetractHit
  <2> DEFINE r == listClauses[retractPos]
  <2>1. /\ r \in Clauses
        /\ r \notin isRetired
        /\ isRetired' = isRetired \cup {r}
        /\ \A c \in Clauses : retireGen'[c] =
             IF c = r THEN generation + 1 ELSE retireGen[c]
        /\ generation' = generation + 1
        /\ UNCHANGED <<listClauses, appendGen, pending, iterVars>>
        /\ \A t \in Threads : pc'[t] = "stamped" => pc[t] = "stamped"
    BY <1>0, <1>9 DEF RetractHit, Retractable, TypeOK
  <2>2. Listed' = Listed
    BY <2>1 DEF Listed
  <2>3. \A i \in Iterators, c \in Clauses : Built(i) =>
          (Visible(c, snapshotGen[i])' <=> Visible(c, snapshotGen[i]))
    <3> SUFFICES ASSUME NEW i \in Iterators, NEW c \in Clauses, Built(i)
                 PROVE  Visible(c, snapshotGen[i])' <=> Visible(c, snapshotGen[i])
      OBVIOUS
    <3>1. snapshotGen[i] <= generation /\ snapshotGen'[i] = snapshotGen[i]
      BY <1>0, <2>1 DEF ViewInv, iterVars
    <3>2. CASE c = r
      <4>1. ~(retireGen'[c] <= snapshotGen[i])
        BY <1>0, <2>1, <3>1, <3>2
      <4> QED BY <2>1, <3>1, <3>2, <4>1 DEF Visible
    <3>3. CASE c # r
      BY <2>1, <3>1, <3>3 DEF Visible
    <3> QED BY <3>2, <3>3
  <2>4. \A i \in Iterators : Built(i) => snapshotGen[i] <= generation'
    BY <1>0, <2>1 DEF ViewInv
  <2>5. \A i \in Iterators :
          /\ Built(i)' <=> Built(i)
          /\ snapshotGen'[i] = snapshotGen[i]
          /\ view'[i] = view[i]
          /\ inFlight'[i] = inFlight[i]
    BY <2>1 DEF Built, iterVars
  <2> QED BY <1>0, <2>1, <2>2, <2>3, <2>4, <2>5 DEF ViewInv
<1>10. ASSUME NEW i \in Iterators, NewIterator(i) PROVE ViewInv'
  <2>1. /\ UNCHANGED dbVars /\ UNCHANGED lockVars /\ Listed' = Listed
        /\ \A j \in Iterators \ {i} :
             /\ Built(j)' <=> Built(j)
             /\ snapshotGen'[j] = snapshotGen[j]
             /\ view'[j] = view[j]
             /\ inFlight'[j] = inFlight[j]
        /\ snapshotGen'[i] = generation
        /\ view'[i] = Listed \ isRetired
        /\ inFlight'[i] = Stamped
    BY <1>0, <1>10 DEF NewIterator, dbVars, lockVars, Listed, Built, TypeOK
  <2>2. \A c \in Listed : Visible(c, generation) <=> c \notin isRetired
    <3>1. \A c \in Listed : appendGen[c] <= generation
      BY <1>0 DEF Listed, GenerationOrder
    <3> QED BY <1>0, <3>1 DEF StampInv, Visible
  <2>3. \A t \in Threads : pc[t] = "stamped" => Stamped = pending[t]
    <3>1. \A t, u \in Threads : pc[t] = "stamped" /\ pc[u] = "stamped" => t = u
      BY <1>0 DEF MutexInv, Writing
    <3> QED BY <3>1 DEF Stamped
  <2>4. \A j \in Iterators, c \in Clauses :
          Visible(c, snapshotGen[j])' <=> Visible(c, snapshotGen'[j])
    BY <2>1 DEF Visible, dbVars
  <2>5. \A c \in Listed : Visible(c, snapshotGen[i])' <=> c \notin isRetired
    BY <1>0, <2>1, <2>2, <2>4
  <2>6. ASSUME NEW j \in Iterators, j # i, Built(j)'
        PROVE  /\ snapshotGen'[j] <= generation'
               /\ view'[j] \subseteq Listed'
               /\ \A c \in view'[j] : Visible(c, snapshotGen[j])'
               /\ \A c \in Listed' : Visible(c, snapshotGen[j])'
                    => c \in view'[j] \cup {inFlight'[j]}
               /\ \A u \in Threads :
                    (pc'[u] = "stamped"
                       /\ appendGen'[pending'[u]] <= snapshotGen'[j])
                      => inFlight'[j] = pending'[u]
    BY <1>0, <2>1, <2>4, <2>6 DEF ViewInv, dbVars, lockVars
  <2>7. /\ snapshotGen'[i] <= generation'
        /\ view'[i] \subseteq Listed'
        /\ \A c \in view'[i] : Visible(c, snapshotGen[i])'
        /\ \A c \in Listed' : Visible(c, snapshotGen[i])'
             => c \in view'[i] \cup {inFlight'[i]}
        /\ \A u \in Threads :
             (pc'[u] = "stamped"
                /\ appendGen'[pending'[u]] <= snapshotGen'[i])
               => inFlight'[i] = pending'[u]
    BY <1>0, <2>1, <2>3, <2>5 DEF dbVars, lockVars
  <2> QED BY <2>6, <2>7 DEF ViewInv
<1>11. ASSUME NEW i \in Iterators, ScanStep(i) \/ Invalidate(i)
       PROVE  ViewInv'
  <2>1. /\ UNCHANGED dbVars /\ UNCHANGED lockVars /\ Listed' = Listed
        /\ UNCHANGED <<snapshotGen, view, inFlight>>
        /\ \A j \in Iterators : Built(j)' <=> Built(j)
    <3>1. /\ UNCHANGED dbVars /\ UNCHANGED lockVars
          /\ UNCHANGED <<snapshotGen, view, inFlight>>
      BY <1>11 DEF ScanStep, SkipHidden, Offer, Invalidate
    <3>2. Listed' = Listed
      BY <3>1 DEF dbVars, Listed
    <3>3. /\ iterState[i] # "none" /\ iterState'[i] # "none"
          /\ \A j \in Iterators \ {i} : iterState'[j] = iterState[j]
      BY <1>0, <1>11 DEF ScanStep, SkipHidden, Offer, Invalidate, Advance, TypeOK
    <3> QED BY <3>1, <3>2, <3>3 DEF Built
  <2> QED BY <1>0, <2>1 DEF ViewInv, Visible, dbVars, lockVars
<1>12. CASE UNCHANGED vars
  BY <1>1, <1>12 DEF vars, lockVars
<1> QED
  BY <1>2, <1>3, <1>4, <1>5, <1>6, <1>7, <1>8, <1>9, <1>10, <1>11, <1>12
  DEF Next, AppendStep, RetractStep

-----------------------------------------------------------------------------

\* The inductive invariant holds of every behaviour: types, mutual exclusion of
\* the writers, generation order, positions and views.
THEOREM Inductive == Spec => []IInv
<1>1. IInv /\ [Next]_vars => IInv'
  BY NextTypeOK, NextMutexInv, NextStampInv, NextPosInv, NextViewInv DEF IInv
<1> QED BY InitIInv, <1>1, PTL DEF Spec

\* The database, the threads and the iterators keep their types.
THEOREM TypeCorrect == Spec => []TypeOK
<1>1. IInv => TypeOK
  BY DEF IInv
<1> QED BY Inductive, <1>1, PTL

\* appendClause() keeps list order and generation order the same.
THEOREM OrderedGenerations == Spec => []GenerationOrder
<1>1. IInv => GenerationOrder
  BY DEF IInv, StampInv
<1> QED BY Inductive, <1>1, PTL

\* Whatever the parser and the worker do, an iterator's view is the database of
\* the moment it was built and at most the one clause then being appended.
THEOREM ViewsAlmostFrozen == Spec => []AtMostOneStraggler
<1>1. IInv => AtMostOneStraggler
  BY DEF IInv, ViewInv, AtMostOneStraggler, VisibleTo
<1> QED BY Inductive, <1>1, PTL

\* No clause is in flight while the only writer is building an iterator.
NothingInFlight == \A i \in Iterators : Built(i) => inFlight[i] = None

\* Without the parser thread, no iterator starts in the middle of an append.
LEMMA WorkerAlone ==
  ASSUME Parser \notin Threads
  PROVE  IInv /\ NothingInFlight /\ [Next]_vars => NothingInFlight'
<1> SUFFICES ASSUME IInv, NothingInFlight, [Next]_vars PROVE NothingInFlight'
  OBVIOUS
<1> USE ThreadsAssumption
<1>0. Threads = {Worker} /\ TypeOK
  BY DEF IInv
<1>1. ASSUME NEW i \in Iterators, NewIterator(i) PROVE NothingInFlight'
  <2>1. Stamped = None
    BY <1>0, <1>1 DEF NewIterator, Stamped
  <2> QED BY <1>0, <1>1, <2>1 DEF NewIterator, NothingInFlight, Built, TypeOK
<1>2. ASSUME NEW i \in Iterators, ScanStep(i) \/ Invalidate(i)
      PROVE  NothingInFlight'
  BY <1>0, <1>2 DEF ScanStep, SkipHidden, Offer, Invalidate, Advance,
                    NothingInFlight, Built, TypeOK
<1>3. CASE UNCHANGED iterVars
  BY <1>3 DEF iterVars, NothingInFlight, Built
<1>4. ASSUME NEW t \in Threads,
             AppendStep(t) \/ \E c \in Clauses : AppendCall(t, c)
      PROVE  UNCHANGED iterVars
  BY <1>4 DEF AppendStep, AppendCall, AppendLock, AppendStamp, AppendPush
<1>5. ASSUME RetractStep \/ \E M \in SUBSET Facts : RetractCall(M)
      PROVE  UNCHANGED iterVars
  BY <1>5 DEF RetractStep, RetractCall, RetractSkip, RetractNone, RetractHit
<1>6. CASE UNCHANGED vars
  BY <1>3, <1>6 DEF vars
<1> QED BY <1>1, <1>2, <1>3, <1>4, <1>5, <1>6 DEF Next

\* The logical update view of SPEC.md section 13, where nothing is parsed while
\* a query runs: the view of a search is exactly the database it started on.
THEOREM ViewsFrozen ==
  ASSUME Parser \notin Threads
  PROVE  Spec => []FrozenView
<1>1. Init => NothingInFlight
  BY DEF Init, NothingInFlight, Built
<1>2. IInv /\ NothingInFlight => FrozenView
  <2> SUFFICES ASSUME IInv, NothingInFlight, NEW i \in Iterators, Built(i)
               PROVE  VisibleTo(i) = view[i]
    BY DEF FrozenView
  <2>1. /\ view[i] \subseteq VisibleTo(i)
        /\ VisibleTo(i) \subseteq view[i] \cup {None}
    BY DEF IInv, ViewInv, NothingInFlight, VisibleTo
  <2>2. None \notin VisibleTo(i)
    BY ThreadsAssumption DEF IInv, TypeOK, VisibleTo, Listed
  <2> QED BY <2>1, <2>2
<1>3. IInv /\ NothingInFlight /\ [Next]_vars => NothingInFlight'
  BY WorkerAlone
<1> QED BY Inductive, <1>1, <1>2, <1>3, PTL DEF Spec

-----------------------------------------------------------------------------

\* What a retract() scan has passed is not retractable: only the worker
\* retires, and the parser pushes behind the scan.
ScanInv ==
  pc[Worker] = "retracting" =>
    /\ retractPos \in 1..(Len(listClauses) + 1)
    /\ \A k \in 1..Len(listClauses) :
         k < retractPos => ~Retractable(listClauses[k])

\* The scan of retract() never has a live match behind it: clauses are pushed at
\* the end, and only the worker retires any.
LEMMA NextScanInv == IInv /\ ScanInv /\ [Next]_vars => ScanInv'
<1> SUFFICES ASSUME IInv, ScanInv, [Next]_vars PROVE ScanInv'
  OBVIOUS
<1> USE BuiltinsAssumption, ThreadsAssumption
<1>0. TypeOK /\ MutexInv /\ Len(listClauses) \in Nat /\ retractPos \in Nat
  BY DEF IInv, TypeOK
<1>1. ASSUME NEW t \in Threads, AppendPush(t) PROVE ScanInv'
  <2>1. pending[t] \in Clauses
    BY <1>0, <1>1 DEF AppendPush, MutexInv, Handing, TypeOK
  <2>2. /\ Len(listClauses') = Len(listClauses) + 1
        /\ \A k \in 1..Len(listClauses) : listClauses'[k] = listClauses[k]
    BY <1>0, <1>1, <2>1, PushListed DEF AppendPush, TypeOK
  <2>3. /\ pc'[Worker] = "retracting" => pc[Worker] = "retracting"
        /\ UNCHANGED <<isRetired, retractMatch, retractPos>>
    BY <1>0, <1>1 DEF AppendPush, scanVars, TypeOK
  <2>4. \A k \in 1..(Len(listClauses) + 1) :
          k < Len(listClauses) + 1 => k \in 1..Len(listClauses)
    BY <1>0
  <2> SUFFICES ASSUME pc'[Worker] = "retracting"
               PROVE  /\ retractPos \in 1..(Len(listClauses) + 2)
                      /\ \A k \in 1..(Len(listClauses) + 1) :
                           k < retractPos => ~Retractable(listClauses'[k])
    BY <1>0, <2>2, <2>3 DEF ScanInv, Retractable
  <2>5. /\ retractPos \in 1..(Len(listClauses) + 1)
        /\ \A k \in 1..Len(listClauses) :
             k < retractPos => ~Retractable(listClauses[k])
    BY <2>3 DEF ScanInv
  <2>6. \A k \in 1..(Len(listClauses) + 1) :
          k < retractPos => k \in 1..Len(listClauses)
    BY <1>0, <2>5
  <2>7. retractPos \in 1..(Len(listClauses) + 2)
    BY <1>0, <2>5
  <2> QED BY <2>2, <2>5, <2>6, <2>7
<1>2. ASSUME NEW t \in Threads,
             \/ \E c \in Clauses : AppendCall(t, c)
             \/ AppendLock(t) \/ AppendStamp(t)
      PROVE  ScanInv'
  <2>1. /\ pc'[Worker] = "retracting" => pc[Worker] = "retracting"
        /\ UNCHANGED <<listClauses, isRetired, retractMatch, retractPos>>
    BY <1>0, <1>2 DEF AppendCall, AppendLock, AppendStamp, dbVars, scanVars, TypeOK
  <2> QED BY <2>1 DEF ScanInv, Retractable
<1>3. ASSUME NEW M \in SUBSET Facts, RetractCall(M) PROVE ScanInv'
  BY <1>0, <1>3 DEF RetractCall, dbVars, ScanInv
<1>4. CASE RetractSkip
  <2>1. /\ pc[Worker] = "retracting"
        /\ retractPos <= Len(listClauses)
        /\ ~Retractable(listClauses[retractPos])
        /\ retractPos' = retractPos + 1
        /\ UNCHANGED <<listClauses, isRetired, retractMatch>>
    BY <1>4 DEF RetractSkip, dbVars
  <2>2. \A k \in 1..Len(listClauses) :
          k < retractPos + 1 => k < retractPos \/ k = retractPos
    BY <1>0
  <2>3. \A k \in 1..Len(listClauses) :
          k < retractPos + 1 => ~Retractable(listClauses[k])
    BY <2>1, <2>2 DEF ScanInv
  <2>4. retractPos + 1 \in 1..(Len(listClauses) + 1)
    BY <1>0, <2>1
  <2> QED BY <2>1, <2>3, <2>4 DEF ScanInv, Retractable
<1>5. CASE RetractNone \/ RetractHit
  BY <1>0, <1>5 DEF RetractNone, RetractHit, ScanInv, TypeOK
<1>6. CASE UNCHANGED <<dbVars, lockVars, scanVars>>
  BY <1>6 DEF dbVars, lockVars, scanVars, ScanInv, Retractable
<1>7. ASSUME NEW i \in Iterators, NewIterator(i) \/ ScanStep(i) \/ Invalidate(i)
      PROVE  UNCHANGED <<dbVars, lockVars, scanVars>>
  BY <1>7 DEF NewIterator, ScanStep, SkipHidden, Offer, Invalidate
<1> QED
  BY <1>1, <1>2, <1>3, <1>4, <1>5, <1>6, <1>7
  DEF Next, AppendStep, RetractStep, vars

\* Every step is one a retract() may take.
LEMMA StepRetracts == IInv /\ ScanInv /\ [Next]_vars => RetractStepOK
<1> SUFFICES ASSUME IInv, ScanInv, [Next]_vars PROVE RetractStepOK
  OBVIOUS
<1> USE ThreadsAssumption
<1>0. TypeOK /\ Len(listClauses) \in Nat /\ retractPos \in Nat
  BY DEF IInv, TypeOK
<1>1. CASE RetractHit
  <2> DEFINE r == listClauses[retractPos]
  <2>1. /\ r \in Clauses /\ Retractable(r)
        /\ isRetired' # isRetired
        /\ \A c \in Clauses : retireGen'[c] # retireGen[c] => c = r
        /\ retractPos \in 1..Len(listClauses)
    BY <1>0, <1>1 DEF RetractHit, Retractable, TypeOK, ScanInv
  <2>2. \A j \in 1..(retractPos - 1) :
          j \in 1..Len(listClauses) /\ j < retractPos
    BY <1>0, <2>1
  <2>3. \A j \in 1..(retractPos - 1) : ~Retractable(listClauses[j])
    BY <1>1, <2>2 DEF ScanInv, RetractHit
  <2> QED BY <2>1, <2>3 DEF RetractStepOK, Retractable
<1>2. CASE RetractNone
  <2>1. \A k \in 1..Len(listClauses) : ~Retractable(listClauses[k])
    BY <1>0, <1>2 DEF RetractNone, ScanInv
  <2> QED BY <1>2, <2>1 DEF RetractStepOK, RetractNone, Retractable, dbVars, Listed
<1>3. CASE /\ UNCHANGED retireGen
           /\ pc[Worker] = "retracting" => pc'[Worker] = "retracting"
  BY <1>3 DEF RetractStepOK
<1>4. CASE RetractSkip
  BY <1>3, <1>4 DEF RetractSkip, dbVars, lockVars
<1>5. ASSUME NEW t \in Threads,
             AppendStep(t) \/ \E c \in Clauses : AppendCall(t, c)
      PROVE  RetractStepOK
  BY <1>0, <1>3, <1>5 DEF AppendStep, AppendCall, AppendLock, AppendStamp,
                          AppendPush, dbVars, TypeOK
<1>6. ASSUME NEW M \in SUBSET Facts, RetractCall(M) PROVE RetractStepOK
  BY <1>3, <1>6 DEF RetractCall, dbVars
<1>7. ASSUME NEW i \in Iterators, NewIterator(i) \/ ScanStep(i) \/ Invalidate(i)
      PROVE  RetractStepOK
  BY <1>3, <1>7 DEF NewIterator, ScanStep, SkipHidden, Offer, Invalidate,
                    dbVars, lockVars
<1>8. CASE UNCHANGED vars
  BY <1>3, <1>8 DEF vars, dbVars, lockVars
<1> QED
  BY <1>1, <1>2, <1>4, <1>5, <1>6, <1>7, <1>8 DEF Next, RetractStep

\* retract() retires the first live match, nothing twice, and gives up only
\* when nothing matches, with the parser pushing clauses during its scan.
THEOREM RetractIsFirstMatch == Spec => RetractTakesFirst
<1>1. Init => ScanInv
  BY ThreadsAssumption DEF Init, ScanInv
<1> QED
  BY Inductive, <1>1, NextScanInv, StepRetracts, PTL DEF Spec, RetractTakesFirst

-----------------------------------------------------------------------------
(* What an iterator has offered.                                           *)

\* The positions an iterator has passed that its snapshot shows.
PositionsPassed(i) ==
  {k \in 1..Len(listClauses) :
     k < itClause[i] /\ Visible(listClauses[k], snapshotGen[i])}

\* An iterator has offered what its snapshot shows of the list so far, in list
\* order.  At the end, nothing of its view is left: what is pushed later is not
\* in it, and neither is the clause in flight when the iterator was built.
OfferInv ==
  /\ isRetired \subseteq Listed
  /\ \A i \in Iterators :
       /\ iterState[i] = "none" => offered[i] = <<>>
       /\ Built(i) => inFlight[i] \notin view[i]
       /\ iterState[i] \in {"scan", "end"} =>
            /\ itClause[i] \in 1..(Len(listClauses) + 1)
            /\ offered[i] = Selected(listClauses, PositionsPassed(i))
       /\ iterState[i] = "end" =>
            \A k \in 1..Len(listClauses) :
              itClause[i] <= k => listClauses[k] \notin view[i]

\* What the writers may do to the list and the tombstones in one step.
ListStep ==
  \/ UNCHANGED <<listClauses, isRetired>>
  \/ /\ UNCHANGED isRetired
     /\ \E c \in Clauses \ Listed : listClauses' = Append(listClauses, c)
  \/ /\ UNCHANGED listClauses
     /\ \E k \in 1..Len(listClauses) :
          /\ listClauses[k] \notin isRetired
          /\ isRetired' = isRetired \cup {listClauses[k]}

\* Every iterator sees of the listed clauses what it saw before.
SameViews ==
  \A i \in Iterators, c \in Listed : Built(i) =>
    (Visible(c, snapshotGen[i])' <=> Visible(c, snapshotGen[i]))

\* A step that moves no iterator pushes one new clause, retires one or leaves
\* the list alone, and changes nothing any iterator sees of what was listed.
LEMMA WritersKeepViews ==
  ASSUME IInv, ScanInv, [Next]_vars, UNCHANGED iterVars
  PROVE  ListStep /\ SameViews
<1> USE BuiltinsAssumption, ThreadsAssumption
<1>0. /\ TypeOK /\ MutexInv /\ StampInv /\ ViewInv
      /\ generation \in Nat /\ retractPos \in Nat /\ Len(listClauses) \in Nat
      /\ \A i \in Iterators : snapshotGen[i] \in Nat
      /\ \A c \in Clauses : appendGen[c] \in Nat /\ retireGen[c] \in Nat
      /\ Listed \subseteq Clauses
  BY DEF IInv, TypeOK, Listed
<1>1. CASE UNCHANGED dbVars
  BY <1>1 DEF ListStep, SameViews, Visible, dbVars, iterVars
<1>2. ASSUME NEW t \in Threads, AppendStamp(t) PROVE ListStep /\ SameViews
  <2>1. pending[t] \in Clauses /\ pending[t] \notin Listed
    BY <1>0, <1>2 DEF AppendStamp, MutexInv, Handing, TypeOK
  <2>2. \A c \in Listed : appendGen'[c] = appendGen[c]
    BY <1>0, <1>2, <2>1 DEF AppendStamp, TypeOK
  <2> QED
    BY <1>2, <2>2 DEF AppendStamp, ListStep, SameViews, Visible, iterVars
<1>3. ASSUME NEW t \in Threads, AppendPush(t) PROVE ListStep /\ SameViews
  <2>1. pending[t] \in Clauses \ Listed
    BY <1>0, <1>3 DEF AppendPush, MutexInv, Handing, TypeOK
  <2> QED BY <1>3, <2>1 DEF AppendPush, ListStep, SameViews, Visible, iterVars
<1>4. CASE RetractHit
  <2> DEFINE r == listClauses[retractPos]
  <2>1. /\ retractPos \in 1..Len(listClauses)
        /\ r \notin isRetired /\ r \in Clauses
        /\ isRetired' = isRetired \cup {r}
        /\ retireGen' = [retireGen EXCEPT ![r] = generation + 1]
        /\ UNCHANGED <<listClauses, appendGen>>
    BY <1>0, <1>4 DEF RetractHit, Retractable, ScanInv, TypeOK
  <2>2. ListStep
    BY <2>1 DEF ListStep
  <2>3. ASSUME NEW i \in Iterators, NEW c \in Listed, Built(i)
        PROVE  Visible(c, snapshotGen[i])' <=> Visible(c, snapshotGen[i])
    <3>1. snapshotGen[i] <= generation /\ snapshotGen'[i] = snapshotGen[i]
      BY <1>0, <2>3 DEF ViewInv, iterVars
    <3>2. CASE c = r
      <4>1. retireGen'[c] = generation + 1 /\ c \in isRetired' /\ c \notin isRetired
        BY <1>0, <2>1, <3>2 DEF TypeOK
      <4>2. ~(retireGen'[c] <= snapshotGen[i])
        BY <1>0, <3>1, <4>1
      <4> QED BY <2>1, <3>1, <4>1, <4>2 DEF Visible
    <3>3. CASE c # r
      <4>1. retireGen'[c] = retireGen[c] /\ (c \in isRetired' <=> c \in isRetired)
        BY <1>0, <2>1, <3>3 DEF TypeOK
      <4> QED BY <2>1, <3>1, <4>1 DEF Visible
    <3> QED BY <3>2, <3>3
  <2> QED BY <2>2, <2>3 DEF SameViews
<1>5. ASSUME NEW t \in Threads, AppendLock(t) \/ \E c \in Clauses : AppendCall(t, c)
      PROVE  UNCHANGED dbVars
  BY <1>5 DEF AppendLock, AppendCall
<1>6. ASSUME \/ RetractSkip \/ RetractNone
             \/ \E M \in SUBSET Facts : RetractCall(M)
      PROVE  UNCHANGED dbVars
  BY <1>6 DEF RetractSkip, RetractNone, RetractCall
<1>7. ASSUME NEW i \in Iterators, NewIterator(i) \/ ScanStep(i) \/ Invalidate(i)
      PROVE  UNCHANGED dbVars
  BY <1>7 DEF NewIterator, ScanStep, SkipHidden, Offer, Invalidate
<1>8. CASE UNCHANGED vars
  BY <1>1, <1>8 DEF vars
<1> QED
  BY <1>1, <1>2, <1>3, <1>4, <1>5, <1>6, <1>7, <1>8
  DEF Next, AppendStep, RetractStep

\* An iterator's step: where it stands, what it has offered, and nothing else.
\* The list's clause it leaves behind is offered when its snapshot shows it.
IteratorStep(i) ==
  /\ UNCHANGED <<dbVars, lockVars, snapshotGen, view, inFlight>>
  /\ iterState[i] = "scan" /\ itClause[i] \in 1..Len(listClauses)
  /\ \A j \in Iterators \ {i} :
       /\ iterState'[j] = iterState[j] /\ itClause'[j] = itClause[j]
       /\ offered'[j] = offered[j]
  /\ iterState'[i] = IF itClause[i] < Len(listClauses) THEN "scan" ELSE "end"
  /\ itClause'[i] = itClause[i] + 1
  /\ offered'[i] = IF Visible(listClauses[itClause[i]], snapshotGen[i])
                     THEN Append(offered[i], listClauses[itClause[i]])
                     ELSE offered[i]

LEMMA ScanSteps ==
  ASSUME IInv, NEW i \in Iterators, ScanStep(i)
  PROVE  IteratorStep(i)
<1>1. TypeOK /\ PosInv /\ iterState[i] = "scan"
  BY DEF IInv, ScanStep, SkipHidden, Offer
<1>2. itClause[i] \in 1..Len(listClauses)
  BY <1>1 DEF PosInv
<1>3. CASE SkipHidden(i)
  BY <1>1, <1>2, <1>3 DEF SkipHidden, Advance, IteratorStep, TypeOK
<1>4. CASE Offer(i)
  BY <1>1, <1>2, <1>4 DEF Offer, Advance, IteratorStep, TypeOK
<1> QED BY <1>3, <1>4 DEF ScanStep

\* A step leaves at most one iterator's fields changed, and which.
LEMMA StepKinds ==
  ASSUME IInv, [Next]_vars
  PROVE  \/ UNCHANGED iterVars
         \/ \E i \in Iterators : NewIterator(i)
         \/ \E i \in Iterators : IteratorStep(i)
         \/ \E i \in Iterators : Invalidate(i)
<1>1. ASSUME NEW t \in Threads,
             AppendStep(t) \/ \E c \in Clauses : AppendCall(t, c)
      PROVE  UNCHANGED iterVars
  BY <1>1 DEF AppendStep, AppendCall, AppendLock, AppendStamp, AppendPush
<1>2. ASSUME RetractStep \/ \E M \in SUBSET Facts : RetractCall(M)
      PROVE  UNCHANGED iterVars
  BY <1>2 DEF RetractStep, RetractCall, RetractSkip, RetractNone, RetractHit
<1>3. CASE UNCHANGED vars
  BY <1>3 DEF vars
<1> QED BY <1>1, <1>2, <1>3, ScanSteps DEF Next

\* A clause stands at one position of the list only.
LEMMA ListedOnce ==
  ASSUME IInv
  PROVE  \A j, k \in 1..Len(listClauses) : listClauses[j] = listClauses[k] => j = k
<1>1. /\ GenerationOrder /\ listClauses \in Seq(Clauses)
      /\ \A c \in Clauses : appendGen[c] \in Nat
  BY DEF IInv, StampInv, TypeOK
<1> SUFFICES ASSUME NEW j \in 1..Len(listClauses), NEW k \in 1..Len(listClauses),
                    j < k, listClauses[j] = listClauses[k]
             PROVE  FALSE
  BY <1>1
<1>2. /\ appendGen[listClauses[j]] < appendGen[listClauses[k]]
      /\ appendGen[listClauses[j]] \in Nat
  BY <1>1 DEF GenerationOrder
<1> QED BY <1>2

\* What a step of the writers leaves at a position.
LEMMA ListStepPositions ==
  ASSUME IInv, ListStep
  PROVE  /\ listClauses' \in Seq(Clauses)
         /\ Len(listClauses) \in Nat
         /\ Len(listClauses') \in {Len(listClauses), Len(listClauses) + 1}
         /\ \A k \in 1..Len(listClauses) : listClauses'[k] = listClauses[k]
         /\ Listed \subseteq Listed'
         /\ \A k \in 1..Len(listClauses') :
              \/ k \in 1..Len(listClauses)
              \/ k = Len(listClauses) + 1 /\ listClauses'[k] \notin Listed
<1>1. listClauses \in Seq(Clauses) /\ Len(listClauses) \in Nat
  BY DEF IInv, TypeOK
<1>2. CASE UNCHANGED listClauses
  BY <1>1, <1>2 DEF Listed
<1>3. ASSUME NEW c \in Clauses \ Listed, listClauses' = Append(listClauses, c)
      PROVE  /\ listClauses' \in Seq(Clauses)
             /\ Len(listClauses') = Len(listClauses) + 1
             /\ \A k \in 1..Len(listClauses) : listClauses'[k] = listClauses[k]
             /\ listClauses'[Len(listClauses) + 1] = c
             /\ Listed \subseteq Listed'
  <2>1. listClauses' \in Seq(Clauses)
    BY <1>1, <1>3
  <2> QED BY <1>1, <1>3, <2>1, PushListed
<1> QED BY <1>1, <1>2, <1>3 DEF ListStep

LEMMA InitOfferInv == Init => OfferInv
<1> SUFFICES ASSUME Init PROVE OfferInv
  OBVIOUS
<1> QED BY DEF Init, OfferInv, Built

\* The writers move no iterator: what an iterator has passed stays where it is,
\* and what they push lies ahead.
LEMMA WritersKeepOffers ==
  ASSUME IInv, OfferInv, ListStep, SameViews, UNCHANGED iterVars
  PROVE  OfferInv'
<1>0. /\ TypeOK /\ ViewInv /\ isRetired \subseteq Listed
      /\ \A i \in Iterators : itClause[i] \in Nat
      /\ \A k \in 1..Len(listClauses) : listClauses[k] \in Listed
  BY DEF IInv, TypeOK, Listed, OfferInv
<1>1. /\ Len(listClauses) \in Nat
      /\ Len(listClauses') \in {Len(listClauses), Len(listClauses) + 1}
      /\ \A k \in 1..Len(listClauses) : listClauses'[k] = listClauses[k]
      /\ Listed \subseteq Listed'
      /\ \A k \in 1..Len(listClauses') :
           \/ k \in 1..Len(listClauses)
           \/ k = Len(listClauses) + 1 /\ listClauses'[k] \notin Listed
  BY ListStepPositions
<1>2. isRetired' \subseteq Listed'
  BY <1>0, <1>1 DEF ListStep
<1>3. ASSUME NEW i \in Iterators, iterState[i] \in {"scan", "end"}
      PROVE  /\ itClause[i] \in 1..(Len(listClauses') + 1)
             /\ offered[i] = Selected(listClauses', PositionsPassed(i)')
  <2> DEFINE P == PositionsPassed(i)
  <2>1. itClause[i] \in 1..(Len(listClauses) + 1) /\ offered[i] = Selected(listClauses, P)
    BY <1>3 DEF OfferInv
  <2>2. \A k \in 1..Len(listClauses') : k < itClause[i] => k \in 1..Len(listClauses)
    BY <1>1, <2>1
  <2>3. \A k \in 1..Len(listClauses) : k \in 1..Len(listClauses')
    BY <1>1
  <2>4. \A k \in 1..Len(listClauses) :
          Visible(listClauses[k], snapshotGen[i])'
            <=> Visible(listClauses[k], snapshotGen[i])
    <3> SUFFICES ASSUME NEW k \in 1..Len(listClauses)
                 PROVE  Visible(listClauses[k], snapshotGen[i])'
                          <=> Visible(listClauses[k], snapshotGen[i])
      OBVIOUS
    <3> DEFINE c == listClauses[k]
    <3>1. c \in Listed /\ Built(i) /\ listClauses'[k] = c
      BY <1>0, <1>1, <1>3 DEF Built
    <3> HIDE DEF c
    <3>2. \A d \in Listed : Visible(d, snapshotGen[i])' <=> Visible(d, snapshotGen[i])
      BY <3>1 DEF SameViews
    <3>3. Visible(c, snapshotGen[i]) <=>
            /\ appendGen'[c] <= snapshotGen'[i]
            /\ ~(c \in isRetired' /\ retireGen'[c] <= snapshotGen'[i])
      BY <3>1, <3>2 DEF Visible
    <3> QED BY <3>1, <3>3 DEF Visible, c
  <2>5. P' = P
    BY <2>2, <2>3, <2>4 DEF PositionsPassed, iterVars
  <2>6. P \in SUBSET (1..Len(listClauses))
    BY DEF PositionsPassed
  <2> HIDE DEF P
  <2>7. Selected(listClauses', P) = Selected(listClauses, P)
    BY <1>1, <2>6, SelectedSame
  <2>8. itClause[i] \in 1..(Len(listClauses') + 1)
    BY <1>0, <1>1, <2>1
  <2> QED BY <2>1, <2>5, <2>7, <2>8 DEF P
<1>4. ASSUME NEW i \in Iterators, iterState[i] = "end",
             NEW k \in 1..Len(listClauses'), itClause[i] <= k
      PROVE  listClauses'[k] \notin view[i]
  <2>1. CASE k \in 1..Len(listClauses)
    BY <1>1, <1>4, <2>1 DEF OfferInv
  <2>2. CASE listClauses'[k] \notin Listed
    BY <1>0, <1>4, <2>2 DEF ViewInv, Built
  <2> QED BY <1>1, <2>1, <2>2
<1> QED BY <1>0, <1>2, <1>3, <1>4 DEF OfferInv, iterVars, Built

\* A new iterator has offered nothing, and the clause in flight is not listed.
LEMMA NewKeepsOffers ==
  ASSUME IInv, OfferInv, NEW i \in Iterators, NewIterator(i)
  PROVE  OfferInv'
<1>0. /\ TypeOK /\ MutexInv /\ PosInv /\ Len(listClauses) \in Nat
  BY DEF IInv, TypeOK
<1>1. /\ UNCHANGED dbVars /\ UNCHANGED offered /\ Listed' = Listed
      /\ iterState[i] = "none" /\ iterState'[i] = "scan" /\ itClause'[i] = 1
      /\ view'[i] = Listed \ isRetired /\ inFlight'[i] = Stamped
      /\ \A j \in Iterators \ {i} :
           /\ iterState'[j] = iterState[j] /\ itClause'[j] = itClause[j]
           /\ snapshotGen'[j] = snapshotGen[j]
           /\ view'[j] = view[j] /\ inFlight'[j] = inFlight[j]
  BY <1>0 DEF NewIterator, dbVars, Listed, TypeOK
<1>2. Stamped \notin Listed
  <2>1. None \notin Listed /\ \A t \in Threads : pending[t] \notin Listed
    BY <1>0, ThreadsAssumption DEF MutexInv, TypeOK, Listed
  <2> QED BY <2>1 DEF Stamped
<1>3. ASSUME NEW j \in Iterators \ {i} PROVE PositionsPassed(j)' = PositionsPassed(j)
  BY <1>1 DEF PositionsPassed, Visible, dbVars
<1>4. PositionsPassed(i)' = {}
  BY <1>0, <1>1 DEF PositionsPassed, dbVars
<1>5. offered[i] = <<>>
  BY <1>1 DEF OfferInv
<1>6. Selected(listClauses, {}) = <<>>
  BY SelectedNothing
<1>7. isRetired' \subseteq Listed'
  BY <1>1 DEF OfferInv, dbVars
<1>8. ASSUME NEW j \in Iterators
      PROVE  /\ iterState'[j] = "none" => offered'[j] = <<>>
             /\ Built(j)' => inFlight'[j] \notin view'[j]
             /\ iterState'[j] \in {"scan", "end"} =>
                  /\ itClause'[j] \in 1..(Len(listClauses') + 1)
                  /\ offered'[j] = Selected(listClauses', PositionsPassed(j)')
             /\ iterState'[j] = "end" =>
                  \A k \in 1..Len(listClauses') :
                    itClause'[j] <= k => listClauses'[k] \notin view'[j]
  <2>1. listClauses' = listClauses
    BY <1>1 DEF dbVars
  <2>2. CASE j = i
    <3>1. offered'[i] = Selected(listClauses, {})
      BY <1>1, <1>5, <1>6
    <3>2. 1 \in 1..(Len(listClauses) + 1)
      BY <1>0
    <3> QED BY <1>1, <1>2, <1>4, <2>1, <2>2, <3>1, <3>2
  <2>3. CASE j # i
    <3>1. /\ iterState'[j] = iterState[j] /\ itClause'[j] = itClause[j]
          /\ offered'[j] = offered[j] /\ PositionsPassed(j)' = PositionsPassed(j)
          /\ inFlight'[j] = inFlight[j] /\ view'[j] = view[j]
      BY <1>1, <1>3, <2>3
    <3> QED BY <2>1, <3>1 DEF OfferInv, Built
  <2> QED BY <2>2, <2>3
<1> QED BY <1>7, <1>8 DEF OfferInv

\* A step of an iterator adds the position it leaves to those it has passed.
LEMMA ScanKeepsOffers ==
  ASSUME IInv, OfferInv, NEW i \in Iterators, IteratorStep(i)
  PROVE  OfferInv'
<1> DEFINE p == itClause[i]
           P == PositionsPassed(i)
           c == listClauses[p]
<1>0. /\ TypeOK /\ listClauses \in Seq(Clauses) /\ Len(listClauses) \in Nat
      /\ p \in 1..Len(listClauses) /\ iterState[i] = "scan"
      /\ offered[i] = Selected(listClauses, P)
  BY DEF IInv, TypeOK, OfferInv, IteratorStep
<1>1. /\ UNCHANGED <<dbVars, snapshotGen, view, inFlight>>
      /\ Listed' = Listed
      /\ \A j \in Iterators \ {i} :
           /\ iterState'[j] = iterState[j] /\ itClause'[j] = itClause[j]
           /\ offered'[j] = offered[j]
      /\ iterState'[i] = IF p < Len(listClauses) THEN "scan" ELSE "end"
      /\ itClause'[i] = p + 1
  BY DEF IteratorStep, Listed, dbVars
<1>2. ASSUME NEW j \in Iterators \ {i} PROVE PositionsPassed(j)' = PositionsPassed(j)
  BY <1>1 DEF PositionsPassed, Visible, dbVars
<1>3. P' = IF Visible(c, snapshotGen[i]) THEN P \cup {p} ELSE P
  <2>1. P' = {k \in 1..Len(listClauses) :
                k < p + 1 /\ Visible(listClauses[k], snapshotGen[i])}
    BY <1>1 DEF PositionsPassed, Visible, dbVars
  <2>2. \A k \in 1..Len(listClauses) : k < p + 1 <=> k < p \/ k = p
    BY <1>0
  <2>3. \A k \in 1..Len(listClauses) :
          k \in P' <=> (k < p \/ k = p) /\ Visible(listClauses[k], snapshotGen[i])
    BY <2>1, <2>2
  <2>4. \A k \in 1..Len(listClauses) :
          k \in P <=> k < p /\ Visible(listClauses[k], snapshotGen[i])
    BY DEF PositionsPassed
  <2>5. P \subseteq 1..Len(listClauses) /\ P' \subseteq 1..Len(listClauses)
    BY <2>1 DEF PositionsPassed
  <2> HIDE DEF P
  <2>6. CASE Visible(c, snapshotGen[i])
    BY <1>0, <2>3, <2>4, <2>5, <2>6
  <2>7. CASE ~Visible(c, snapshotGen[i])
    BY <1>0, <2>3, <2>4, <2>5, <2>7
  <2> QED BY <2>6, <2>7
<1>4. P \in SUBSET (1..Len(listClauses)) /\ \A q \in P : q < p
  BY DEF PositionsPassed
<1>5. offered'[i] = Selected(listClauses, P')
  <2>1. offered'[i] = IF Visible(c, snapshotGen[i]) THEN Append(offered[i], c)
                                                    ELSE offered[i]
    BY DEF IteratorStep
  <2>2. c \in Clauses
    BY <1>0
  <2> HIDE DEF p, P, c
  <2>3. Selected(listClauses, P \cup {p}) = Append(Selected(listClauses, P), listClauses[p])
    BY <1>0, <1>4, SelectedMore
  <2> QED BY <1>0, <1>3, <2>1, <2>3 DEF c
<1>6. ASSUME iterState'[i] = "end", NEW k \in 1..Len(listClauses), p + 1 <= k
      PROVE  FALSE
  BY <1>0, <1>1, <1>6
<1>7. itClause'[i] \in 1..(Len(listClauses) + 1)
  BY <1>0, <1>1
<1> HIDE DEF p, P, c
<1>8. isRetired' \subseteq Listed'
  BY <1>1 DEF OfferInv, dbVars
<1>9. ASSUME NEW j \in Iterators
      PROVE  /\ iterState'[j] = "none" => offered'[j] = <<>>
             /\ Built(j)' => inFlight'[j] \notin view'[j]
             /\ iterState'[j] \in {"scan", "end"} =>
                  /\ itClause'[j] \in 1..(Len(listClauses') + 1)
                  /\ offered'[j] = Selected(listClauses', PositionsPassed(j)')
             /\ iterState'[j] = "end" =>
                  \A k \in 1..Len(listClauses') :
                    itClause'[j] <= k => listClauses'[k] \notin view'[j]
  <2>1. listClauses' = listClauses
    BY <1>1 DEF dbVars
  <2>2. CASE j = i
    <3>1. iterState'[i] # "none" /\ Built(i)
      BY <1>0, <1>1 DEF Built
    <3>2. inFlight'[i] \notin view'[i]
      BY <1>1, <3>1 DEF OfferInv
    <3> QED BY <1>1, <1>5, <1>6, <1>7, <2>1, <2>2, <3>1, <3>2 DEF P
  <2>3. CASE j # i
    <3>1. /\ iterState'[j] = iterState[j] /\ itClause'[j] = itClause[j]
          /\ offered'[j] = offered[j] /\ PositionsPassed(j)' = PositionsPassed(j)
          /\ inFlight'[j] = inFlight[j] /\ view'[j] = view[j]
      BY <1>1, <1>2, <2>3
    <3> QED BY <2>1, <3>1 DEF OfferInv, Built
  <2> QED BY <2>2, <2>3
<1> QED BY <1>8, <1>9 DEF OfferInv

LEMMA NextOfferInv == IInv /\ ScanInv /\ OfferInv /\ [Next]_vars => OfferInv'
<1> SUFFICES ASSUME IInv, ScanInv, OfferInv, [Next]_vars PROVE OfferInv'
  OBVIOUS
<1>1. CASE UNCHANGED iterVars
  BY <1>1, WritersKeepViews, WritersKeepOffers
<1>2. ASSUME NEW i \in Iterators, NewIterator(i) PROVE OfferInv'
  BY <1>2, NewKeepsOffers
<1>3. ASSUME NEW i \in Iterators, IteratorStep(i) PROVE OfferInv'
  BY <1>3, ScanKeepsOffers
<1>4. ASSUME NEW i \in Iterators, Invalidate(i) PROVE OfferInv'
  <2>1. /\ UNCHANGED <<dbVars, snapshotGen, itClause, view, inFlight, offered>>
        /\ iterState[i] # "none" /\ iterState'[i] = "invalidated"
        /\ \A j \in Iterators \ {i} : iterState'[j] = iterState[j]
    BY <1>4 DEF Invalidate, IInv, TypeOK
  <2>2. Listed' = Listed /\ \A j \in Iterators : PositionsPassed(j)' = PositionsPassed(j)
    BY <2>1 DEF dbVars, Listed, PositionsPassed, Visible
  <2> QED BY <2>1, <2>2 DEF OfferInv, Built, dbVars
<1> QED BY <1>1, <1>2, <1>3, <1>4, StepKinds

\* Every scan that reaches the end has offered exactly its view, but for the
\* clause that was being appended when it began.
LEMMA EndIsComplete ==
  ASSUME IInv, OfferInv
  PROVE  CompleteScan
<1> SUFFICES ASSUME NEW i \in Iterators, iterState[i] = "end"
             PROVE  Among(offered[i], Clauses \ {inFlight[i]})
                      = Among(listClauses, view[i])
  BY DEF CompleteScan
<1> DEFINE P == PositionsPassed(i)
           V == Clauses \ {inFlight[i]}
           T == Selected(listClauses, P)
<1>1. /\ listClauses \in Seq(Clauses)
      /\ offered[i] = T
      /\ inFlight[i] \notin view[i]
      /\ Built(i)
      /\ \A k \in 1..Len(listClauses) :
           itClause[i] <= k => listClauses[k] \notin view[i]
      /\ itClause[i] \in Nat /\ Len(listClauses) \in Nat
      /\ view[i] \subseteq Clauses
  BY DEF IInv, TypeOK, OfferInv, Built
<1>2. P \in SUBSET (1..Len(listClauses))
  BY DEF PositionsPassed
<1>3. {p \in P : listClauses[p] \in V}
        = {k \in 1..Len(listClauses) : listClauses[k] \in view[i]}
  <2>1. ASSUME NEW p \in P, listClauses[p] \in V PROVE listClauses[p] \in view[i]
    <3>1. /\ p \in 1..Len(listClauses) /\ listClauses[p] \in Listed
          /\ Visible(listClauses[p], snapshotGen[i])
      BY DEF PositionsPassed, Listed
    <3> QED BY <1>1, <2>1, <3>1 DEF IInv, ViewInv
  <2>2. ASSUME NEW k \in 1..Len(listClauses), listClauses[k] \in view[i]
        PROVE  k \in P /\ listClauses[k] \in V
    <3>1. Visible(listClauses[k], snapshotGen[i])
      BY <1>1, <2>2 DEF IInv, ViewInv
    <3>2. k < itClause[i]
      BY <1>1, <2>2
    <3> QED BY <1>1, <2>2, <3>1, <3>2 DEF PositionsPassed
  <2> HIDE DEF P, V
  <2> QED BY <1>2, <2>1, <2>2
<1> HIDE DEF P, V
<1>4. \A s \in Seq(Clauses) : \A R \in SUBSET (1..Len(s)) :
        Among(Selected(s, R), V) = Selected(s, {p \in R : s[p] \in V})
  BY SelectedTwice
<1>5. Among(T, V) = Selected(listClauses, {p \in P : listClauses[p] \in V})
  BY <1>1, <1>2, <1>4
<1> QED BY <1>1, <1>3, <1>5 DEF Among, V

\* A scan that ran to the end has offered its whole view once and in list order,
\* whatever the parser pushed and the worker retired meanwhile.
THEOREM ScansComplete == Spec => []CompleteScan
<1>1. Init => ScanInv
  BY ThreadsAssumption DEF Init, ScanInv
<1> QED
  BY Inductive, <1>1, InitOfferInv, NextScanInv, NextOfferInv, EndIsComplete, PTL
  DEF Spec

-----------------------------------------------------------------------------
(* The database implements the logical update view.                        *)

\* The entries are the list, and behind it the clause that is on its way there.
LEMMA EntriesTyped ==
  ASSUME IInv
  PROVE  /\ Entries \in Seq(Clauses) /\ Len(Entries) \in Nat
         /\ Len(listClauses) \in Nat
         /\ \A k \in 1..Len(listClauses) :
              k \in 1..Len(Entries) /\ Entries[k] = listClauses[k]
         /\ Len(Entries) \in {Len(listClauses), Len(listClauses) + 1}
         /\ \A k \in 1..Len(Entries) : appendGen[Entries[k]] <= generation
<1>1. /\ listClauses \in Seq(Clauses) /\ Len(listClauses) \in Nat
      /\ \A k \in 1..Len(listClauses) : appendGen[listClauses[k]] <= generation
  BY DEF IInv, TypeOK, StampInv, GenerationOrder
<1>2. CASE Stamped = None
  BY <1>1, <1>2 DEF Entries
<1>3. CASE Stamped # None
  <2>1. PICK t \in Threads : pc[t] = "stamped" /\ Stamped = pending[t]
    BY <1>3 DEF Stamped
  <2>2. Stamped \in Clauses /\ appendGen[Stamped] <= generation
    BY <1>3, <2>1 DEF IInv, TypeOK, StampInv
  <2>3. Entries = Append(listClauses, Stamped)
    BY <1>3 DEF Entries
  <2>4. /\ Entries \in Seq(Clauses) /\ Len(Entries) = Len(listClauses) + 1
        /\ \A k \in 1..Len(listClauses) : Entries[k] = listClauses[k]
        /\ Entries[Len(listClauses) + 1] = Stamped
    BY <1>1, <2>2, <2>3
  <2>5. \A k \in 1..Len(Entries) : k \in 1..Len(listClauses) \/ k = Len(listClauses) + 1
    BY <1>1, <2>4
  <2>6. \A k \in 1..Len(listClauses) : k \in 1..Len(Entries)
    BY <1>1, <2>4
  <2> QED BY <1>1, <2>2, <2>4, <2>5, <2>6
<1> QED BY <1>2, <1>3

\* The abstract database starts with the builtins and no search.
LEMMA InitView == Init => LUV!Init
<1> SUFFICES ASSUME Init PROVE LUV!Init
  OBVIOUS
<1> DEFINE P == LivePositions
           n == Len(Builtins)
<1>0. /\ listClauses = Builtins /\ Builtins \in Seq(Clauses) /\ n \in Nat
      /\ isRetired = {} /\ iterState = [i \in Iterators |-> "none"]
      /\ Entries = Builtins
  BY BuiltinsAssumption DEF Init, Entries, Stamped
<1>1. P = 1..n
  BY <1>0 DEF LivePositions
<1>2. Selected(Builtins, 1..n) = Builtins
  BY <1>0, SelectedAll
<1>3. \A i \in Iterators : PositionsAhead(i) = {}
  BY <1>0 DEF PositionsAhead
<1>4. \A i \in Iterators : Selected(Entries, PositionsAhead(i)) = <<>>
  BY <1>3, SelectedNothing
<1>5. {i \in Iterators : Built(i)} = {}
  BY <1>0 DEF Built
<1> HIDE DEF P
<1> QED BY <1>0, <1>1, <1>2, <1>4, <1>5 DEF LUV!Init, P

\* What no iterator's step touches is what the abstract database keeps.
LEMMA LiveStays ==
  ASSUME UNCHANGED <<Entries, isRetired>>
  PROVE  LivePositions' = LivePositions
                   /\ Selected(Entries, LivePositions)'
                        = Selected(Entries, LivePositions)
<1>1. LivePositions' = LivePositions
  BY DEF LivePositions
<1> QED BY <1>1

\* What the writers may do to the entries and the tombstones in one step.
EntryStep ==
  \/ UNCHANGED <<Entries, isRetired>>
  \/ /\ UNCHANGED isRetired
     /\ \E c \in Clauses \ Listed :
          /\ Entries = listClauses
          /\ Entries' = Append(Entries, c)
          /\ \A i \in Iterators : Built(i) => ~(appendGen'[c] <= snapshotGen'[i])
  \/ /\ UNCHANGED Entries
     /\ Entries = listClauses
     /\ \E k \in 1..Len(listClauses) :
          /\ listClauses[k] \notin isRetired
          /\ isRetired' = isRetired \cup {listClauses[k]}

\* Every iterator sees of the entries what it saw before.
SameEntries ==
  \A i \in Iterators : Built(i) =>
    \A k \in 1..Len(Entries) :
      Visible(Entries[k], snapshotGen[i])' <=> Visible(Entries[k], snapshotGen[i])

\* A writer in its critical section is the only one.
LEMMA OneStamps ==
  ASSUME IInv, NEW t \in Threads, Writing(t)
  PROVE  \A u \in Threads : pc[u] \in {"locked", "stamped"} => u = t
BY DEF IInv, MutexInv, Writing

\* A step that moves no iterator adds one entry, which no iterator's snapshot
\* covers, when it stamps; retires one; or leaves them alone.
LEMMA WritersKeepEntries ==
  ASSUME IInv, ScanInv, [Next]_vars, UNCHANGED iterVars
  PROVE  EntryStep /\ SameEntries
<1> USE ThreadsAssumption
<1>0. /\ TypeOK /\ MutexInv /\ ListStep /\ SameViews /\ generation \in Nat
      /\ \A i \in Iterators : Built(i) => snapshotGen[i] <= generation
      /\ \A i \in Iterators : snapshotGen[i] \in Nat /\ snapshotGen'[i] = snapshotGen[i]
  BY WritersKeepViews DEF IInv, TypeOK, ViewInv, iterVars
<1>1. ASSUME UNCHANGED dbVars, Stamped' = Stamped PROVE EntryStep /\ SameEntries
  <2>1. Entries' = Entries
    BY <1>1 DEF Entries, dbVars
  <2> QED BY <1>0, <1>1, <2>1 DEF EntryStep, SameEntries, Visible, dbVars
<1>2. ASSUME Entries = listClauses, Entries' = Entries \/ UNCHANGED isRetired,
             listClauses' = listClauses, \A k \in 1..Len(listClauses) : Entries'[k] = listClauses[k]
      PROVE  SameEntries
  <2> SUFFICES ASSUME NEW i \in Iterators, Built(i), NEW k \in 1..Len(listClauses)
               PROVE  Visible(Entries[k], snapshotGen[i])'
                        <=> Visible(Entries[k], snapshotGen[i])
    BY <1>2 DEF SameEntries
  <2> DEFINE c == listClauses[k]
  <2>1. c \in Listed /\ Entries[k] = c /\ Entries'[k] = c
    BY <1>2 DEF Listed
  <2> HIDE DEF c
  <2>2. Visible(c, snapshotGen[i]) <=>
          /\ appendGen'[c] <= snapshotGen'[i]
          /\ ~(c \in isRetired' /\ retireGen'[c] <= snapshotGen'[i])
    <3>1. \A d \in Listed : Visible(d, snapshotGen[i])' <=> Visible(d, snapshotGen[i])
      BY <1>0 DEF SameViews
    <3> QED BY <2>1, <3>1 DEF Visible
  <2> QED BY <2>1, <2>2 DEF Visible
<1>3. ASSUME NEW t \in Threads, AppendStamp(t) PROVE EntryStep /\ SameEntries
  <2> DEFINE c == pending[t]
  <2>1. /\ pc[t] = "locked" /\ pc' = [pc EXCEPT ![t] = "stamped"]
        /\ UNCHANGED <<pending, listClauses, isRetired>>
        /\ appendGen' = [appendGen EXCEPT ![c] = generation + 1]
    BY <1>3 DEF AppendStamp
  <2>2. c \in Clauses \ Listed
    BY <1>0, <2>1 DEF MutexInv, Handing, TypeOK
  <2>3. \A u \in Threads : pc[u] # "stamped"
    BY <2>1, OneStamps DEF Writing
  <2>4. \A u \in Threads : pc'[u] = "stamped" <=> u = t
    BY <1>0, <2>1, <2>3 DEF TypeOK
  <2>5. Stamped = None /\ Stamped' = c
    BY <2>1, <2>3, <2>4 DEF Stamped
  <2>6. c # None /\ appendGen'[c] = generation + 1
    BY <1>0, <2>1, <2>2 DEF TypeOK
  <2>7. Entries = listClauses /\ Entries' = Append(listClauses, c)
    BY <2>1, <2>5, <2>6 DEF Entries
  <2>8. \A i \in Iterators : Built(i) => ~(appendGen'[c] <= snapshotGen'[i])
    BY <1>0, <2>6
  <2>9. \A k \in 1..Len(listClauses) : Entries'[k] = listClauses[k]
    BY <1>0, <2>2, <2>7 DEF TypeOK
  <2> HIDE DEF c
  <2> QED BY <1>2, <2>1, <2>2, <2>7, <2>8, <2>9 DEF EntryStep
<1>4. ASSUME NEW t \in Threads, AppendPush(t) PROVE EntryStep /\ SameEntries
  <2>1. /\ pc[t] = "stamped" /\ pc' = [pc EXCEPT ![t] = "idle"]
        /\ listClauses' = Append(listClauses, pending[t])
        /\ UNCHANGED <<appendGen, retireGen, isRetired>>
    BY <1>4 DEF AppendPush
  <2>2. \A u \in Threads : pc[u] = "stamped" <=> u = t
    BY <2>1, OneStamps DEF Writing
  <2>3. \A u \in Threads : pc'[u] # "stamped"
    BY <1>0, <2>1, <2>2 DEF TypeOK
  <2>4. Stamped = pending[t] /\ pending[t] # None /\ Stamped' = None
    BY <1>0, <2>1, <2>2, <2>3 DEF Stamped, MutexInv, Handing
  <2>5. Entries' = Entries
    BY <2>1, <2>4 DEF Entries
  <2> QED BY <1>0, <2>1, <2>5 DEF EntryStep, SameEntries, Visible
<1>5. CASE RetractHit
  <2>1. /\ pc[Worker] = "retracting" /\ pc' = [pc EXCEPT ![Worker] = "idle"]
        /\ clauseDbMutex = None /\ UNCHANGED listClauses
        /\ retractPos <= Len(listClauses) /\ Retractable(listClauses[retractPos])
        /\ isRetired' = isRetired \cup {listClauses[retractPos]}
    BY <1>5 DEF RetractHit
  <2>2. retractPos \in 1..Len(listClauses) /\ listClauses[retractPos] \notin isRetired
    BY <1>0, <2>1 DEF ScanInv, Retractable, TypeOK
  <2>3. \A u \in Threads : pc[u] # "stamped" /\ pc'[u] # "stamped"
    BY <1>0, <2>1 DEF TypeOK, MutexInv, Writing
  <2>4. Entries = listClauses /\ Entries' = listClauses
    BY <2>1, <2>3 DEF Stamped, Entries
  <2> QED BY <1>2, <2>1, <2>2, <2>4 DEF EntryStep
<1>6. ASSUME \A t \in Threads : pc'[t] = "stamped" <=> pc[t] = "stamped",
             \A t \in Threads : pc[t] = "stamped" => pending'[t] = pending[t]
      PROVE  Stamped' = Stamped
  <2>1. CASE \A t \in Threads : pc[t] # "stamped"
    BY <1>6, <2>1 DEF Stamped
  <2>2. ASSUME NEW t \in Threads, pc[t] = "stamped" PROVE Stamped' = Stamped
    <3>1. \A u \in Threads : pc[u] = "stamped" <=> u = t
      BY <2>2, OneStamps DEF Writing
    <3>2. \A u \in Threads : pc'[u] = "stamped" <=> u = t
      BY <1>6, <3>1
    <3>3. Stamped = pending[t]
      BY <3>1 DEF Stamped
    <3>4. Stamped' = pending'[t]
      BY <3>2 DEF Stamped
    <3> QED BY <1>6, <2>2, <3>3, <3>4
  <2> QED BY <2>1, <2>2
<1>7. ASSUME NEW t \in Threads, AppendLock(t) \/ \E c \in Clauses : AppendCall(t, c)
      PROVE  EntryStep /\ SameEntries
  <2>1. UNCHANGED dbVars /\ Stamped' = Stamped
    BY <1>0, <1>6, <1>7 DEF AppendLock, AppendCall, TypeOK
  <2> QED BY <1>1, <2>1
<1>8. ASSUME \/ RetractSkip \/ RetractNone
             \/ \E M \in SUBSET Facts : RetractCall(M)
      PROVE  EntryStep /\ SameEntries
  <2>1. UNCHANGED dbVars /\ Stamped' = Stamped
    BY <1>0, <1>6, <1>8 DEF RetractSkip, RetractNone, RetractCall, TypeOK, lockVars
  <2> QED BY <1>1, <2>1
<1>9. ASSUME NEW i \in Iterators, NewIterator(i) \/ ScanStep(i) \/ Invalidate(i)
      PROVE  EntryStep /\ SameEntries
  <2>1. UNCHANGED dbVars /\ UNCHANGED lockVars
    BY <1>9 DEF NewIterator, ScanStep, SkipHidden, Offer, Invalidate
  <2>2. Stamped' = Stamped
    BY <2>1 DEF Stamped, lockVars
  <2> QED BY <1>1, <2>1, <2>2
<1>10. CASE UNCHANGED vars
  <2>1. UNCHANGED dbVars /\ Stamped' = Stamped
    BY <1>10 DEF vars, Stamped, lockVars
  <2> QED BY <1>1, <2>1
<1> QED
  BY <1>3, <1>4, <1>5, <1>7, <1>8, <1>9, <1>10 DEF Next, AppendStep, RetractStep

\* No writer gives or takes anything from a search under way.
LEMMA WritersKeepRests ==
  ASSUME IInv, EntryStep, SameEntries, UNCHANGED iterVars, NEW i \in Iterators
  PROVE  Selected(Entries, PositionsAhead(i))' = Selected(Entries, PositionsAhead(i))
<1> DEFINE P == PositionsAhead(i)
<1>0. Entries \in Seq(Clauses) /\ Len(Entries) \in Nat
  BY EntriesTyped
<1>1. P \in SUBSET (1..Len(Entries))
  BY DEF PositionsAhead
<1>2. /\ Len(Entries') \in {Len(Entries), Len(Entries) + 1}
      /\ \A k \in 1..Len(Entries) : Entries'[k] = Entries[k]
      /\ Built(i) => \A k \in 1..Len(Entries') :
                       k \in 1..Len(Entries) \/ ~Visible(Entries[k], snapshotGen[i])'
  <2>1. CASE Entries' = Entries
    BY <1>0, <2>1
  <2>2. ASSUME NEW c \in Clauses, Entries' = Append(Entries, c),
               Built(i) => ~(appendGen'[c] <= snapshotGen'[i])
        PROVE  /\ Len(Entries') = Len(Entries) + 1
               /\ \A k \in 1..Len(Entries) : Entries'[k] = Entries[k]
               /\ Built(i) => \A k \in 1..Len(Entries') :
                                k \in 1..Len(Entries) \/ ~Visible(Entries[k], snapshotGen[i])'
    <3>1. /\ Len(Entries') = Len(Entries) + 1 /\ Entries'[Len(Entries) + 1] = c
          /\ \A k \in 1..Len(Entries) : Entries'[k] = Entries[k]
      BY <1>0, <2>2
    <3>2. \A k \in 1..Len(Entries') : k \in 1..Len(Entries) \/ k = Len(Entries) + 1
      BY <1>0, <3>1
    <3> QED BY <2>2, <3>1, <3>2 DEF Visible
  <2> QED BY <2>1, <2>2 DEF EntryStep
<1>3. \A k \in 1..Len(Entries) : k \in 1..Len(Entries')
  BY <1>0, <1>2
<1>4. P' = P
  <2>1. CASE iterState[i] # "scan"
    BY <2>1 DEF PositionsAhead, iterVars
  <2>2. CASE iterState[i] = "scan"
    <3>1. Built(i)
      BY <2>2 DEF Built
    <3>2. P' = {k \in 1..Len(Entries') :
                  itClause[i] <= k /\ Visible(Entries[k], snapshotGen[i])'}
      BY <2>2 DEF PositionsAhead, iterVars
    <3>3. P = {k \in 1..Len(Entries) :
                  itClause[i] <= k /\ Visible(Entries[k], snapshotGen[i])}
      BY <2>2 DEF PositionsAhead
    <3>4. \A k \in 1..Len(Entries) :
            Visible(Entries[k], snapshotGen[i])' <=> Visible(Entries[k], snapshotGen[i])
      BY <3>1 DEF SameEntries
    <3> HIDE DEF P
    <3> QED BY <1>2, <1>3, <3>1, <3>2, <3>3, <3>4
  <2> QED BY <2>1, <2>2
<1> HIDE DEF P
<1>5. Selected(Entries', P) = Selected(Entries, P)
  BY <1>0, <1>1, <1>2, SelectedSame
<1> QED BY <1>4, <1>5 DEF P

\* A step of the writers appends to the live clauses, takes one out of them or
\* leaves them alone.
LEMMA WritersImplement ==
  ASSUME IInv, OfferInv, EntryStep, SameEntries, UNCHANGED iterVars
  PROVE  [LUV!Next]_(LUV!vars)
<1> DEFINE live == Selected(Entries, LivePositions)
           started == {i \in Iterators : Built(i)}
           rest == [i \in Iterators |-> Selected(Entries, PositionsAhead(i))]
<1>0. /\ Entries \in Seq(Clauses) /\ Len(Entries) \in Nat
      /\ LivePositions \in SUBSET (1..Len(Entries))
      /\ isRetired \subseteq Listed
  BY EntriesTyped DEF OfferInv, LivePositions
<1>1. started' = started
  BY DEF Built, iterVars
<1>2. rest' = rest
  BY WritersKeepRests
<1>3. CASE UNCHANGED <<Entries, isRetired>>
  <2>1. live' = live
    BY <1>3, LiveStays
  <2> HIDE DEF live, started, rest
  <2> QED BY <1>1, <1>2, <2>1 DEF LUV!vars, live, started, rest
<1>4. ASSUME UNCHANGED isRetired, NEW c \in Clauses \ Listed,
             Entries' = Append(Entries, c)
      PROVE  live' = Append(live, c)
  <2>1. /\ Len(Entries') = Len(Entries) + 1
        /\ \A k \in 1..Len(Entries) : Entries'[k] = Entries[k]
        /\ Entries'[Len(Entries) + 1] = c
    BY <1>0, <1>4
  <2>2. c \notin isRetired
    BY <1>0, <1>4
  <2>3. \A k \in 1..(Len(Entries) + 1) :
          k \in 1..Len(Entries) \/ k = Len(Entries) + 1
    BY <1>0
  <2>4. \A k \in 1..Len(Entries) : k \in 1..(Len(Entries) + 1)
    BY <1>0
  <2>5. Len(Entries) + 1 \in 1..(Len(Entries) + 1)
    BY <1>0
  <2>6. LivePositions' = LivePositions \cup {Len(Entries) + 1}
    BY <1>4, <2>1, <2>2, <2>3, <2>4, <2>5 DEF LivePositions
  <2>7. Selected(Append(Entries, c), LivePositions \cup {Len(Entries) + 1})
          = Append(Selected(Entries, LivePositions), c)
    <3>1. \A s \in Seq(Clauses) : \A P \in SUBSET (1..Len(s)) : \A e \in Clauses :
            Selected(Append(s, e), P \cup {Len(s) + 1}) = Append(Selected(s, P), e)
      BY SelectedAppend
    <3> QED BY <1>0, <3>1
  <2> QED BY <1>4, <2>6, <2>7
<1>5. ASSUME UNCHANGED Entries, Entries = listClauses, NEW p \in 1..Len(Entries),
             Entries[p] \notin isRetired,
             isRetired' = isRetired \cup {Entries[p]}
      PROVE  \E k \in 1..Len(live) :
               live[k] = Entries[p] /\ live' = Without(live, k)
  <2>1. p \in LivePositions
    BY <1>5 DEF LivePositions
  <2>2. \A k \in 1..Len(Entries) : Entries[k] = Entries[p] => k = p
    BY <1>5, ListedOnce
  <2>3. LivePositions' = LivePositions \ {p}
    BY <1>5, <2>2 DEF LivePositions
  <2>4. live' = Selected(Entries, LivePositions \ {p})
    BY <1>5, <2>3
  <2>5. \E j \in 1..Len(live) :
          live[j] = Entries[p]
            /\ Selected(Entries, LivePositions \ {p}) = Without(live, j)
    <3>1. \A s \in Seq(Clauses) : \A P \in SUBSET (1..Len(s)) : \A q \in P :
            \E j \in 1..Len(Selected(s, P)) :
              Selected(s, P)[j] = s[q]
                /\ Selected(s, P \ {q}) = Without(Selected(s, P), j)
      BY SelectedWithout
    <3> QED BY <1>0, <2>1, <3>1
  <2> HIDE DEF live
  <2> QED BY <2>4, <2>5
<1> HIDE DEF live, started, rest
<1>6. ASSUME NEW c \in Clauses, live' = Append(live, c) PROVE LUV!Next
  <2>1. LUV!Assert(c)
    BY <1>1, <1>2, <1>6 DEF LUV!Assert, live, started, rest
  <2> QED BY <2>1 DEF LUV!Next
<1>7. ASSUME NEW c \in Clauses,
             \E k \in 1..Len(live) : live[k] = c /\ live' = Without(live, k)
      PROVE  LUV!Next
  <2>1. LUV!Retract(c)
    BY <1>1, <1>2, <1>7 DEF LUV!Retract, LUV!Without, Without, live, started,
                                rest
  <2> QED BY <2>1 DEF LUV!Next
<1> QED BY <1>0, <1>3, <1>4, <1>5, <1>6, <1>7 DEF EntryStep

\* Building an iterator starts a search on the clauses that are live.
LEMMA NewImplements ==
  ASSUME IInv, NEW i \in Iterators, NewIterator(i)
  PROVE  LUV!Next
<1> DEFINE live == Selected(Entries, LivePositions)
           started == {j \in Iterators : Built(j)}
           rest == [j \in Iterators |-> Selected(Entries, PositionsAhead(j))]
<1>0. TypeOK /\ StampInv
  BY DEF IInv
<1>1. /\ UNCHANGED dbVars /\ UNCHANGED lockVars
      /\ iterState[i] = "none" /\ iterState'[i] = "scan"
      /\ snapshotGen'[i] = generation /\ itClause'[i] = 1
      /\ \A j \in Iterators \ {i} :
           /\ iterState'[j] = iterState[j] /\ itClause'[j] = itClause[j]
           /\ snapshotGen'[j] = snapshotGen[j]
  BY <1>0 DEF NewIterator, TypeOK
<1>2. UNCHANGED <<Entries, isRetired, appendGen, retireGen, generation>>
  BY <1>1 DEF dbVars, lockVars, Stamped, Entries
<1>3. live' = live
  BY <1>2, LiveStays
<1>4. i \notin started /\ started' = started \cup {i}
  BY <1>1 DEF Built
<1>5. ASSUME NEW j \in Iterators \ {i}
      PROVE  Selected(Entries, PositionsAhead(j))'
               = Selected(Entries, PositionsAhead(j))
  <2>1. PositionsAhead(j)' = PositionsAhead(j)
    BY <1>1, <1>2 DEF PositionsAhead, Visible
  <2> QED BY <1>2, <2>1
<1>6. PositionsAhead(i)' = LivePositions
  <2>1. PositionsAhead(i)' = {k \in 1..Len(Entries) :
                                1 <= k /\ Visible(Entries[k], generation)}
    BY <1>1, <1>2 DEF PositionsAhead, Visible
  <2>2. \A k \in 1..Len(Entries) :
          Visible(Entries[k], generation) <=> Entries[k] \notin isRetired
    <3>1. \A k \in 1..Len(Entries) :
            Entries[k] \in Clauses /\ appendGen[Entries[k]] <= generation
      BY EntriesTyped
    <3> QED BY <1>0, <3>1 DEF Visible, StampInv
  <2> QED BY <2>1, <2>2 DEF LivePositions
<1>7. Selected(Entries, PositionsAhead(i))' = live
  BY <1>2, <1>6
<1>8. rest' = [rest EXCEPT ![i] = live]
  BY <1>5, <1>7
<1> HIDE DEF live, started, rest
<1>9. LUV!Start(i)
  BY <1>3, <1>4, <1>8 DEF LUV!Start, live, started, rest
<1> QED BY <1>9 DEF LUV!Next

\* A step of an iterator takes the first clause of its search's rest or, where
\* its snapshot hides the clause, nothing.  The last step abandons the search:
\* what it could lose by that is the clause in flight.
LEMMA ScanImplements ==
  ASSUME IInv, NEW i \in Iterators, IteratorStep(i)
  PROVE  [LUV!Next]_(LUV!vars)
<1> DEFINE live == Selected(Entries, LivePositions)
           started == {j \in Iterators : Built(j)}
           rest == [j \in Iterators |-> Selected(Entries, PositionsAhead(j))]
           p == itClause[i]
           P == PositionsAhead(i)
<1>0. /\ TypeOK /\ Entries \in Seq(Clauses) /\ Len(Entries) \in Nat
      /\ Len(listClauses) \in Nat
      /\ \A k \in 1..Len(listClauses) : k \in 1..Len(Entries) /\ Entries[k] = listClauses[k]
  BY EntriesTyped DEF IInv
<1>1. /\ UNCHANGED <<Entries, isRetired, appendGen, retireGen, snapshotGen>>
      /\ iterState[i] = "scan" /\ p \in 1..Len(listClauses)
      /\ \A j \in Iterators \ {i} :
           iterState'[j] = iterState[j] /\ itClause'[j] = itClause[j]
      /\ iterState'[i] = IF p < Len(listClauses) THEN "scan" ELSE "end"
      /\ itClause'[i] = p + 1
  BY DEF IteratorStep, dbVars, lockVars, Stamped, Entries
<1>2. live' = live
  BY <1>1, LiveStays
<1>3. started' = started
  BY <1>1 DEF Built
<1>4. ASSUME NEW j \in Iterators \ {i}
      PROVE  Selected(Entries, PositionsAhead(j))'
               = Selected(Entries, PositionsAhead(j))
  <2>1. PositionsAhead(j)' = PositionsAhead(j)
    BY <1>1 DEF PositionsAhead, Visible
  <2> QED BY <1>1, <2>1
<1>5. /\ P \in SUBSET (1..Len(Entries))
      /\ \A q \in P : p <= q
  BY <1>0, <1>1 DEF PositionsAhead
<1>6. CASE ~(p < Len(listClauses))
  <2>1. P' = {}
    BY <1>1, <1>6 DEF PositionsAhead
  <2>2. Selected(Entries, P)' = <<>>
    BY <2>1, SelectedNothing
  <2>3. rest' = [rest EXCEPT ![i] = <<>>]
    BY <1>4, <2>2 DEF P
  <2> HIDE DEF live, started, rest
  <2>4. LUV!Abandon(i)
    BY <1>2, <1>3, <2>3 DEF LUV!Abandon, live, started, rest
  <2> QED BY <2>4 DEF LUV!Next
<1>7. CASE p < Len(listClauses)
  <2>1. P' = P \ {p}
    <3>1. P' = {k \in 1..Len(Entries) :
                  p + 1 <= k /\ Visible(Entries[k], snapshotGen[i])}
      BY <1>1, <1>7 DEF PositionsAhead, Visible
    <3>2. P = {k \in 1..Len(Entries) : p <= k /\ Visible(Entries[k], snapshotGen[i])}
      BY <1>1 DEF PositionsAhead
    <3>3. \A k \in 1..Len(Entries) : p + 1 <= k <=> p <= k /\ k # p
      BY <1>0, <1>1
    <3> HIDE DEF P, p
    <3> QED BY <3>1, <3>2, <3>3
  <2> HIDE DEF P, p
  <2>2. Selected(Entries, P)' = Selected(Entries, P \ {p})
    BY <1>1, <2>1
  <2>3. CASE p \notin P
    <3>1. Selected(Entries, P)' = Selected(Entries, P)
      <4>1. P \ {p} = P
        BY <2>3
      <4> QED BY <2>2, <4>1
    <3>2. rest' = rest
      BY <1>4, <3>1 DEF P
    <3> HIDE DEF live, started, rest
    <3> QED BY <1>2, <1>3, <3>2 DEF LUV!vars, live, started, rest
  <2>4. CASE p \in P
    <3>1. \A s \in Seq(Clauses) : \A R \in SUBSET (1..Len(s)) : \A q \in R :
            (\A r \in R : q <= r) =>
               /\ Selected(s, R) # <<>>
               /\ Tail(Selected(s, R)) = Selected(s, R \ {q})
      BY SelectedTail
    <3>2. /\ Selected(Entries, P) # <<>>
          /\ Tail(Selected(Entries, P)) = Selected(Entries, P \ {p})
      BY <1>0, <1>5, <2>4, <3>1
    <3>3. rest[i] # <<>> /\ rest' = [rest EXCEPT ![i] = Tail(@)]
      BY <1>4, <2>2, <3>2 DEF P
    <3> HIDE DEF live, started, rest
    <3>4. LUV!Take(i)
      BY <1>2, <1>3, <3>3 DEF LUV!Take, live, started, rest
    <3> QED BY <3>4 DEF LUV!Next
  <2> QED BY <2>3, <2>4
<1> QED BY <1>6, <1>7

\* invalidate() gives up what is left of a search.
LEMMA InvalidateImplements ==
  ASSUME IInv, NEW i \in Iterators, Invalidate(i)
  PROVE  LUV!Next
<1> DEFINE live == Selected(Entries, LivePositions)
           started == {j \in Iterators : Built(j)}
           rest == [j \in Iterators |-> Selected(Entries, PositionsAhead(j))]
<1>1. /\ UNCHANGED <<Entries, isRetired, appendGen, retireGen, snapshotGen, itClause>>
      /\ iterState[i] # "none" /\ iterState'[i] = "invalidated"
      /\ \A j \in Iterators \ {i} : iterState'[j] = iterState[j]
  BY DEF Invalidate, dbVars, lockVars, Stamped, Entries, IInv, TypeOK
<1>2. live' = live
  BY <1>1, LiveStays
<1>3. started' = started
  BY <1>1 DEF Built
<1>4. ASSUME NEW j \in Iterators \ {i}
      PROVE  Selected(Entries, PositionsAhead(j))'
               = Selected(Entries, PositionsAhead(j))
  <2>1. PositionsAhead(j)' = PositionsAhead(j)
    BY <1>1 DEF PositionsAhead, Visible
  <2> QED BY <1>1, <2>1
<1>5. PositionsAhead(i)' = {}
  BY <1>1 DEF PositionsAhead
<1>6. Selected(Entries, PositionsAhead(i))' = <<>>
  BY <1>5, SelectedNothing
<1>7. rest' = [rest EXCEPT ![i] = <<>>]
  BY <1>4, <1>6
<1> HIDE DEF live, started, rest
<1>8. LUV!Abandon(i)
  BY <1>2, <1>3, <1>7 DEF LUV!Abandon, live, started, rest
<1> QED BY <1>8 DEF LUV!Next

\* Every step of the database is a step of the logical update view or a stutter.
LEMMA StepImplements ==
  ASSUME IInv, ScanInv, OfferInv, [Next]_vars
  PROVE  [LUV!Next]_(LUV!vars)
<1>1. CASE UNCHANGED iterVars
  BY <1>1, WritersKeepEntries, WritersImplement
<1>2. ASSUME NEW i \in Iterators,
             NewIterator(i) \/ IteratorStep(i) \/ Invalidate(i)
      PROVE  [LUV!Next]_(LUV!vars)
  BY <1>2, NewImplements, ScanImplements, InvalidateImplements
<1> QED BY <1>1, <1>2, StepKinds

\* ImplementsLogicalUpdateView: with parser and worker both at work, the stamps,
\* the tombstones and the iterators of the database are a logical update view.
\* An append takes effect at its stamp, and each search walks what was in effect
\* when its iterator was built.
THEOREM DatabaseImplementsView == Spec => ImplementsLogicalUpdateView
<1>1. Init => ScanInv
  BY ThreadsAssumption DEF Init, ScanInv
<1>2. IInv /\ ScanInv /\ OfferInv /\ [Next]_vars => [LUV!Next]_(LUV!vars)
  BY StepImplements
<1>3. Spec => LUV!Init /\ [][LUV!Next]_(LUV!vars)
  BY Inductive, <1>1, <1>2, InitView, InitOfferInv, NextScanInv, NextOfferInv, PTL
  DEF Spec
<1> QED BY <1>3 DEF ImplementsLogicalUpdateView, LUV!Spec
=============================================================================
