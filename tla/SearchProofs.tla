---------------------------- MODULE SearchProofs ----------------------------
(***************************************************************************)
(* For any program, any query, any nesting of findall() and whatever the   *)
(* debugger asks for: a job finds the solutions that the reference finds,  *)
(* on the same paths and in the same order, and when its search has ended  *)
(* it leaves the same database and the same number of errors.              *)
(*                                                                         *)
(* The solutions alone say too little to be kept by a step.  The invariant *)
(* (Agrees) gives each context of each stack an account: the search of the *)
(* reference that is left to it, and the state it will leave to the        *)
(* context below.  For neighbours on a stack one account starts where the  *)
(* other one ends (Within, Ends), a job that waits for a findall() goes on *)
(* with what the job above will find (Waiting), and the one at the bottom  *)
(* ends in the meaning of the query.                                       *)
(*                                                                         *)
(* Each action is shown to keep the accounts.  Appending and retiring a    *)
(* clause leave the walks under way as they are, because of the snapshots  *)
(* of their iterators (SameWalks).  A cut marks the contexts of the calls  *)
(* that it abandons as having nothing left; the reference hands down a     *)
(* level through the same calls (Cutting, Pruned).                         *)
(***************************************************************************)
EXTENDS SolverReference, SolverProofs

-----------------------------------------------------------------------------
(* The reference: the searches in a search.                                *)

\* Nothing is being abandoned when it starts, and its goals come from calls
\* that are under way.
Proper(s) ==
  /\ s.from.cut = 0
  /\ s.depth >= 1
  /\ \A k \in 1..Len(s.goals) : s.goals[k].level \in 1..s.depth

\* What Rest puts together is a search.
LEMMA RestTyped ==
  ASSUME NEW choices \in Seq(Placed), NEW goals \in Seq(Levelled), NEW depth \in Nat,
         NEW path \in Seq(Nat), NEW st \in States
  PROVE  Rest(choices, goals, depth, path, st) \in Searches
BY DEF Rest, Searches

\* And so is what starts with all that is live.
LEMMA WholeTyped ==
  ASSUME NEW goals \in Seq(Levelled), NEW depth \in Nat, NEW path \in Seq(Nat), NEW st \in States
  PROVE  Whole(goals, depth, path, st) \in Searches
BY RestTyped DEF Whole, States

\* The fields of a search.
LEMMA SearchTyped ==
  ASSUME NEW s \in Searches
  PROVE  /\ s.choices \in Seq(Placed) /\ s.goals \in Seq(Levelled) /\ s.depth \in Nat
         /\ s.path \in Seq(Nat) /\ s.from \in States
BY DEF Searches

\* A goal follows a search's first one, and it follows its own level.
LEMMA TailOfGoals ==
  ASSUME NEW s \in Searches, s.goals # <<>>
  PROVE  /\ Tail(s.goals) \in Seq(Levelled)
         /\ Head(s.goals) \in Levelled
         /\ Proper(s) => \A k \in 1..Len(Tail(s.goals)) : Tail(s.goals)[k].level \in 1..s.depth
         /\ Proper(s) => Head(s.goals).level \in 1..s.depth
<1> DEFINE G == s.goals
<1>1. G \in Seq(Levelled) /\ G # <<>>
  BY SearchTyped
<1> HIDE DEF G
<1>2. /\ Tail(G) \in Seq(Levelled) /\ Head(G) \in Levelled
      /\ Len(G) \in Nat \ {0} /\ Len(Tail(G)) = Len(G) - 1
      /\ \A k \in 1..Len(Tail(G)) : Tail(G)[k] = G[k + 1]
      /\ Head(G) = G[1]
  BY <1>1
<1>3. \A k \in 1..Len(Tail(G)) : k + 1 \in 1..Len(G)
  BY <1>2
<1>4. 1 \in 1..Len(G)
  BY <1>2
<1> QED BY <1>2, <1>3, <1>4 DEF Proper, G

\* What follows the first goal of a search is a search, from any state.
LEMMA OnwardTyped ==
  ASSUME NEW s \in Searches, s.goals # <<>>, NEW path \in Seq(Nat), NEW st \in States
  PROVE  /\ Following(s, path, st) \in Searches
         /\ Proper(s) /\ st.cut = 0 => Proper(Following(s, path, st))
<1>1. Whole(Tail(s.goals), s.depth, path, st) \in Searches
  BY SearchTyped, TailOfGoals, WholeTyped
<1>2. Proper(s) /\ st.cut = 0 => Proper(Whole(Tail(s.goals), s.depth, path, st))
  BY TailOfGoals DEF Proper, Whole, Rest
<1> QED BY <1>1, <1>2 DEF Following

\* A goal that is not cut has an atom.
LEMMA GoalAtom ==
  ASSUME NEW s \in Searches, s.goals # <<>>, Head(s.goals).goal.op # "cut"
  PROVE  Head(s.goals).goal.atom \in Atoms
<1>1. Head(s.goals) \in Levelled
  BY TailOfGoals
<1> DEFINE g == Head(s.goals).goal
<1>2. g \in CaseGoals \/ \E a \in Atoms : g = Subgoal(a)
  BY <1>1 DEF Levelled
<1> HIDE DEF g
<1>3. CASE g \in CaseGoals
  BY <1>3 DEF Atoms, g
<1>4. CASE \E a \in Atoms : g = Subgoal(a)
  BY <1>4 DEF Subgoal, g
<1> QED BY <1>2, <1>3, <1>4 DEF g

\* The goals of a body, each at the level of its call.
LEMMA AtTyped ==
  ASSUME NEW S, NEW goals \in Seq(S), NEW level \in Nat
  PROVE  /\ At(goals, level) \in Seq([goal : S, level : Nat])
         /\ Len(At(goals, level)) = Len(goals)
         /\ \A k \in 1..Len(goals) : At(goals, level)[k] = [goal |-> goals[k], level |-> level]
<1>1. Len(goals) \in Nat /\ \A k \in 1..Len(goals) : goals[k] \in S
  OBVIOUS
<1> DEFINE n == Len(goals)
           T == [goal : S, level : Nat]
           t == [k \in 1..n |-> [goal |-> goals[k], level |-> level]]
<1>2. \A k \in 1..n : [goal |-> goals[k], level |-> level] \in T
  BY <1>1
<1>3. At(goals, level) = t
  BY DEF At
<1> HIDE DEF n, T
<1>4. t \in [1..n -> T]
  BY <1>2
<1>5. n \in Nat
  BY <1>1 DEF n
<1> HIDE DEF t
<1>6. t \in Seq(T) /\ Len(t) = n
  BY <1>4, <1>5
<1>7. \A k \in 1..n : t[k] = [goal |-> goals[k], level |-> level]
  BY DEF t
<1> QED BY <1>3, <1>6, <1>7 DEF n, T

\* A state with one field changed.
LEMMA StateFields ==
  ASSUME NEW st \in States
  PROVE  /\ st.live \in Seq(Placed) /\ st.total \in Nat /\ st.solutions \in Seq(Seq(Nat))
         /\ st.errors \in Nat /\ st.cut \in Nat /\ st.ended \in BOOLEAN
BY DEF States

\* A state with another level that is abandoned is a state, ...
LEMMA StateCut ==
  ASSUME NEW st \in States, NEW c \in Nat
  PROVE  LET u == [st EXCEPT !.cut = c]
         IN  /\ u \in States /\ u.cut = c /\ u.live = st.live /\ u.total = st.total
             /\ u.errors = st.errors /\ u.solutions = st.solutions /\ u.ended = st.ended
<1> DEFINE L == Seq(Placed)
           T == Seq(Seq(Nat))
<1>1. States = [live : L, total : Nat, solutions : T, errors : Nat, cut : Nat, ended : BOOLEAN]
  BY DEF States
<1> HIDE DEF L, T
<1> QED BY <1>1

\* ... and so is one with any other field.
LEMMA StateExcept ==
  ASSUME NEW st \in States
  PROVE  /\ \A ss \in Seq(Seq(Nat)) :
              LET u == [st EXCEPT !.solutions = ss]
              IN  /\ u \in States /\ u.solutions = ss /\ u.live = st.live /\ u.total = st.total
                  /\ u.errors = st.errors /\ u.cut = st.cut /\ u.ended = st.ended
         /\ \A c \in Nat :
              LET u == [st EXCEPT !.cut = c]
              IN  /\ u \in States /\ u.cut = c /\ u.live = st.live /\ u.total = st.total
                  /\ u.errors = st.errors /\ u.solutions = st.solutions /\ u.ended = st.ended
         /\ \A e \in Nat :
              LET u == [st EXCEPT !.errors = e]
              IN  /\ u \in States /\ u.errors = e /\ u.live = st.live /\ u.total = st.total
                  /\ u.cut = st.cut /\ u.solutions = st.solutions /\ u.ended = st.ended
         /\ \A e \in BOOLEAN :
              LET u == [st EXCEPT !.ended = e]
              IN  /\ u \in States /\ u.ended = e /\ u.live = st.live /\ u.total = st.total
                  /\ u.cut = st.cut /\ u.solutions = st.solutions /\ u.errors = st.errors
<1> DEFINE L == Seq(Placed)
           T == Seq(Seq(Nat))
<1>1. st \in [live : L, total : Nat, solutions : T, errors : Nat, cut : Nat, ended : BOOLEAN]
  BY DEF States
<1>2. States = [live : L, total : Nat, solutions : T, errors : Nat, cut : Nat, ended : BOOLEAN]
  BY DEF States
<1> HIDE DEF L, T
<1>3. \A ss \in T :
              LET u == [st EXCEPT !.solutions = ss]
              IN  /\ u \in States /\ u.solutions = ss /\ u.live = st.live /\ u.total = st.total
                  /\ u.errors = st.errors /\ u.cut = st.cut /\ u.ended = st.ended
  BY <1>1, <1>2
<1>4. \A c \in Nat :
              LET u == [st EXCEPT !.cut = c]
              IN  /\ u \in States /\ u.cut = c /\ u.live = st.live /\ u.total = st.total
                  /\ u.errors = st.errors /\ u.solutions = st.solutions /\ u.ended = st.ended
  BY <1>1, <1>2
<1>5. \A e \in Nat :
              LET u == [st EXCEPT !.errors = e]
              IN  /\ u \in States /\ u.errors = e /\ u.live = st.live /\ u.total = st.total
                  /\ u.cut = st.cut /\ u.solutions = st.solutions /\ u.ended = st.ended
  BY <1>1, <1>2
<1>6. \A e \in BOOLEAN :
              LET u == [st EXCEPT !.ended = e]
              IN  /\ u \in States /\ u.ended = e /\ u.live = st.live /\ u.total = st.total
                  /\ u.cut = st.cut /\ u.solutions = st.solutions /\ u.errors = st.errors
  BY <1>1, <1>2
<1> QED BY <1>3, <1>4, <1>5, <1>6 DEF T

\* The search of a findall() is one, and starts with nothing abandoned.
LEMMA SubTyped ==
  ASSUME NEW s \in Searches, s.goals # <<>>, Head(s.goals).goal.op = "findall"
  PROVE  /\ Sub(s) \in Searches /\ (Proper(s) => Proper(Sub(s)))
         /\ Sub(s).from.ended = s.from.ended
<1> DEFINE g == Subgoal(Head(s.goals).goal.atom)
           one == <<g>>
           goals == At(one, 1)
           st == [s.from EXCEPT !.solutions = <<>>]
<1>1. g \in {Subgoal(a) : a \in Atoms}
  BY GoalAtom
<1>2. s.from \in States
  BY SearchTyped
<1>3. st \in States /\ st.cut = s.from.cut /\ st.live = s.from.live /\ st.ended = s.from.ended
  <2>1. <<>> \in Seq(Seq(Nat))
    OBVIOUS
  <2> QED BY <1>2, <2>1, StateExcept
<1> DEFINE S == CaseGoals \cup {Subgoal(a) : a \in Atoms}
<1>4. g \in S
  BY <1>1
<1> HIDE DEF g, st
<1>5. one \in Seq(S) /\ Len(one) = 1 /\ 1 \in Nat
  BY <1>4
<1>6. goals \in Seq([goal : S, level : Nat]) /\ Len(goals) = 1
  <2> HIDE DEF S, one
  <2> QED BY <1>5, AtTyped
<1>7. goals \in Seq(Levelled) /\ goals[1].level = 1
  <2>1. 1 \in 1..Len(one)
    BY <1>5
  <2>2. goals[1] = [goal |-> one[1], level |-> 1]
    <3> HIDE DEF S, one
    <3> QED BY <1>5, <2>1, AtTyped
  <2> HIDE DEF goals
  <2> QED BY <1>6, <2>2 DEF Levelled
<1>8. Sub(s) = Whole(goals, 1, <<>>, st)
  BY DEF Sub, g, st
<1> HIDE DEF goals
<1>9. Whole(goals, 1, <<>>, st) \in Searches
  <2>1. <<>> \in Seq(Nat)
    OBVIOUS
  <2> QED BY <1>3, <1>5, <1>7, <2>1, WholeTyped
<1>10. Proper(s) => Proper(Whole(goals, 1, <<>>, st))
  <2>1. \A k \in 1..Len(goals) : goals[k].level \in 1..1
    BY <1>6, <1>7
  <2> QED BY <1>3, <2>1 DEF Proper, Whole, Rest
<1> QED BY <1>3, <1>8, <1>9, <1>10 DEF Whole, Rest

\* The first match of an atom is one.
LEMMA LeastMatch ==
  ASSUME NEW st, Len(st.live) \in Nat, NEW a, Matching(st, a) # {}
  PROVE  LET k == Min(Matching(st, a))
         IN  k \in Matching(st, a) /\ k \in 1..Len(st.live) /\ \A m \in Matching(st, a) : k <= m
<1> DEFINE T == Matching(st, a)
           k == Min(T)
<1>1. T \in SUBSET (1..Len(st.live)) /\ T # {}
  BY DEF Matching
<1> HIDE DEF T
<1>2. \E n \in T : \A m \in T : n <= m
  BY <1>1, LeastNumber
<1>3. k \in T /\ \A m \in T : k <= m
  BY <1>2 DEF Min
<1> QED BY <1>1, <1>3 DEF T

\* A sequence without one of its elements.
LEMMA WithoutTyped ==
  ASSUME NEW S, NEW s \in Seq(S), NEW k \in 1..Len(s)
  PROVE  Without(s, k) \in Seq(S) /\ Len(Without(s, k)) = Len(s) - 1
<1>1. Len(s) \in Nat /\ Len(s) - 1 \in Nat
  OBVIOUS
<1> DEFINE n == Len(s) - 1
           t == [i \in 1..n |-> s[IF i < k THEN i ELSE i + 1]]
<1>2. \A i \in 1..n : s[IF i < k THEN i ELSE i + 1] \in S
  BY <1>1
<1>3. Without(s, k) = t
  BY DEF Without
<1>4. n \in Nat
  BY <1>1
<1> HIDE DEF n
<1>5. t \in [1..n -> S]
  BY <1>2
<1> HIDE DEF t
<1> QED BY <1>3, <1>4, <1>5 DEF n

\* The states that the reference goes through.
LEMMA StateSteps ==
  ASSUME NEW s \in Searches
  PROVE  /\ Failed(s.from) \in States /\ Failed(s.from).cut = s.from.cut
         /\ Failed(s.from).ended = s.from.ended /\ Failed(s.from).solutions = s.from.solutions
         /\ \A a \in Atoms :
              LET u == Added(s.from, a)
              IN  /\ u \in States /\ u.cut = s.from.cut /\ u.ended = s.from.ended
                  /\ u.solutions = s.from.solutions
         /\ \A a : Matching(s.from, a) # {} =>
              LET u == Removed(s.from, a)
              IN  /\ u \in States /\ u.cut = s.from.cut /\ u.ended = s.from.ended
                  /\ u.solutions = s.from.solutions
         /\ \A sub \in States :
              LET u == Back(s, sub)
              IN  /\ u \in States /\ u.cut = 0 /\ u.ended = sub.ended
                  /\ u.solutions = s.from.solutions
         /\ LET u == [s.from EXCEPT !.solutions = Append(@, s.path)]
            IN  u \in States /\ u.cut = s.from.cut /\ u.ended = s.from.ended
<1> DEFINE st == s.from
<1>1. st \in States
  BY SearchTyped
<1> HIDE DEF st
<1>2. /\ st.live \in Seq(Placed) /\ st.total \in Nat /\ st.solutions \in Seq(Seq(Nat))
      /\ st.errors \in Nat /\ st.cut \in Nat /\ st.ended \in BOOLEAN
  BY <1>1, StateFields
<1>3. LET u == Failed(st)
      IN u \in States /\ u.cut = st.cut /\ u.ended = st.ended /\ u.solutions = st.solutions
  <2>1. st.errors + 1 \in Nat
    BY <1>2
  <2> QED BY <1>1, <2>1, StateExcept DEF Failed
<1>4. ASSUME NEW t \in Nat, NEW l \in Seq(Placed)
      PROVE  LET u == [st EXCEPT !.total = t, !.live = l]
             IN  /\ u \in States /\ u.cut = st.cut /\ u.ended = st.ended
                 /\ u.solutions = st.solutions
  <2> DEFINE L == Seq(Placed)
             T == Seq(Seq(Nat))
  <2>1. st \in [live : L, total : Nat, solutions : T, errors : Nat, cut : Nat, ended : BOOLEAN]
    BY <1>1 DEF States
  <2>2. States = [live : L, total : Nat, solutions : T, errors : Nat, cut : Nat, ended : BOOLEAN]
    BY DEF States
  <2>3. l \in L
    OBVIOUS
  <2> HIDE DEF L, T
  <2> QED BY <2>1, <2>2, <2>3
<1>5. ASSUME NEW a \in Atoms
      PROVE  LET u == Added(st, a)
             IN  /\ u \in States /\ u.cut = st.cut /\ u.ended = st.ended
                 /\ u.solutions = st.solutions
  <2> DEFINE e == [id |-> st.total + 1, clause |-> Fact(a)]
             l == Append(st.live, e)
  <2>1. e \in Placed
    <3>1. <<>> \in Seq(CaseGoals)
      OBVIOUS
    <3> QED BY <1>2, <3>1 DEF Placed, PlainClauses, Fact
  <2> HIDE DEF e
  <2>2. l \in Seq(Placed) /\ st.total + 1 \in Nat
    BY <1>2, <2>1
  <2>3. Added(st, a) = [st EXCEPT !.total = st.total + 1, !.live = l]
    BY DEF Added, e
  <2> DEFINE t == st.total + 1
  <2> HIDE DEF l, t
  <2>4. l \in Seq(Placed) /\ t \in Nat /\ Added(st, a) = [st EXCEPT !.total = t, !.live = l]
    BY <2>2, <2>3 DEF t
  <2> DEFINE v == [st EXCEPT !.total = t, !.live = l]
  <2>5. /\ v \in States /\ v.cut = st.cut /\ v.ended = st.ended
        /\ v.solutions = st.solutions
    BY <1>4, <2>4
  <2> HIDE DEF v
  <2>6. Added(st, a) = v
    BY <2>4 DEF v
  <2> QED BY <2>5, <2>6
<1>6. ASSUME NEW a, Matching(st, a) # {}
      PROVE  LET u == Removed(st, a)
             IN  /\ u \in States /\ u.cut = st.cut /\ u.ended = st.ended
                 /\ u.solutions = st.solutions
  <2> DEFINE k == Min(Matching(st, a))
             l == Without(st.live, k)
  <2>1. k \in 1..Len(st.live)
    BY <1>2, <1>6, LeastMatch
  <2> HIDE DEF k
  <2>2. l \in Seq(Placed)
    BY <1>2, <2>1, WithoutTyped
  <2>3. Removed(st, a) = [st EXCEPT !.total = st.total, !.live = l]
    <3>1. Removed(st, a) = [st EXCEPT !.live = l]
      BY DEF Removed, k
    <3> DEFINE L == Seq(Placed)
               T == Seq(Seq(Nat))
    <3>2. st \in [live : L, total : Nat, solutions : T, errors : Nat, cut : Nat, ended : BOOLEAN]
      BY <1>1 DEF States
    <3> HIDE DEF L, T, l
    <3> QED BY <3>1, <3>2
  <2> HIDE DEF l
  <2> QED BY <1>2, <1>4, <2>2, <2>3
<1>7. ASSUME NEW sub \in States
      PROVE  LET u == Back(s, sub)
             IN  /\ u \in States /\ u.cut = 0 /\ u.ended = sub.ended
                 /\ u.solutions = st.solutions
  <2> DEFINE u == [sub EXCEPT !.solutions = st.solutions]
  <2>1. u \in States /\ u.ended = sub.ended /\ u.solutions = st.solutions
    BY <1>2, StateExcept
  <2>2. Back(s, sub) = [u EXCEPT !.cut = 0]
    BY DEF Back, st
  <2> HIDE DEF u
  <2>3. 0 \in Nat /\ u \in States
    BY <2>1
  <2> DEFINE v == [u EXCEPT !.cut = 0]
  <2>4. v \in States /\ v.cut = 0 /\ v.ended = u.ended /\ v.solutions = u.solutions
    BY <2>3, StateCut
  <2> HIDE DEF v
  <2> QED BY <2>1, <2>2, <2>4 DEF v
<1>8. LET u == [st EXCEPT !.solutions = Append(@, s.path)]
      IN  u \in States /\ u.cut = st.cut /\ u.ended = st.ended
  <2> DEFINE ss == Append(st.solutions, s.path)
  <2>1. ss \in Seq(Seq(Nat))
    BY <1>2, SearchTyped
  <2> HIDE DEF ss
  <2>2. LET u == [st EXCEPT !.solutions = ss]
        IN  u \in States /\ u.cut = st.cut /\ u.ended = st.ended
    BY <1>1, <2>1, StateExcept
  <2> QED BY <2>2 DEF ss
<1> QED BY <1>3, <1>5, <1>6, <1>7, <1>8 DEF st

\* The first choice of a search, and the others.
LEMMA ChosenTyped ==
  ASSUME NEW s \in Searches, s.choices # <<>>
  PROVE  /\ Head(s.choices) \in Placed /\ Tail(s.choices) \in Seq(Placed)
         /\ Head(s.choices).id \in Nat
         /\ Head(s.choices).clause.body \in Seq(CaseGoals)
<1> DEFINE C == s.choices
<1>1. C \in Seq(Placed) /\ C # <<>>
  BY SearchTyped
<1> HIDE DEF C
<1>2. Head(C) \in Placed /\ Tail(C) \in Seq(Placed)
  BY <1>1
<1>3. Head(C).id \in Nat /\ Head(C).clause \in PlainClauses
  BY <1>2 DEF Placed
<1>4. Head(C).clause.body \in Seq(CaseGoals)
  BY <1>3 DEF PlainClauses
<1> QED BY <1>2, <1>3, <1>4 DEF C

\* The goals of a body, and then others.
LEMMA BodyFirst ==
  ASSUME NEW body \in Seq(CaseGoals), NEW depth \in Nat, NEW rest \in Seq(Levelled)
  PROVE  LET gs == At(body, depth) \o rest
         IN  /\ gs \in Seq(Levelled)
             /\ \A k \in 1..Len(gs) :
                  \/ gs[k].level = depth
                  \/ \E j \in 1..Len(rest) : gs[k] = rest[j]
<1> DEFINE S == CaseGoals \cup {Subgoal(a) : a \in Atoms}
           b == At(body, depth)
           gs == b \o rest
<1>1. body \in Seq(S)
  <2>1. CaseGoals \subseteq S
    OBVIOUS
  <2> HIDE DEF S
  <2> QED BY <2>1, SeqMonotonic
<1>2. /\ b \in Seq(Levelled) /\ Len(b) = Len(body)
      /\ \A k \in 1..Len(body) : b[k] = [goal |-> body[k], level |-> depth]
  <2> HIDE DEF S
  <2>1. /\ b \in Seq([goal : S, level : Nat]) /\ Len(b) = Len(body)
        /\ \A k \in 1..Len(body) : b[k] = [goal |-> body[k], level |-> depth]
    BY <1>1, AtTyped
  <2> QED BY <2>1 DEF Levelled, S
<1> HIDE DEF S, b
<1>3. /\ gs \in Seq(Levelled) /\ Len(gs) = Len(b) + Len(rest)
      /\ \A k \in 1..(Len(b) + Len(rest)) : gs[k] = IF k <= Len(b) THEN b[k] ELSE rest[k - Len(b)]
  BY <1>2, ConcatProperties
<1>4. Len(b) \in Nat /\ Len(rest) \in Nat
  BY <1>2
<1> HIDE DEF gs
<1>5. ASSUME NEW k \in 1..Len(gs)
      PROVE  gs[k].level = depth \/ \E j \in 1..Len(rest) : gs[k] = rest[j]
  <2>1. CASE k <= Len(b)
    <3>1. k \in 1..Len(body) /\ gs[k] = b[k]
      BY <1>2, <1>3, <1>4, <2>1
    <3>2. b[k] = [goal |-> body[k], level |-> depth]
      BY <1>2, <3>1
    <3>3. gs[k].level = depth
      BY <3>1, <3>2
    <3> QED BY <3>3
  <2>2. CASE ~ k <= Len(b)
    <3>1. k - Len(b) \in 1..Len(rest) /\ gs[k] = rest[k - Len(b)]
      BY <1>3, <1>4, <2>2
    <3> QED BY <3>1
  <2> QED BY <2>1, <2>2
<1> QED BY <1>3, <1>5 DEF gs, b

\* The search that a first choice leads to, one call deeper.
LEMMA EnteredTyped ==
  ASSUME NEW s \in Searches, s.goals # <<>>, s.choices # <<>>
  PROVE  /\ Entered(s) \in Searches /\ (Proper(s) => Proper(Entered(s)))
         /\ Entered(s).from = s.from /\ Entered(s).depth = s.depth + 1
<1> DEFINE g == Head(s.goals).goal
           c == Head(s.choices)
           depth == s.depth + 1
           body == IF g.op = "not" THEN <<>> ELSE c.clause.body
           rest == Tail(s.goals)
           gs == At(body, depth) \o rest
           path == Append(s.path, c.id)
<1>1. body \in Seq(CaseGoals) /\ c.id \in Nat
  <2>1. <<>> \in Seq(CaseGoals)
    OBVIOUS
  <2> QED BY <2>1, ChosenTyped
<1>2. s.depth \in Nat /\ s.path \in Seq(Nat) /\ s.from \in States /\ rest \in Seq(Levelled)
  BY SearchTyped, TailOfGoals
<1>3. Entered(s) = Whole(gs, depth, path, s.from)
  BY DEF Entered
<1> HIDE DEF body, c
<1>4. depth \in Nat /\ path \in Seq(Nat)
  BY <1>1, <1>2
<1> HIDE DEF depth, path, rest
<1>5. /\ gs \in Seq(Levelled)
      /\ \A k \in 1..Len(gs) : gs[k].level = depth \/ \E j \in 1..Len(rest) : gs[k] = rest[j]
  BY <1>1, <1>2, <1>4, BodyFirst
<1>6. Proper(s) => \A k \in 1..Len(gs) : gs[k].level \in 1..depth
  <2> HIDE DEF gs
  <2>1. Proper(s) => s.depth >= 1 /\ \A j \in 1..Len(rest) : rest[j].level \in 1..s.depth
    BY TailOfGoals DEF Proper, rest
  <2> QED BY <1>2, <1>5, <2>1 DEF depth
<1> HIDE DEF gs
<1>7. Whole(gs, depth, path, s.from) \in Searches
  BY <1>2, <1>4, <1>5, WholeTyped
<1>8. Proper(s) => Proper(Whole(gs, depth, path, s.from))
  <2>1. Proper(s) => depth >= 1 /\ s.from.cut = 0
    BY <1>2 DEF Proper, depth
  <2> QED BY <1>6, <2>1 DEF Proper, Whole, Rest
<1> QED BY <1>3, <1>7, <1>8 DEF Whole, Rest, depth

\* The search with the other choices, from what the first one left.
LEMMA ResumedTyped ==
  ASSUME NEW s \in Searches, s.choices # <<>>, NEW done \in States
  PROVE  /\ Resumed(s, done) \in Searches /\ (Proper(s) /\ done.cut = 0 => Proper(Resumed(s, done)))
         /\ Resumed(s, done).from = done /\ Resumed(s, done).goals = s.goals
         /\ Resumed(s, done).depth = s.depth /\ Resumed(s, done).choices = Tail(s.choices)
         /\ Resumed(s, done).path = s.path
<1>1. Resumed(s, done) \in Searches
  BY SearchTyped, ChosenTyped, RestTyped DEF Resumed
<1> QED BY <1>1 DEF Resumed, Rest, Proper

\* Returning from a call ends a cut of its level.
LEMMA ReturnedTyped ==
  ASSUME NEW st \in States, NEW depth \in Nat, st.cut <= depth + 1
  PROVE  LET u == Returned(st, depth + 1)
         IN  /\ u \in States /\ u.ended = st.ended /\ u.solutions = st.solutions
             /\ u.cut \in 0..depth
<1> DEFINE c == IF st.cut = depth + 1 THEN 0 ELSE st.cut
           u == [st EXCEPT !.cut = c]
<1>1. c \in Nat /\ c \in 0..depth
  BY StateFields
<1>2. Returned(st, depth + 1) = u
  BY DEF Returned
<1> HIDE DEF c
<1>3. u \in States /\ u.ended = st.ended /\ u.solutions = st.solutions /\ u.cut = c
  BY <1>1, StateExcept
<1> HIDE DEF u
<1> QED BY <1>1, <1>2, <1>3

\* A cut leaves the lower of the two levels.
LEMMA CutToTyped ==
  ASSUME NEW end \in States, NEW level \in Nat
  PROVE  LET u == CutTo(level, end)
         IN  /\ u \in States /\ u.ended = end.ended /\ u.solutions = end.solutions
             /\ u.cut = IF end.cut # 0 /\ end.cut < level THEN end.cut ELSE level
<1> DEFINE c == IF end.cut # 0 /\ end.cut < level THEN end.cut ELSE level
           u == [end EXCEPT !.cut = c]
<1>1. c \in Nat
  BY StateFields
<1>2. CutTo(level, end) = u
  BY DEF CutTo
<1> HIDE DEF c
<1>3. u \in States /\ u.ended = end.ended /\ u.solutions = end.solutions /\ u.cut = c
  BY <1>1, StateExcept
<1> HIDE DEF u
<1> QED BY <1>2, <1>3 DEF c

-----------------------------------------------------------------------------
(* What becomes of a search, given what becomes of the ones in it.         *)

\* The kinds of goals, as the reference tells them apart.
LEMMA FoundSolution ==
  ASSUME NEW S, NEW s, s.goals = <<>>
  PROVE  Found(S, s) = [s.from EXCEPT !.solutions = Append(@, s.path)]
BY DEF Found

\* What becomes of a search whose first goal is a cut, ...
LEMMA FoundCut ==
  ASSUME NEW S, NEW s, s.goals # <<>>, Head(s.goals).goal.op = "cut"
  PROVE  Found(S, s) = CutTo(Head(s.goals).level, S[Following(s, s.path, s.from)])
BY DEF Found, Onward

\* ... an assert(), ...
LEMMA FoundAssert ==
  ASSUME NEW S, NEW s, s.goals # <<>>, Head(s.goals).goal.op = "assert"
  PROVE  LET a == Head(s.goals).goal.atom
         IN  Found(S, s) = IF a \in Ground THEN S[Following(s, s.path, Added(s.from, a))]
                           ELSE Failed(s.from)
BY DEF Found, Onward

\* ... a retract(), ...
LEMMA FoundRetract ==
  ASSUME NEW S, NEW s, s.goals # <<>>, Head(s.goals).goal.op = "retract"
  PROVE  LET a == Head(s.goals).goal.atom
         IN  Found(S, s) = IF Matching(s.from, a) = {} THEN s.from
                           ELSE S[Following(s, s.path, Removed(s.from, a))]
BY DEF Found, Onward

\* ... a findall(), ...
LEMMA FoundFindall ==
  ASSUME NEW S, NEW s, s.goals # <<>>, Head(s.goals).goal.op = "findall"
  PROVE  Found(S, s) = Collected(S, s, S[Sub(s)])
BY DEF Found

\* The goals that performSlice() handles itself.
Special == {"cut", "assert", "retract", "findall"}

\* ... or a call.
LEMMA FoundCall ==
  ASSUME NEW S, NEW s, s.goals # <<>>, Head(s.goals).goal.op \notin Special
  PROVE  Found(S, s) = IF s.choices = <<>> THEN s.from ELSE Others(S, s, Tried(S, s))
BY DEF Found, Special

\* Each of these is a state, if what becomes of the searches in it is.
LEMMA CollectedTyped ==
  ASSUME NEW S \in [Searches -> States], NEW s \in Searches, s.goals # <<>>, NEW sub \in States
  PROVE  Collected(S, s, sub) \in States
<1>1. Back(s, sub) \in States
  BY StateSteps
<1>2. Append(s.path, 0) \in Seq(Nat)
  <2>1. s.path \in Seq(Nat)
    BY SearchTyped
  <2> QED BY <2>1
<1>3. Following(s, Append(s.path, 0), Back(s, sub)) \in Searches
  BY <1>1, <1>2, OnwardTyped
<1> QED BY <1>1, <1>3 DEF Collected, Onward

\* So is what the first choice of a call leaves, ...
LEMMA TriedTyped ==
  ASSUME NEW S \in [Searches -> States], NEW s \in Searches, s.goals # <<>>, s.choices # <<>>
  PROVE  Tried(S, s) \in States
BY EnteredTyped, StateSteps, SearchTyped DEF Tried

\* ... and so what becomes of any search.
LEMMA FoundTyped ==
  ASSUME NEW S \in [Searches -> States], NEW s \in Searches
  PROVE  Found(S, s) \in States
<1>1. s.from \in States /\ s.path \in Seq(Nat)
  BY SearchTyped
<1>2. CASE s.goals = <<>>
  BY <1>2, FoundSolution, StateSteps
<1>3. ASSUME s.goals # <<>>, NEW st \in States
      PROVE  S[Following(s, s.path, st)] \in States
  BY <1>1, <1>3, OnwardTyped
<1>4. CASE s.goals # <<>> /\ Head(s.goals).goal.op = "cut"
  <2>1. Head(s.goals).level \in Nat
    BY <1>4, TailOfGoals DEF Levelled
  <2> DEFINE end == S[Following(s, s.path, s.from)]
             level == Head(s.goals).level
  <2>2. end \in States
    BY <1>1, <1>3, <1>4
  <2>3. Found(S, s) = CutTo(level, end)
    BY <1>4, FoundCut
  <2> HIDE DEF end, level
  <2>4. level \in Nat
    BY <2>1 DEF level
  <2> QED BY <2>2, <2>3, <2>4, CutToTyped
<1>5. CASE s.goals # <<>> /\ Head(s.goals).goal.op = "assert"
  <2>1. Head(s.goals).goal.atom \in Atoms
    BY <1>5, GoalAtom
  <2> DEFINE a == Head(s.goals).goal.atom
  <2>2. Added(s.from, a) \in States /\ Failed(s.from) \in States
    BY <2>1, StateSteps
  <2>3. S[Following(s, s.path, Added(s.from, a))] \in States
    BY <1>3, <1>5, <2>2
  <2>4. Found(S, s) = IF a \in Ground THEN S[Following(s, s.path, Added(s.from, a))]
                      ELSE Failed(s.from)
    BY <1>5, FoundAssert
  <2> HIDE DEF a
  <2> QED BY <2>2, <2>3, <2>4
<1>6. CASE s.goals # <<>> /\ Head(s.goals).goal.op = "retract"
  <2> DEFINE a == Head(s.goals).goal.atom
  <2>1. Matching(s.from, a) # {} => Removed(s.from, a) \in States
    BY StateSteps
  <2>2. Matching(s.from, a) # {} => S[Following(s, s.path, Removed(s.from, a))] \in States
    BY <1>3, <1>6, <2>1
  <2>3. Found(S, s) = IF Matching(s.from, a) = {} THEN s.from
                      ELSE S[Following(s, s.path, Removed(s.from, a))]
    BY <1>6, FoundRetract
  <2> HIDE DEF a
  <2> QED BY <1>1, <2>2, <2>3
<1>7. CASE s.goals # <<>> /\ Head(s.goals).goal.op = "findall"
  <2>1. S[Sub(s)] \in States
    BY <1>7, SubTyped
  <2> QED BY <1>7, <2>1, FoundFindall, CollectedTyped
<1>8. CASE s.goals # <<>> /\ Head(s.goals).goal.op \notin Special
  <2>1. CASE s.choices = <<>>
    BY <1>1, <1>8, <2>1, FoundCall
  <2>2. CASE s.choices # <<>>
    <3> DEFINE done == Tried(S, s)
    <3>1. done \in States
      BY <1>8, <2>2, TriedTyped
    <3> HIDE DEF done
    <3>2. S[Resumed(s, done)] \in States
      BY <2>2, <3>1, ResumedTyped
    <3>3. Returned(done, s.depth + 1) \in States
      <4> DEFINE c == IF done.cut = s.depth + 1 THEN 0 ELSE done.cut
                 u == [done EXCEPT !.cut = c]
      <4>1. c \in Nat
        BY <3>1, StateFields
      <4>2. Returned(done, s.depth + 1) = u
        BY DEF Returned
      <4> HIDE DEF c
      <4> QED BY <3>1, <4>1, <4>2, StateExcept
    <3>4. Found(S, s) = Others(S, s, done)
      BY <1>8, <2>2, FoundCall DEF done
    <3> QED BY <3>2, <3>3, <3>4 DEF Others
  <2> QED BY <2>1, <2>2
<1> QED BY <1>2, <1>4, <1>5, <1>6, <1>7, <1>8 DEF Special

\* Search is a function from numbers to what becomes of each search.
LEMMA SearchIs ==
  /\ Search \in [Nat -> [Searches -> States]]
  /\ \A s \in Searches : Search[0][s] = [s.from EXCEPT !.ended = FALSE]
  /\ \A n \in Nat, s \in Searches :
       Search[n + 1][s] = IF ~s.from.ended THEN [s.from EXCEPT !.ended = FALSE]
                          ELSE Found(Search[n], s)
<1> DEFINE R == [Searches -> States]
           Left(s) == [s.from EXCEPT !.ended = FALSE]
           Step(S) == [s \in Searches |-> IF ~s.from.ended THEN Left(s) ELSE Found(S, s)]
           begin == [s \in Searches |-> Left(s)]
           F == [q \in Nat \X R |-> Step(q[2])]
           Def(f) == [n \in Nat |-> [s \in Searches |->
                        IF n = 0 \/ ~s.from.ended THEN Left(s) ELSE Found(f[n - 1], s)]]
<1>1. \A s \in Searches : Left(s) \in States
  BY SearchTyped, StateExcept
<1> HIDE DEF Left
<1>2. begin \in R
  BY <1>1
<1>3. \A S \in R : Step(S) \in R
  BY <1>1, FoundTyped
<1>4. F \in [Nat \X R -> R]
  <2>1. \A q \in Nat \X R : q[1] \in Nat /\ q[2] \in R
    OBVIOUS
  <2> HIDE DEF R, Step
  <2> QED BY <1>3, <2>1
<1>5. StepIn(R, F)
  BY <1>4 DEF StepIn
<1>6. \A S \in R, n \in Nat : F[<<n, S>>] = Step(S)
  OBVIOUS
<1> HIDE DEF R, F, begin
<1>7. PICK X \in [Nat -> R] : X[0] = begin /\ \A n \in Nat : X[n + 1] = F[<<n, X[n]>>]
  <2>1. \E X : Iterates(R, begin, F, X)
    BY <1>2, <1>5, Recursion
  <2> QED BY <2>1 DEF Iterates
<1>8. X = Def(X)
  <2>1. ASSUME NEW n \in Nat
        PROVE  X[n] = [s \in Searches |->
                        IF n = 0 \/ ~s.from.ended THEN Left(s) ELSE Found(X[n - 1], s)]
    <3>1. CASE n = 0
      BY <1>7, <3>1 DEF begin
    <3>2. CASE n # 0
      <4> DEFINE k == n - 1
      <4>1. k \in Nat /\ k + 1 = n
        BY <3>2
      <4> HIDE DEF k
      <4>2. X[k] \in R
        BY <1>7, <4>1
      <4>3. X[k + 1] = Step(X[k])
        BY <1>6, <1>7, <4>1, <4>2
      <4>4. X[n] = Step(X[n - 1])
        BY <4>1, <4>3 DEF k
      <4> QED BY <3>2, <4>4
    <3> QED BY <3>1, <3>2
  <2> QED BY <2>1, <1>7
<1>9. Search = Def(Search)
  <2> DEFINE first == CHOOSE f : f = Def(f)
  <2>1. first = Def(first)
    <3> HIDE DEF Def
    <3> QED BY <1>8
  <2>2. Search = first
    BY DEF Search, Left
  <2> HIDE DEF first
  <2> QED BY <2>1, <2>2
<1>10. Search[0] = begin
  <2>1. Def(Search)[0] = begin
    BY DEF begin
  <2> HIDE DEF Def
  <2> QED BY <1>9, <2>1
<1>11. ASSUME NEW n \in Nat PROVE Search[n + 1] = Step(Search[n])
  <2>1. n + 1 # 0 /\ n + 1 - 1 = n /\ n + 1 \in Nat
    OBVIOUS
  <2>2. Def(Search)[n + 1] = Step(Search[n])
    BY <2>1
  <2> HIDE DEF Def, Step
  <2> QED BY <1>9, <2>2
<1>12. \A n \in Nat : Search[n] \in R
  <2> DEFINE Bad == {n \in Nat : Search[n] \notin R}
  <2> SUFFICES ASSUME Bad # {} PROVE FALSE
    OBVIOUS
  <2>1. PICK b \in Bad : \A n \in Bad : b <= n
    <3>1. Bad \in SUBSET Nat
      OBVIOUS
    <3> HIDE DEF Bad
    <3> QED BY <3>1, LeastOfAny
  <2> DEFINE k == b - 1
  <2>2. k \in Nat /\ b = k + 1 /\ k \notin Bad
    BY <1>2, <1>10, <2>1
  <2> HIDE DEF Step, k
  <2>3. Search[k] \in R
    BY <2>2
  <2> QED BY <1>3, <1>11, <2>1, <2>2, <2>3
<1>13. Search \in [Nat -> R]
  <2>1. Search = [n \in Nat |-> Search[n]]
    <3>1. DOMAIN Def(Search) = Nat /\ Def(Search) = [n \in Nat |-> Def(Search)[n]]
      OBVIOUS
    <3> HIDE DEF Def
    <3> QED BY <1>9, <3>1
  <2> QED BY <1>12, <2>1
<1>14. \A s \in Searches : Search[0][s] = Left(s)
  BY <1>10 DEF begin
<1>15. \A n \in Nat, s \in Searches :
         Search[n + 1][s] = IF ~s.from.ended THEN Left(s) ELSE Found(Search[n], s)
  BY <1>11
<1> QED BY <1>13, <1>14, <1>15 DEF R, Left

-----------------------------------------------------------------------------
(* What every search keeps.                                                *)

\* A sequence is a prefix of itself, ...
LEMMA PrefixItself ==
  ASSUME NEW S, NEW s \in Seq(S) PROVE IsPrefix(s, s)
<1>1. Len(s) \in Nat
  OBVIOUS
<1> QED BY <1>1 DEF IsPrefix

\* ... a prefix has the elements of what it begins, ...
LEMMA PrefixElements ==
  ASSUME NEW S, NEW s \in Seq(S), NEW t \in Seq(S)
  PROVE  IsPrefix(s, t) <=> Len(s) <= Len(t) /\ \A k \in 1..Len(s) : s[k] = t[k]
<1> DEFINE l == Len(s)
<1>1. l \in Nat /\ Len(t) \in Nat
  OBVIOUS
<1>2. l = 0 => SubSeq(s, 1, l) = SubSeq(t, 1, l)
  OBVIOUS
<1>3. ASSUME l # 0, l <= Len(t)
      PROVE  (SubSeq(s, 1, l) = SubSeq(t, 1, l)) <=> \A k \in 1..l : s[k] = t[k]
  <2>1. l \in 1..Len(s) /\ l \in 1..Len(t)
    BY <1>1, <1>3
  <2> DEFINE a == SubSeq(s, 1, l)
             b == SubSeq(t, 1, l)
  <2>2. a \in Seq(S) /\ Len(a) = l /\ \A k \in 1..l : a[k] = s[k]
    BY <2>1, Parts
  <2>3. b \in Seq(S) /\ Len(b) = l /\ \A k \in 1..l : b[k] = t[k]
    BY <2>1, Parts
  <2> HIDE DEF a, b, l
  <2>4. (a = b) <=> \A k \in 1..l : a[k] = b[k]
    BY <2>2, <2>3, SeqEqual
  <2> QED BY <2>2, <2>3, <2>4 DEF a, b
<1>4. l = 0 => \A k \in 1..l : s[k] = t[k]
  OBVIOUS
<1>5. IsPrefix(s, t) <=> l <= Len(t) /\ SubSeq(s, 1, l) = SubSeq(t, 1, l)
  BY DEF IsPrefix
<1> HIDE DEF l
<1>6. IsPrefix(s, t) <=> l <= Len(t) /\ \A k \in 1..l : s[k] = t[k]
  BY <1>1, <1>2, <1>3, <1>4, <1>5
<1> QED BY <1>6 DEF l

\* ... a prefix of a prefix is one, ...
LEMMA PrefixOfPrefix ==
  ASSUME NEW S, NEW s \in Seq(S), NEW t \in Seq(S), NEW u \in Seq(S),
         IsPrefix(s, t), IsPrefix(t, u)
  PROVE  IsPrefix(s, u)
<1>1. Len(s) \in Nat /\ Len(t) \in Nat /\ Len(u) \in Nat
  OBVIOUS
<1>2. Len(s) <= Len(t) /\ \A k \in 1..Len(s) : s[k] = t[k]
  BY PrefixElements
<1>3. Len(t) <= Len(u) /\ \A k \in 1..Len(t) : t[k] = u[k]
  BY PrefixElements
<1>4. Len(s) <= Len(u) /\ \A k \in 1..Len(s) : s[k] = u[k]
  BY <1>1, <1>2, <1>3
<1> QED BY <1>4, PrefixElements

\* ... and so is what an element is appended to.
LEMMA PrefixOfAppend ==
  ASSUME NEW S, NEW s \in Seq(S), NEW e \in S
  PROVE  IsPrefix(s, Append(s, e))
<1> DEFINE t == Append(s, e)
<1>1. t \in Seq(S) /\ Len(s) <= Len(t) /\ \A k \in 1..Len(s) : s[k] = t[k]
  OBVIOUS
<1> HIDE DEF t
<1>2. IsPrefix(s, t)
  BY <1>1, PrefixElements
<1> QED BY <1>2 DEF t

\* A search adds to the solutions, and abandons no more than its own calls.
Sound(s, y) == IsPrefix(s.from.solutions, y.solutions) /\ y.cut \in 0..s.depth

\* If the searches in a search keep what Sound says, so does the search.
LEMMA SoundFound ==
  ASSUME NEW S \in [Searches -> States],
         \A s \in Searches : Proper(s) => Sound(s, S[s]),
         NEW s \in Searches, Proper(s)
  PROVE  Sound(s, Found(S, s))
<1>1. /\ s.from \in States /\ s.path \in Seq(Nat) /\ s.depth \in Nat /\ s.depth >= 1
      /\ s.from.cut = 0
  BY SearchTyped DEF Proper
<1>2. s.from.solutions \in Seq(Seq(Nat))
  BY <1>1, StateFields
<1>3. 0 \in 0..s.depth
  BY <1>1
<1>4. Sound(s, s.from)
  BY <1>1, <1>2, <1>3, PrefixItself DEF Sound
<1>5. CASE s.goals = <<>>
  <2> DEFINE ss == Append(s.from.solutions, s.path)
             y == [s.from EXCEPT !.solutions = ss]
  <2>1. IsPrefix(s.from.solutions, ss) /\ ss \in Seq(Seq(Nat))
    BY <1>1, <1>2, PrefixOfAppend
  <2>2. Found(S, s) = y
    BY <1>5, FoundSolution
  <2> HIDE DEF ss
  <2>3. y.solutions = ss /\ y.cut = 0
    BY <1>1, <2>1, StateExcept
  <2> HIDE DEF y
  <2> QED BY <1>3, <2>1, <2>2, <2>3 DEF Sound
<1>6. ASSUME s.goals # <<>>, NEW path \in Seq(Nat), NEW st \in States, st.cut = 0,
             IsPrefix(s.from.solutions, st.solutions)
      PROVE  LET y == S[Following(s, path, st)] IN y \in States /\ Sound(s, y)
  <2> DEFINE w == Following(s, path, st)
  <2>1. w \in Searches /\ Proper(w)
    BY <1>6, OnwardTyped
  <2>2. w.from = st /\ w.depth = s.depth
    BY DEF Following, Whole, Rest
  <2> HIDE DEF w
  <2>3. S[w] \in States /\ Sound(w, S[w])
    BY <2>1
  <2>4. st.solutions \in Seq(Seq(Nat)) /\ S[w].solutions \in Seq(Seq(Nat))
    BY <2>3, StateFields
  <2>5. IsPrefix(s.from.solutions, S[w].solutions)
    BY <1>2, <1>6, <2>2, <2>3, <2>4, PrefixOfPrefix DEF Sound
  <2> QED BY <2>2, <2>3, <2>5 DEF Sound, w
<1>7. ASSUME NEW st \in States, st.solutions = s.from.solutions
      PROVE  IsPrefix(s.from.solutions, st.solutions)
  BY <1>2, <1>7, PrefixItself
<1>8. CASE s.goals # <<>> /\ Head(s.goals).goal.op = "cut"
  <2> DEFINE end == S[Following(s, s.path, s.from)]
             level == Head(s.goals).level
             y == CutTo(level, end)
  <2>1. end \in States /\ Sound(s, end)
    BY <1>1, <1>6, <1>7, <1>8
  <2>2. level \in 1..s.depth
    BY <1>8, TailOfGoals
  <2>3. Found(S, s) = y
    BY <1>8, FoundCut
  <2> HIDE DEF end, level
  <2>4. /\ y.solutions = end.solutions
        /\ y.cut = IF end.cut # 0 /\ end.cut < level THEN end.cut ELSE level
    <3>1. level \in Nat
      BY <2>2
    <3> QED BY <2>1, <3>1, CutToTyped
  <2> HIDE DEF y
  <2> QED BY <1>1, <2>1, <2>2, <2>3, <2>4 DEF Sound
<1>9. CASE s.goals # <<>> /\ Head(s.goals).goal.op = "assert"
  <2> DEFINE a == Head(s.goals).goal.atom
  <2>1. a \in Atoms
    BY <1>9, GoalAtom
  <2>2. Found(S, s) = IF a \in Ground THEN S[Following(s, s.path, Added(s.from, a))]
                      ELSE Failed(s.from)
    BY <1>9, FoundAssert
  <2> HIDE DEF a
  <2>3. /\ Added(s.from, a) \in States /\ Added(s.from, a).cut = 0
        /\ Added(s.from, a).solutions = s.from.solutions
        /\ Failed(s.from) \in States /\ Failed(s.from).cut = 0
        /\ Failed(s.from).solutions = s.from.solutions
    BY <1>1, <2>1, StateSteps
  <2>4. Sound(s, S[Following(s, s.path, Added(s.from, a))])
    BY <1>1, <1>6, <1>7, <1>9, <2>3
  <2>5. Sound(s, Failed(s.from))
    BY <1>3, <1>7, <2>3 DEF Sound
  <2> QED BY <2>2, <2>4, <2>5
<1>10. CASE s.goals # <<>> /\ Head(s.goals).goal.op = "retract"
  <2> DEFINE a == Head(s.goals).goal.atom
  <2>1. Found(S, s) = IF Matching(s.from, a) = {} THEN s.from
                      ELSE S[Following(s, s.path, Removed(s.from, a))]
    BY <1>10, FoundRetract
  <2> HIDE DEF a
  <2>2. Matching(s.from, a) # {} =>
          /\ Removed(s.from, a) \in States /\ Removed(s.from, a).cut = 0
          /\ Removed(s.from, a).solutions = s.from.solutions
    BY <1>1, StateSteps
  <2>3. Matching(s.from, a) # {} => Sound(s, S[Following(s, s.path, Removed(s.from, a))])
    BY <1>1, <1>6, <1>7, <1>10, <2>2
  <2> QED BY <1>4, <2>1, <2>3
<1>11. CASE s.goals # <<>> /\ Head(s.goals).goal.op = "findall"
  <2> DEFINE sub == S[Sub(s)]
             b == Back(s, sub)
             path == Append(s.path, 0)
  <2>1. sub \in States
    BY <1>11, SubTyped
  <2>2. Found(S, s) = Collected(S, s, sub)
    BY <1>11, FoundFindall
  <2> HIDE DEF sub
  <2>3. b \in States /\ b.cut = 0 /\ b.solutions = s.from.solutions
    BY <2>1, StateSteps
  <2>4. path \in Seq(Nat)
    BY <1>1
  <2>5. Collected(S, s, sub) \in {S[Following(s, path, b)], b}
    BY DEF Collected, Onward
  <2> HIDE DEF b, path
  <2>6. Sound(s, S[Following(s, path, b)])
    BY <1>6, <1>7, <1>11, <2>3, <2>4
  <2>7. Sound(s, b)
    BY <1>3, <1>7, <2>3 DEF Sound
  <2> QED BY <2>2, <2>5, <2>6, <2>7
<1>12. CASE s.goals # <<>> /\ Head(s.goals).goal.op \notin Special
  <2>1. CASE s.choices = <<>>
    BY <1>4, <1>12, <2>1, FoundCall
  <2>2. CASE s.choices # <<>>
    <3> DEFINE done == Tried(S, s)
    <3>1. done \in States
      BY <1>12, <2>2, TriedTyped
    <3>2. IsPrefix(s.from.solutions, done.solutions) /\ done.cut \in 0..(s.depth + 1)
      <4> DEFINE e == Entered(s)
      <4>1. /\ e \in Searches /\ Proper(e)
            /\ e.from = s.from /\ e.depth = s.depth + 1
        BY <1>12, <2>2, EnteredTyped
      <4> HIDE DEF e
      <4>2. Sound(e, S[e])
        BY <4>1
      <4>3. Failed(s.from) \in States /\ Failed(s.from).cut = 0
            /\ Failed(s.from).solutions = s.from.solutions
        BY <1>1, StateSteps
      <4>4. done \in {Failed(s.from), S[e], s.from}
        BY DEF Tried, e
      <4>5. done = S[e] \/ (done.cut = 0 /\ done.solutions = s.from.solutions)
        BY <1>1, <4>3, <4>4
      <4>6. 0 \in 0..(s.depth + 1)
        BY <1>1
      <4> HIDE DEF done
      <4> QED BY <1>7, <3>1, <4>1, <4>2, <4>5, <4>6 DEF Sound
    <3>3. Found(S, s) = Others(S, s, done)
      BY <1>12, <2>2, FoundCall
    <3> HIDE DEF done
    <3>4. CASE done.cut = 0
      <4> DEFINE r == Resumed(s, done)
      <4>1. r \in Searches /\ Proper(r) /\ r.from = done /\ r.depth = s.depth
        BY <2>2, <3>1, <3>4, ResumedTyped
      <4>2. Found(S, s) = S[r]
        BY <3>3, <3>4 DEF Others
      <4> HIDE DEF r
      <4>3. Sound(r, S[r]) /\ S[r] \in States
        BY <4>1
      <4>4. done.solutions \in Seq(Seq(Nat)) /\ S[r].solutions \in Seq(Seq(Nat))
        BY <3>1, <4>3, StateFields
      <4>5. IsPrefix(s.from.solutions, S[r].solutions)
        BY <1>2, <3>2, <4>1, <4>3, <4>4, PrefixOfPrefix DEF Sound
      <4> QED BY <4>1, <4>2, <4>3, <4>5 DEF Sound
    <3>5. CASE done.cut # 0
      <4>1. Found(S, s) = Returned(done, s.depth + 1)
        BY <3>3, <3>5 DEF Others
      <4>2. done.cut <= s.depth + 1
        BY <3>2
      <4>3. /\ Returned(done, s.depth + 1).solutions = done.solutions
            /\ Returned(done, s.depth + 1).cut \in 0..s.depth
        BY <1>1, <3>1, <4>2, ReturnedTyped
      <4> QED BY <3>2, <4>1, <4>3 DEF Sound
    <3> QED BY <3>4, <3>5
  <2> QED BY <2>1, <2>2
<1> QED BY <1>5, <1>8, <1>9, <1>10, <1>11, <1>12 DEF Special

\* Every search keeps it, however many steps it is given.
LEMMA SoundSearch ==
  ASSUME NEW n \in Nat, NEW s \in Searches, Proper(s)
  PROVE  Sound(s, Search[n][s])
<1> DEFINE Good(k) == \A r \in Searches : Proper(r) => Sound(r, Search[k][r])
           Bad == {k \in Nat : ~Good(k)}
<1>1. ASSUME NEW r \in Searches, Proper(r)
      PROVE  Sound(r, [r.from EXCEPT !.ended = FALSE])
  <2>1. r.from \in States /\ r.depth \in Nat /\ r.from.cut = 0
    BY <1>1, SearchTyped DEF Proper
  <2> DEFINE y == [r.from EXCEPT !.ended = FALSE]
  <2>2. y.solutions = r.from.solutions /\ y.cut = 0 /\ r.from.solutions \in Seq(Seq(Nat))
    BY <2>1, StateExcept, StateFields
  <2> HIDE DEF y
  <2>3. IsPrefix(r.from.solutions, y.solutions)
    BY <2>2, PrefixItself
  <2> QED BY <2>1, <2>2, <2>3 DEF Sound, y
<1>2. Good(0)
  BY <1>1, SearchIs
<1>3. ASSUME NEW k \in Nat, Good(k) PROVE Good(k + 1)
  <2> SUFFICES ASSUME NEW r \in Searches, Proper(r) PROVE Sound(r, Search[k + 1][r])
    OBVIOUS
  <2> DEFINE S == Search[k]
  <2>1. S \in [Searches -> States]
    BY SearchIs
  <2>2. \A q \in Searches : Proper(q) => Sound(q, S[q])
    BY <1>3
  <2>3. Search[k + 1][r] = IF ~r.from.ended THEN [r.from EXCEPT !.ended = FALSE] ELSE Found(S, r)
    BY SearchIs
  <2> HIDE DEF S
  <2>4. Sound(r, Found(S, r))
    BY <2>1, <2>2, SoundFound
  <2> QED BY <1>1, <2>3, <2>4
<1> HIDE DEF Good
<1>4. Bad = {}
  <2> SUFFICES ASSUME Bad # {} PROVE FALSE
    OBVIOUS
  <2>1. PICK b \in Bad : \A k \in Bad : b <= k
    <3>1. Bad \in SUBSET Nat
      OBVIOUS
    <3> HIDE DEF Bad
    <3> QED BY <3>1, LeastOfAny
  <2> DEFINE k == b - 1
  <2>2. k \in Nat /\ b = k + 1 /\ k \notin Bad
    BY <1>2, <2>1
  <2> QED BY <1>3, <2>1, <2>2
<1>5. Good(n)
  BY <1>4
<1> QED BY <1>5 DEF Good

-----------------------------------------------------------------------------
(* A search that ends, and what it owes to the searches in it.             *)

\* The search s ends, in the state y.
Gives(s, y) == s \in Searches /\ Proper(s) /\ \E n \in Nat : Search[n][s] = y /\ y.ended

\* A search that ends has started from one that has ended, and took a step.
LEMMA EndedFrom ==
  ASSUME NEW n \in Nat, NEW s \in Searches, Search[n][s].ended
  PROVE  s.from.ended /\ n # 0
<1>1. s.from \in States
  BY SearchTyped
<1>2. [s.from EXCEPT !.ended = FALSE].ended = FALSE
  BY <1>1, StateExcept
<1>3. n # 0
  BY <1>2, SearchIs
<1> DEFINE k == n - 1
<1>4. k \in Nat /\ n = k + 1
  BY <1>3
<1> HIDE DEF k
<1>5. Search[n][s] = IF ~s.from.ended THEN [s.from EXCEPT !.ended = FALSE] ELSE Found(Search[k], s)
  BY <1>4, SearchIs
<1> QED BY <1>2, <1>3, <1>5

\* What it means that a search gives a state.
LEMMA GivesOpened ==
  ASSUME NEW s, NEW y, Gives(s, y)
  PROVE  /\ s \in Searches /\ Proper(s) /\ y \in States /\ y.ended /\ s.from.ended /\ Sound(s, y)
         /\ \E n \in Nat : Search[n] \in [Searches -> States] /\ y = Found(Search[n], s)
<1>1. s \in Searches /\ Proper(s)
  BY DEF Gives
<1>2. PICK n \in Nat : Search[n][s] = y /\ y.ended
  BY DEF Gives
<1>3. s.from.ended /\ n # 0
  BY <1>1, <1>2, EndedFrom
<1> DEFINE k == n - 1
<1>4. k \in Nat /\ n = k + 1
  BY <1>3
<1> HIDE DEF k
<1>5. Search[k] \in [Searches -> States] /\ y = Found(Search[k], s)
  BY <1>1, <1>2, <1>3, <1>4, SearchIs
<1>6. y \in States
  BY <1>1, <1>5, FoundTyped
<1>7. Sound(s, y)
  BY <1>1, <1>2, SoundSearch
<1> QED BY <1>1, <1>2, <1>3, <1>4, <1>5, <1>6, <1>7

\* What follows the first goal gives what it is left with when it ends.
LEMMA GivesFollowing ==
  ASSUME NEW s \in Searches, Proper(s), s.goals # <<>>, NEW path \in Seq(Nat),
         NEW st \in States, st.cut = 0, NEW n \in Nat,
         Search[n][Following(s, path, st)].ended
  PROVE  Gives(Following(s, path, st), Search[n][Following(s, path, st)])
<1> DEFINE w == Following(s, path, st)
<1>1. w \in Searches /\ Proper(w)
  BY OnwardTyped
<1> QED BY <1>1 DEF Gives

\* A search that gives a state owes it to the searches in it: with no goal left,
\* ...
LEMMA GivesSolution ==
  ASSUME NEW s, NEW y, Gives(s, y), s.goals = <<>>
  PROVE  y = [s.from EXCEPT !.solutions = Append(@, s.path)]
BY GivesOpened, FoundSolution

\* ... with a cut, to what follows it, ...
LEMMA GivesCut ==
  ASSUME NEW s, NEW y, Gives(s, y), s.goals # <<>>, Head(s.goals).goal.op = "cut"
  PROVE  \E end : Gives(Following(s, s.path, s.from), end) /\ y = CutTo(Head(s.goals).level, end)
<1>1. s \in Searches /\ Proper(s) /\ y.ended
  BY GivesOpened
<1>2. PICK n \in Nat : Search[n] \in [Searches -> States] /\ y = Found(Search[n], s)
  BY GivesOpened
<1>3. s.from \in States /\ s.path \in Seq(Nat) /\ s.from.cut = 0
  BY <1>1, SearchTyped DEF Proper
<1> DEFINE w == Following(s, s.path, s.from)
           end == Search[n][w]
           level == Head(s.goals).level
<1>4. y = CutTo(level, end)
  BY <1>2, FoundCut
<1>5. w \in Searches
  BY <1>1, <1>3, OnwardTyped
<1>6. end \in States /\ level \in Nat
  BY <1>1, <1>2, <1>5, TailOfGoals DEF Levelled
<1>7. end.ended
  <2> HIDE DEF end, level
  <2> QED BY <1>1, <1>4, <1>6, CutToTyped
<1>8. Gives(w, end)
  BY <1>1, <1>3, <1>7, GivesFollowing
<1> QED BY <1>4, <1>8

\* ... with an assert(), to what follows in the state with the fact, ...
LEMMA GivesAssert ==
  ASSUME NEW s, NEW y, Gives(s, y), s.goals # <<>>, Head(s.goals).goal.op = "assert"
  PROVE  LET a == Head(s.goals).goal.atom
         IN  IF a \in Ground THEN Gives(Following(s, s.path, Added(s.from, a)), y)
             ELSE y = Failed(s.from)
<1>1. s \in Searches /\ Proper(s) /\ y.ended
  BY GivesOpened
<1>2. PICK n \in Nat : Search[n] \in [Searches -> States] /\ y = Found(Search[n], s)
  BY GivesOpened
<1>3. s.from \in States /\ s.path \in Seq(Nat) /\ s.from.cut = 0
  BY <1>1, SearchTyped DEF Proper
<1> DEFINE a == Head(s.goals).goal.atom
<1>4. a \in Atoms
  BY <1>1, GoalAtom
<1>5. y = IF a \in Ground THEN Search[n][Following(s, s.path, Added(s.from, a))] ELSE Failed(s.from)
  BY <1>2, FoundAssert
<1> HIDE DEF a
<1>6. Added(s.from, a) \in States /\ Added(s.from, a).cut = 0
  BY <1>1, <1>3, <1>4, StateSteps
<1>7. CASE a \in Ground
  <2>1. y = Search[n][Following(s, s.path, Added(s.from, a))]
    BY <1>5, <1>7
  <2> QED BY <1>1, <1>3, <1>6, <1>7, <2>1, GivesFollowing DEF a
<1>8. CASE a \notin Ground
  BY <1>5, <1>8 DEF a
<1> QED BY <1>7, <1>8

\* ... with a retract(), to what follows in the state without it, ...
LEMMA GivesRetract ==
  ASSUME NEW s, NEW y, Gives(s, y), s.goals # <<>>, Head(s.goals).goal.op = "retract"
  PROVE  LET a == Head(s.goals).goal.atom
         IN  IF Matching(s.from, a) = {} THEN y = s.from
             ELSE Gives(Following(s, s.path, Removed(s.from, a)), y)
<1>1. s \in Searches /\ Proper(s) /\ y.ended
  BY GivesOpened
<1>2. PICK n \in Nat : Search[n] \in [Searches -> States] /\ y = Found(Search[n], s)
  BY GivesOpened
<1>3. s.from \in States /\ s.path \in Seq(Nat) /\ s.from.cut = 0
  BY <1>1, SearchTyped DEF Proper
<1> DEFINE a == Head(s.goals).goal.atom
<1>5. y = IF Matching(s.from, a) = {} THEN s.from
          ELSE Search[n][Following(s, s.path, Removed(s.from, a))]
  BY <1>2, FoundRetract
<1> HIDE DEF a
<1>6. Matching(s.from, a) # {} => Removed(s.from, a) \in States /\ Removed(s.from, a).cut = 0
  BY <1>1, <1>3, StateSteps
<1>7. CASE Matching(s.from, a) # {}
  <2>1. y = Search[n][Following(s, s.path, Removed(s.from, a))]
    BY <1>5, <1>7
  <2> QED BY <1>1, <1>3, <1>6, <1>7, <2>1, GivesFollowing DEF a
<1>8. CASE Matching(s.from, a) = {}
  BY <1>5, <1>8 DEF a
<1> QED BY <1>7, <1>8

\* A findall() goes on with what its own search gives.
Collects(s, sub, y) ==
  IF Head(s.goals).goal.out \in {None, Len(sub.solutions)}
    THEN Gives(Following(s, Append(s.path, 0), Back(s, sub)), y) ELSE y = Back(s, sub)

\* ... with a findall(), to its own search and then to what follows, ...
LEMMA GivesFindall ==
  ASSUME NEW s, NEW y, Gives(s, y), s.goals # <<>>, Head(s.goals).goal.op = "findall"
  PROVE  \E sub \in States : Gives(Sub(s), sub) /\ Collects(s, sub, y)
<1>1. s \in Searches /\ Proper(s) /\ y.ended
  BY GivesOpened
<1>2. PICK n \in Nat : Search[n] \in [Searches -> States] /\ y = Found(Search[n], s)
  BY GivesOpened
<1>3. s.path \in Seq(Nat)
  BY <1>1, SearchTyped
<1> DEFINE sub == Search[n][Sub(s)]
           b == Back(s, sub)
           path == Append(s.path, 0)
           w == Following(s, path, b)
<1>4. Sub(s) \in Searches /\ Proper(Sub(s))
  BY <1>1, SubTyped
<1>5. sub \in States
  BY <1>2, <1>4
<1>6. y = Collected(Search[n], s, sub)
  BY <1>2, FoundFindall
<1>7. b \in States /\ b.cut = 0 /\ b.ended = sub.ended
  <2> HIDE DEF sub
  <2> QED BY <1>1, <1>5, StateSteps
<1>8. path \in Seq(Nat)
  BY <1>3
<1>9. y = IF Head(s.goals).goal.out \in {None, Len(sub.solutions)} THEN Search[n][w] ELSE b
  BY <1>6 DEF Collected, Onward
<1>10. w \in Searches /\ w.from = b
  <2> HIDE DEF b, path
  <2>1. w \in Searches
    BY <1>1, <1>7, <1>8, OnwardTyped
  <2> QED BY <2>1 DEF Following, Whole, Rest
<1>11. sub.ended
  <2> HIDE DEF sub, b, w
  <2> QED BY <1>1, <1>7, <1>9, <1>10, EndedFrom
<1>12. Gives(Sub(s), sub)
  BY <1>4, <1>11 DEF Gives
<1>13. Collects(s, sub, y)
  <2>1. CASE Head(s.goals).goal.out \in {None, Len(sub.solutions)}
    <3>1. y = Search[n][w]
      BY <1>9, <2>1
    <3> HIDE DEF sub, b, path
    <3>2. Gives(w, y)
      BY <1>1, <1>7, <1>8, <3>1, GivesFollowing
    <3> QED BY <2>1, <3>2 DEF Collects, b, path
  <2>2. CASE Head(s.goals).goal.out \notin {None, Len(sub.solutions)}
    <3>1. y = b
      BY <1>9, <2>2
    <3> HIDE DEF sub
    <3> QED BY <2>2, <3>1 DEF Collects
  <2> QED BY <2>1, <2>2
<1> HIDE DEF sub
<1> QED BY <1>5, <1>12, <1>13

\* What the first choice of a call comes to, and what the call makes of it.
Tries(s, done) ==
  LET g == Head(s.goals).goal
      c == Head(s.choices).clause
  IN  IF Errs(c, g) THEN done = Failed(s.from)
      ELSE IF Holds(c, g) THEN Gives(Entered(s), done) ELSE done = s.from

GoesOn(s, done, y) ==
  IF done.cut # 0 THEN y = Returned(done, s.depth + 1) ELSE Gives(Resumed(s, done), y)

\* ... and with a call, to its first choice and then to the others.
LEMMA GivesCall ==
  ASSUME NEW s, NEW y, Gives(s, y), s.goals # <<>>, Head(s.goals).goal.op \notin Special
  PROVE  IF s.choices = <<>> THEN y = s.from
         ELSE \E done \in States : Tries(s, done) /\ GoesOn(s, done, y)
<1>1. s \in Searches /\ Proper(s) /\ y.ended /\ y \in States
  BY GivesOpened
<1>2. PICK n \in Nat : Search[n] \in [Searches -> States] /\ y = Found(Search[n], s)
  BY GivesOpened
<1>3. CASE s.choices = <<>>
  BY <1>2, <1>3, FoundCall
<1>4. CASE s.choices # <<>>
  <2> DEFINE done == Tried(Search[n], s)
             r == Resumed(s, done)
  <2>1. done \in States
    BY <1>1, <1>2, <1>4, TriedTyped
  <2>2. y = Others(Search[n], s, done)
    BY <1>2, <1>4, FoundCall
  <2>3. /\ r \in Searches /\ (done.cut = 0 => Proper(r)) /\ r.from = done
    <3> HIDE DEF done
    <3> QED BY <1>1, <1>4, <2>1, ResumedTyped
  <2>4. y = IF done.cut # 0 THEN Returned(done, s.depth + 1) ELSE Search[n][r]
    BY <2>2 DEF Others
  <2>5. done.ended
    <3>1. Returned(done, s.depth + 1).ended = done.ended
      <4> HIDE DEF done
      <4> DEFINE c == IF done.cut = s.depth + 1 THEN 0 ELSE done.cut
                 u == [done EXCEPT !.cut = c]
      <4>1. c \in Nat
        BY <2>1, StateFields
      <4>2. Returned(done, s.depth + 1) = u
        BY DEF Returned
      <4> HIDE DEF c
      <4>3. u.ended = done.ended
        BY <2>1, <4>1, StateExcept
      <4> HIDE DEF u
      <4> QED BY <4>2, <4>3
    <3> HIDE DEF done, r
    <3>2. CASE done.cut # 0
      BY <1>1, <2>4, <3>1, <3>2
    <3>3. CASE done.cut = 0
      <4>1. Search[n][r].ended
        BY <1>1, <2>4, <3>3
      <4> QED BY <2>3, <4>1, EndedFrom
    <3> QED BY <3>2, <3>3
  <2>6. Tries(s, done)
    <3>1. Entered(s) \in Searches /\ Proper(Entered(s))
      BY <1>1, <1>4, EnteredTyped
    <3> DEFINE g == Head(s.goals).goal
               c == Head(s.choices).clause
    <3>2. done = IF Errs(c, g) THEN Failed(s.from)
                 ELSE IF Holds(c, g) THEN Search[n][Entered(s)] ELSE s.from
      BY DEF Tried
    <3> HIDE DEF done, g, c
    <3>3. CASE Errs(c, g)
      BY <3>2, <3>3 DEF Tries, g, c
    <3>4. CASE ~Errs(c, g) /\ Holds(c, g)
      <4>1. Gives(Entered(s), done)
        BY <2>5, <3>1, <3>2, <3>4 DEF Gives
      <4> QED BY <3>4, <4>1 DEF Tries, g, c
    <3>5. CASE ~Errs(c, g) /\ ~Holds(c, g)
      BY <3>2, <3>5 DEF Tries, g, c
    <3> QED BY <3>3, <3>4, <3>5
  <2>7. GoesOn(s, done, y)
    <3> HIDE DEF done, r
    <3>1. CASE done.cut # 0
      BY <2>4, <3>1 DEF GoesOn
    <3>2. CASE done.cut = 0
      <4>1. Gives(r, y)
        BY <1>1, <2>3, <2>4, <3>2 DEF Gives
      <4> QED BY <3>2, <4>1 DEF GoesOn, r
    <3> QED BY <3>1, <3>2
  <2> HIDE DEF done
  <2> QED BY <1>4, <2>1, <2>6, <2>7
<1> QED BY <1>3, <1>4

-----------------------------------------------------------------------------
(* Cursors: the goals that the frames of a context stand for.              *)

Rests == [part : Nat, rest : Seq(Goals)]
Spelled == [goal : Goals, level : Nat]

\* The goals from each frame on: what is left of the frame, at the level of its
\* goal part, before those of the next.
Spelling(cs, lv, H) ==
  /\ H \in [1..(Len(cs) + 1) -> Seq(Spelled)]
  /\ H[Len(cs) + 1] = <<>>
  /\ \A k \in 1..Len(cs) : H[k] = At(cs[k].rest, lv[cs[k].part]) \o H[k + 1]

Spells(cs, lv, goals) == \E H : Spelling(cs, lv, H) /\ goals = H[1]

\* A cursor that is exhausted stands for no goals.
LEMMA SpellsNothing ==
  ASSUME NEW lv
  PROVE  /\ Spells(<<>>, lv, <<>>)
         /\ \A goals : Spells(<<>>, lv, goals) => goals = <<>>
<1>1. Len(<<>>) = 0
  OBVIOUS
<1> DEFINE H == [k \in 1..1 |-> <<>>]
<1>2. Spelling(<<>>, lv, H)
  <2>1. <<>> \in Seq(Spelled)
    OBVIOUS
  <2>2. H \in [1..1 -> Seq(Spelled)] /\ H[1] = <<>>
    BY <2>1
  <2> HIDE DEF H
  <2> QED BY <1>1, <2>2 DEF Spelling
<1>3. H[1] = <<>>
  OBVIOUS
<1>4. Spells(<<>>, lv, <<>>)
  BY <1>2, <1>3 DEF Spells
<1>5. ASSUME NEW goals, Spells(<<>>, lv, goals) PROVE goals = <<>>
  BY <1>1, <1>5 DEF Spells, Spelling
<1> QED BY <1>4, <1>5

\* What a cursor stands for are goals with their levels.
LEMMA SpellsTyped ==
  ASSUME NEW cs \in Seq(Rests), NEW lv, NEW goals, Spells(cs, lv, goals)
  PROVE  goals \in Seq(Spelled)
<1>1. PICK H : Spelling(cs, lv, H) /\ goals = H[1]
  BY DEF Spells
<1>2. 1 \in 1..(Len(cs) + 1)
  OBVIOUS
<1> QED BY <1>1, <1>2 DEF Spelling

\* One more frame in front.
LEMMA SpellsMore ==
  ASSUME NEW cs \in Seq(Rests), NEW lv \in [Nat -> Nat], NEW goals, Spells(cs, lv, goals),
         NEW x \in Rests
  PROVE  Spells(<<x>> \o cs, lv, At(x.rest, lv[x.part]) \o goals)
<1>1. PICK H : Spelling(cs, lv, H) /\ goals = H[1]
  BY DEF Spells
<1> DEFINE l == Len(cs)
           ns == <<x>> \o cs
           b == At(x.rest, lv[x.part])
           first == b \o goals
           H2 == [k \in 1..(l + 2) |-> IF k = 1 THEN first ELSE H[k - 1]]
<1>2. l \in Nat
  OBVIOUS
<1>3. /\ H \in [1..(l + 1) -> Seq(Spelled)]
      /\ H[l + 1] = <<>>
      /\ \A k \in 1..l : H[k] = At(cs[k].rest, lv[cs[k].part]) \o H[k + 1]
  BY <1>1 DEF Spelling
<1>4. x.rest \in Seq(Goals) /\ lv[x.part] \in Nat
  BY DEF Rests
<1>5. b \in Seq(Spelled)
  BY <1>4, AtTyped DEF Spelled
<1>6. goals \in Seq(Spelled)
  BY SpellsTyped
<1> HIDE DEF b
<1>7. first \in Seq(Spelled)
  BY <1>5, <1>6
<1>8. Len(ns) = l + 1 /\ ns[1] = x /\ \A k \in 2..(l + 1) : ns[k] = cs[k - 1]
  <2>1. <<x>> \in Seq(Rests) /\ Len(<<x>>) = 1 /\ <<x>>[1] = x
    OBVIOUS
  <2> DEFINE o == <<x>>
  <2> HIDE DEF o
  <2>2. /\ o \o cs \in Seq(Rests) /\ Len(o \o cs) = Len(o) + l
        /\ \A k \in 1..(Len(o) + l) : (o \o cs)[k] = IF k <= Len(o) THEN o[k] ELSE cs[k - Len(o)]
    BY <2>1, ConcatProperties DEF o
  <2>3. Len(o) = 1 /\ o[1] = x
    BY <2>1 DEF o
  <2>4. o \o cs = ns
    BY DEF o
  <2> QED BY <1>2, <2>2, <2>3, <2>4
<1> HIDE DEF l, ns, first
<1>9. H2 \in [1..(l + 2) -> Seq(Spelled)]
  BY <1>2, <1>3, <1>7
<1>10. H2[1] = first /\ \A j \in 1..(l + 1) : H2[j + 1] = H[j]
  <2>1. ASSUME NEW j \in 1..(l + 1) PROVE H2[j + 1] = H[j]
    <3>1. j + 1 \in 1..(l + 2) /\ j + 1 # 1 /\ j + 1 - 1 = j
      BY <1>2
    <3> QED BY <3>1
  <2>2. 1 \in 1..(l + 2)
    BY <1>2
  <2> QED BY <2>1, <2>2
<1> HIDE DEF H2
<1>11. Len(ns) + 1 = l + 2
  BY <1>2, <1>8
<1>12. H2[l + 2] = <<>>
  <2>1. l + 1 \in 1..(l + 1) /\ l + 1 + 1 = l + 2
    BY <1>2
  <2>2. H2[l + 1 + 1] = H[l + 1]
    BY <1>10, <2>1
  <2> QED BY <1>3, <2>1, <2>2
<1>13. ASSUME NEW k \in 1..(l + 1)
       PROVE  H2[k] = At(ns[k].rest, lv[ns[k].part]) \o H2[k + 1]
  <2>1. CASE k = 1
    <3>1. H2[2] = goals
      <4>1. 1 \in 1..(l + 1) /\ 1 + 1 = 2
        BY <1>2
      <4> QED BY <1>1, <1>10, <4>1
    <3>2. k + 1 = 2 /\ ns[k] = x /\ H2[k] = first
      BY <1>8, <1>10, <2>1
    <3> QED BY <3>1, <3>2 DEF first, b
  <2>2. CASE k # 1
    <3> DEFINE j == k - 1
    <3>1. j \in 1..l /\ k = j + 1
      BY <1>2, <2>2
    <3> HIDE DEF j
    <3>2. j \in 1..(l + 1) /\ j + 1 \in 1..(l + 1) /\ j + 1 \in 2..(l + 1)
      BY <1>2, <3>1
    <3>3. j + 1 - 1 = j /\ j + 1 + 1 = j + 2
      BY <3>1
    <3>7. H2[j + 1] = H[j] /\ H2[j + 1 + 1] = H[j + 1]
      BY <1>10, <3>2
    <3>8. ns[j + 1] = cs[j + 1 - 1]
      BY <1>8, <3>2
    <3>4. H2[j + 1] = H[j] /\ H2[j + 2] = H[j + 1] /\ ns[j + 1] = cs[j]
      BY <3>3, <3>7, <3>8
    <3>5. H2[j + 1] = At(ns[j + 1].rest, lv[ns[j + 1].part]) \o H2[j + 2]
      BY <1>3, <3>1, <3>4
    <3>6. j + 2 = k + 1
      BY <3>1
    <3> QED BY <3>1, <3>5, <3>6
  <2> QED BY <2>1, <2>2
<1>14. Spelling(ns, lv, H2)
  BY <1>8, <1>9, <1>11, <1>12, <1>13 DEF Spelling
<1> QED BY <1>10, <1>14 DEF Spells, ns, first, b

\* The frames after the first spell the goals after its.
LEMMA SpellsRest ==
  ASSUME NEW cs \in Seq(Rests), cs # <<>>, NEW lv \in [Nat -> Nat], NEW goals,
         Spells(cs, lv, goals)
  PROVE  \E later \in Seq(Spelled) :
           Spells(Tail(cs), lv, later) /\ goals = At(cs[1].rest, lv[cs[1].part]) \o later
<1>1. PICK H : Spelling(cs, lv, H) /\ goals = H[1]
  BY DEF Spells
<1> DEFINE l == Len(cs)
           t == Tail(cs)
           H2 == [k \in 1..l |-> H[k + 1]]
<1>2. l \in Nat /\ l # 0 /\ Len(t) = l - 1 /\ \A k \in 1..(l - 1) : t[k] = cs[k + 1]
  OBVIOUS
<1>3. /\ H \in [1..(l + 1) -> Seq(Spelled)]
      /\ H[l + 1] = <<>>
      /\ \A k \in 1..l : H[k] = At(cs[k].rest, lv[cs[k].part]) \o H[k + 1]
  BY <1>1 DEF Spelling
<1> HIDE DEF l, t
<1>4. H2 \in [1..l -> Seq(Spelled)] /\ \A k \in 1..l : H2[k] = H[k + 1]
  BY <1>2, <1>3
<1> HIDE DEF H2
<1>5. H2[l] = <<>>
  BY <1>2, <1>3, <1>4
<1>6. ASSUME NEW k \in 1..(l - 1)
      PROVE  H2[k] = At(t[k].rest, lv[t[k].part]) \o H2[k + 1]
  <2>1. k + 1 \in 1..l /\ k \in 1..l
    BY <1>2
  <2>2. H2[k] = H[k + 1] /\ H2[k + 1] = H[k + 1 + 1] /\ t[k] = cs[k + 1]
    BY <1>2, <1>4, <2>1
  <2> QED BY <1>3, <2>1, <2>2
<1>7. Len(t) + 1 = l
  BY <1>2
<1>8. Spelling(t, lv, H2)
  BY <1>2, <1>4, <1>5, <1>6, <1>7 DEF Spelling
<1>9. H2[1] = H[2] /\ H2[1] \in Seq(Spelled) /\ H[1] = At(cs[1].rest, lv[cs[1].part]) \o H[2]
  <2>1. 1 \in 1..l /\ 1 + 1 = 2
    BY <1>2
  <2>2. H2[1] = H[1 + 1] /\ H[1] = At(cs[1].rest, lv[cs[1].part]) \o H[1 + 1]
    BY <1>3, <1>4, <2>1
  <2>3. H2[1] \in Seq(Spelled)
    BY <1>4, <2>1
  <2> QED BY <2>1, <2>2, <2>3
<1> QED BY <1>1, <1>8, <1>9 DEF Spells, t

\* Only the first frame can be exhausted: normalizing drops that one.
LEMMA NormalizeIs ==
  ASSUME NEW cs \in Seq(Rests), cs # <<>>, \A k \in 2..Len(cs) : cs[k].rest # <<>>
  PROVE  Normalize(cs) = IF cs[1].rest = <<>> THEN Tail(cs) ELSE cs
<1> DEFINE l == Len(cs)
           left == {k \in 1..l : cs[k].rest # <<>>}
<1>1. l \in Nat /\ l # 0
  OBVIOUS
<1> HIDE DEF l
<1>2. ASSUME NEW m \in left, \A k \in left : m <= k PROVE Min(left) = m
  <2>1. \A x \in left : (\A k \in left : x <= k) => x = m
    BY <1>1, <1>2
  <2> HIDE DEF left
  <2> QED BY <1>2, <2>1 DEF Min
<1>3. Normalize(cs) = IF left = {} THEN <<>> ELSE SubSeq(cs, Min(left), l)
  BY DEF Normalize, l
<1>4. CASE cs[1].rest # <<>>
  <2>1. 1 \in left /\ \A k \in left : 1 <= k
    BY <1>1, <1>4
  <2>2. Min(left) = 1 /\ left # {}
    BY <1>2, <2>1
  <2>3. SubSeq(cs, 1, l) = cs
    BY DEF l
  <2> HIDE DEF left
  <2> QED BY <1>3, <1>4, <2>2, <2>3
<1>5. CASE cs[1].rest = <<>> /\ l = 1
  <2>1. left = {}
    BY <1>5
  <2>2. Tail(cs) = <<>>
    <3>1. Tail(cs) \in Seq(Rests) /\ Len(Tail(cs)) = 0
      BY <1>5, HeadTailProperties DEF l
    <3> QED BY <3>1, EmptySeq
  <2> QED BY <1>3, <1>5, <2>1, <2>2
<1>6. CASE cs[1].rest = <<>> /\ l # 1
  <2>1. 2 \in 2..l
    BY <1>1, <1>6
  <2>2. cs[2].rest # <<>>
    BY <2>1 DEF l
  <2>3. 2 \in left /\ \A k \in left : 2 <= k
    BY <1>1, <1>6, <2>1, <2>2
  <2>4. Min(left) = 2 /\ left # {}
    BY <1>2, <2>3
  <2>5. SubSeq(cs, 2, l) = Tail(cs)
    BY DEF l
  <2> HIDE DEF left
  <2> QED BY <1>3, <1>6, <2>4, <2>5
<1> QED BY <1>4, <1>5, <1>6

\* Normalizing a cursor leaves the goals it stands for.
LEMMA SpellsNormalized ==
  ASSUME NEW cs \in Seq(Rests), cs # <<>>, \A k \in 2..Len(cs) : cs[k].rest # <<>>,
         NEW lv \in [Nat -> Nat], NEW goals, Spells(cs, lv, goals)
  PROVE  Spells(Normalize(cs), lv, goals)
<1>1. CASE cs[1].rest # <<>>
  BY <1>1, NormalizeIs
<1>2. CASE cs[1].rest = <<>>
  <2>1. PICK later \in Seq(Spelled) :
          Spells(Tail(cs), lv, later) /\ goals = At(cs[1].rest, lv[cs[1].part]) \o later
    BY SpellsRest
  <2>2. At(<<>>, lv[cs[1].part]) = <<>>
    BY DEF At
  <2>3. At(cs[1].rest, lv[cs[1].part]) = <<>>
    BY <1>2, <2>2
  <2>4. <<>> \o later = later
    BY ConcatEmptySeq
  <2>5. goals = later
    BY <2>1, <2>3, <2>4
  <2> QED BY <1>2, <2>1, <2>5, NormalizeIs
<1> QED BY <1>1, <1>2

\* The first goal is the current one, and the others follow it.
LEMMA AtSplit ==
  ASSUME NEW S, NEW rest \in Seq(S), rest # <<>>, NEW level \in Nat
  PROVE  /\ At(rest, level) # <<>>
         /\ Head(At(rest, level)) = [goal |-> Head(rest), level |-> level]
         /\ Tail(At(rest, level)) = At(Tail(rest), level)
<1> DEFINE T == [goal : S, level : Nat]
           l == Len(rest)
           b == At(rest, level)
           t == At(Tail(rest), level)
<1>1. l \in Nat /\ l # 0 /\ Tail(rest) \in Seq(S) /\ Len(Tail(rest)) = l - 1
      /\ \A k \in 1..(l - 1) : Tail(rest)[k] = rest[k + 1]
  OBVIOUS
<1>2. b \in Seq(T) /\ Len(b) = l /\ \A k \in 1..l : b[k] = [goal |-> rest[k], level |-> level]
  BY AtTyped
<1>3. /\ t \in Seq(T) /\ Len(t) = l - 1
      /\ \A k \in 1..(l - 1) : t[k] = [goal |-> Tail(rest)[k], level |-> level]
  <2> DEFINE r == Tail(rest)
  <2>1. r \in Seq(S) /\ Len(r) = l - 1
    BY <1>1
  <2> HIDE DEF r
  <2>2. /\ At(r, level) \in Seq(T) /\ Len(At(r, level)) = Len(r)
        /\ \A k \in 1..Len(r) : At(r, level)[k] = [goal |-> r[k], level |-> level]
    BY <2>1, AtTyped
  <2> QED BY <2>1, <2>2 DEF r
<1>4. Head(rest) = rest[1]
  OBVIOUS
<1> HIDE DEF T, l, b, t
<1>5. b # <<>>
  BY <1>1, <1>2
<1>6. Head(b) = b[1] /\ 1 \in 1..l
  BY <1>1, <1>2, <1>5
<1>7. /\ Tail(b) \in Seq(T) /\ Len(Tail(b)) = l - 1
      /\ \A k \in 1..(l - 1) : Tail(b)[k] = b[k + 1]
  BY <1>2, <1>5, HeadTailProperties
<1>8. \A k \in 1..(l - 1) : k + 1 \in 1..l
  BY <1>1
<1>9. \A k \in 1..(l - 1) : Tail(b)[k] = t[k]
  BY <1>1, <1>2, <1>3, <1>7, <1>8
<1>10. Tail(b) = t
  BY <1>3, <1>7, <1>9, SeqEqual
<1>11. Head(b) = [goal |-> Head(rest), level |-> level]
  BY <1>2, <1>4, <1>6
<1> QED BY <1>5, <1>10, <1>11 DEF b, t

\* Head and tail of a concatenation.
LEMMA ConcatSplit ==
  ASSUME NEW S, NEW s \in Seq(S), s # <<>>, NEW t \in Seq(S)
  PROVE  s \o t # <<>> /\ Head(s \o t) = Head(s) /\ Tail(s \o t) = Tail(s) \o t
<1> DEFINE u == s \o t
           v == Tail(s) \o t
           l == Len(s)
           m == Len(t)
<1>1. /\ u \in Seq(S) /\ Len(u) = l + m
      /\ \A i \in 1..(l + m) : u[i] = IF i <= l THEN s[i] ELSE t[i - l]
  BY ConcatProperties
<1>2. l \in Nat /\ l # 0 /\ m \in Nat
  OBVIOUS
<1>3. Tail(s) \in Seq(S) /\ Len(Tail(s)) = l - 1 /\ \A i \in 1..(l - 1) : Tail(s)[i] = s[i + 1]
  BY HeadTailProperties
<1>4. /\ v \in Seq(S) /\ Len(v) = l - 1 + m
      /\ \A i \in 1..(l - 1 + m) : v[i] = IF i <= l - 1 THEN Tail(s)[i] ELSE t[i - (l - 1)]
  <2> DEFINE r == Tail(s)
  <2>1. r \in Seq(S) /\ Len(r) = l - 1
    BY <1>3
  <2> HIDE DEF r, l
  <2>2. /\ r \o t \in Seq(S) /\ Len(r \o t) = Len(r) + Len(t)
        /\ \A i \in 1..(Len(r) + Len(t)) : (r \o t)[i] = IF i <= Len(r) THEN r[i] ELSE t[i - Len(r)]
    BY <2>1, ConcatProperties
  <2> QED BY <2>1, <2>2 DEF r
<1>5. Head(s) = s[1]
  OBVIOUS
<1> HIDE DEF u, v, l, m
<1>6. u # <<>>
  BY <1>1, <1>2
<1>7. Head(u) = u[1] /\ 1 \in 1..(l + m) /\ 1 <= l
  BY <1>1, <1>2, <1>6
<1>8. Tail(u) \in Seq(S) /\ Len(Tail(u)) = l + m - 1 /\ \A i \in 1..(l + m - 1) : Tail(u)[i] = u[i + 1]
  BY <1>1, <1>2, <1>6, HeadTailProperties
<1>9. ASSUME NEW i \in 1..(l + m - 1) PROVE Tail(u)[i] = v[i]
  <2>1. i \in 1..(l - 1 + m) /\ i + 1 \in 1..(l + m)
    BY <1>2
  <2>2. CASE i <= l - 1
    <3>1. i \in 1..(l - 1) /\ i + 1 <= l
      BY <1>2, <2>2
    <3>2. v[i] = s[i + 1]
      BY <1>3, <1>4, <2>1, <3>1
    <3>3. u[i + 1] = s[i + 1]
      BY <1>1, <2>1, <3>1
    <3> QED BY <1>8, <3>2, <3>3
  <2>3. CASE ~ i <= l - 1
    <3>1. ~ i + 1 <= l /\ i + 1 - l = i - (l - 1)
      BY <1>2, <2>3
    <3>2. v[i] = t[i - (l - 1)]
      BY <1>4, <2>1, <2>3
    <3> DEFINE j == i + 1
    <3>3. j \in 1..(l + m) /\ ~ j <= l /\ j - l = i - (l - 1)
      BY <1>2, <2>1, <3>1
    <3> HIDE DEF j
    <3>4. u[j] = t[j - l]
      BY <1>1, <3>3
    <3>5. Tail(u)[i] = u[j]
      BY <1>8 DEF j
    <3> QED BY <3>2, <3>3, <3>4, <3>5
  <2> QED BY <2>2, <2>3
<1>10. l + m - 1 = l - 1 + m
  BY <1>2
<1>11. Tail(u) = v
  BY <1>4, <1>8, <1>9, <1>10, SeqEqual
<1>12. Head(u) = Head(s)
  BY <1>1, <1>5, <1>7
<1> QED BY <1>6, <1>11, <1>12 DEF u, v

\* The frames of a cursor have goals left.
LEMMA FramesAreRests ==
  ASSUME NEW cs \in Seq(Frames)
  PROVE  /\ cs \in Seq(Rests)
         /\ \A k \in 1..Len(cs) : cs[k] \in Rests /\ cs[k].rest \in Seq(Goals) /\ cs[k].rest # <<>>
                                  /\ cs[k].part \in Nat
<1>1. Frames \subseteq Rests
  BY DEF Frames, Rests
<1>2. cs \in Seq(Rests)
  BY <1>1, SeqMonotonic
<1>3. \A k \in 1..Len(cs) : cs[k] \in Frames
  OBVIOUS
<1> QED BY <1>1, <1>2, <1>3 DEF Frames

\* The first goal of a cursor is the next one, and NextTerm() leaves the others.
LEMMA SpellsFrames ==
  ASSUME NEW cs \in Seq(Frames), cs # <<>>, NEW lv \in [Nat -> Nat], NEW goals,
         Spells(cs, lv, goals)
  PROVE  /\ goals # <<>>
         /\ Head(goals) = [goal |-> Head(cs[1].rest), level |-> lv[cs[1].part]]
         /\ Spells(NextTerm(cs), lv, Tail(goals))
<1>1. cs \in Seq(Rests) /\ 1 \in 1..Len(cs)
  BY FramesAreRests
<1>2. /\ cs[1].rest \in Seq(Goals) /\ cs[1].rest # <<>> /\ cs[1].part \in Nat
      /\ cs[1] \in Rests
  BY <1>1, FramesAreRests
<1> DEFINE level == lv[cs[1].part]
           rest == cs[1].rest
           b == At(rest, level)
<1>3. PICK later \in Seq(Spelled) : Spells(Tail(cs), lv, later) /\ goals = b \o later
  BY <1>1, SpellsRest
<1>4. level \in Nat
  BY <1>2
<1> HIDE DEF level
<1>5. /\ b # <<>> /\ Head(b) = [goal |-> Head(rest), level |-> level]
      /\ Tail(b) = At(Tail(rest), level)
  BY <1>2, <1>4, AtSplit
<1>6. b \in Seq(Spelled)
  BY <1>2, <1>4, AtTyped DEF Spelled
<1> HIDE DEF b
<1>7. goals # <<>> /\ Head(goals) = Head(b) /\ Tail(goals) = Tail(b) \o later
  BY <1>3, <1>5, <1>6, ConcatSplit
<1> DEFINE x == [cs[1] EXCEPT !.rest = Tail(@)]
           t == Tail(cs)
           ns == <<x>> \o t
<1>8. x \in Rests /\ x.rest = Tail(rest) /\ x.part = cs[1].part
  <2>1. Tail(rest) \in Seq(Goals)
    BY <1>2, HeadTailProperties
  <2> QED BY <1>2, <2>1 DEF Rests
<1>9. t \in Seq(Frames) /\ Len(t) = Len(cs) - 1
  OBVIOUS
<1>10. t \in Seq(Rests) /\ \A k \in 1..Len(t) : t[k].rest # <<>>
  BY <1>9, FramesAreRests
<1> HIDE DEF x, t
<1>11. Spells(ns, lv, Tail(goals))
  <2>1. Spells(ns, lv, At(x.rest, lv[x.part]) \o later)
    BY <1>3, <1>8, <1>10, SpellsMore DEF t
  <2> QED BY <1>5, <1>7, <1>8, <2>1 DEF level
<1>12. ns \in Seq(Rests) /\ ns # <<>> /\ \A k \in 2..Len(ns) : ns[k].rest # <<>>
  <2> DEFINE o == <<x>>
  <2>1. o \in Seq(Rests) /\ Len(o) = 1
    BY <1>8
  <2> HIDE DEF o
  <2>2. /\ o \o t \in Seq(Rests) /\ Len(o \o t) = 1 + Len(t)
        /\ \A k \in 1..(1 + Len(t)) : (o \o t)[k] = IF k <= 1 THEN o[k] ELSE t[k - 1]
    <3>1. /\ o \o t \in Seq(Rests) /\ Len(o \o t) = Len(o) + Len(t)
          /\ \A k \in 1..(Len(o) + Len(t)) : (o \o t)[k] = IF k <= Len(o) THEN o[k] ELSE t[k - Len(o)]
      BY <1>10, <2>1, ConcatProperties
    <3> QED BY <2>1, <3>1
  <2>3. Len(t) \in Nat
    BY <1>10
  <2> DEFINE v == o \o t
  <2> HIDE DEF v
  <2>4. v \in Seq(Rests) /\ Len(v) = 1 + Len(t) /\ \A k \in 2..(1 + Len(t)) : v[k] = t[k - 1]
    <3>1. ASSUME NEW k \in 2..(1 + Len(t)) PROVE v[k] = t[k - 1]
      <4>1. k \in 1..(1 + Len(t)) /\ ~ k <= 1
        BY <2>3
      <4>2. v[k] = IF k <= 1 THEN o[k] ELSE t[k - 1]
        BY <2>2, <4>1 DEF v
      <4> QED BY <4>1, <4>2
    <3> QED BY <2>2, <3>1 DEF v
  <2>5. v # <<>>
    BY <2>3, <2>4
  <2>6. \A k \in 2..Len(v) : v[k] = t[k - 1] /\ k - 1 \in 1..Len(t)
    BY <2>3, <2>4
  <2>7. \A k \in 2..Len(v) : v[k].rest # <<>>
    BY <1>10, <2>6
  <2> QED BY <2>4, <2>5, <2>7 DEF v, o
<1>13. NextTerm(cs) = Normalize(ns)
  BY DEF NextTerm, x, t
<1> HIDE DEF ns
<1>14. Spells(Normalize(ns), lv, Tail(goals))
  BY <1>11, <1>12, SpellsNormalized
<1> QED BY <1>5, <1>7, <1>13, <1>14 DEF rest, level

\* Entering a body puts its goals, at the level of the call, before the rest.
LEMMA SpellsBody ==
  ASSUME NEW cs \in Seq(Frames), cs # <<>>, NEW lv \in [Nat -> Nat], NEW goals,
         Spells(cs, lv, goals), NEW part \in Nat, NEW body \in Seq(Goals)
  PROVE  Spells(EnterBody(cs, part, body), lv, At(body, lv[part]) \o Tail(goals))
<1> DEFINE x == [part |-> part, rest |-> body]
           t == NextTerm(cs)
<1>1. Spells(t, lv, Tail(goals))
  BY SpellsFrames
<1>2. t \in Seq(Rests)
  BY NextTermTyped, FramesAreRests
<1>3. x \in Rests
  BY DEF Rests
<1>4. EnterBody(cs, part, body) = <<x>> \o t
  BY DEF EnterBody
<1> HIDE DEF t
<1>5. Spells(<<x>> \o t, lv, At(x.rest, lv[x.part]) \o Tail(goals))
  BY <1>1, <1>2, <1>3, SpellsMore
<1> QED BY <1>4, <1>5

\* The cursor of the root context.
LEMMA SpellsQuery ==
  ASSUME NEW part \in Nat, NEW body \in Seq(Goals), NEW lv \in [Nat -> Nat]
  PROVE  Spells(Normalize(<<[part |-> part, rest |-> body]>>), lv, At(body, lv[part]))
<1> DEFINE x == [part |-> part, rest |-> body]
           e == <<>>
           g == At(body, lv[part])
<1>1. x \in Rests
  BY DEF Rests
<1>2. Spells(e, lv, e) /\ e \in Seq(Rests)
  BY SpellsNothing
<1>3. g \in Seq(Spelled)
  <2>1. lv[part] \in Nat
    OBVIOUS
  <2> QED BY <2>1, AtTyped DEF Spelled
<1>4. Spells(<<x>> \o e, lv, At(x.rest, lv[x.part]) \o e)
  BY <1>1, <1>2, SpellsMore
<1> HIDE DEF x
<1>5. <<x>> \in Seq(Rests) /\ <<x>> # <<>> /\ Len(<<x>>) = 1
  BY <1>1
<1>6. <<x>> \o e = <<x>>
  BY <1>5, ConcatEmptySeq
<1> HIDE DEF g
<1>7. g \o e = g
  BY <1>3, ConcatEmptySeq
<1>8. Spells(<<x>>, lv, g)
  <2>1. At(x.rest, lv[x.part]) = g
    BY DEF x, g
  <2> QED BY <1>4, <1>6, <1>7, <2>1
<1>9. \A k \in 2..Len(<<x>>) : <<x>>[k].rest # <<>>
  BY <1>5
<1>10. Spells(Normalize(<<x>>), lv, g)
  BY <1>5, <1>8, <1>9, SpellsNormalized
<1> QED BY <1>10 DEF x, g

\* Only the levels of the frames' goal parts count.
LEMMA SpellsOther ==
  ASSUME NEW cs, NEW lv, NEW lv2, NEW goals, Spells(cs, lv, goals),
         \A k \in 1..Len(cs) : lv2[cs[k].part] = lv[cs[k].part]
  PROVE  Spells(cs, lv2, goals)
BY DEF Spells, Spelling

-----------------------------------------------------------------------------
(* Iterators: the clauses that one has still to come to.                   *)

\* Every clause of the list is one of the reference's.
Stored(list) == list \in Seq(Clauses) /\ \A k \in 1..Len(list) : Plain(list[k]) \in PlainClauses

CandidatesIn(list, it) == {k \in it.pos..Len(list) : Visible(list[k], it.snapshot)}
Remaining(list, it) ==
  IF it.invalidated THEN <<>> ELSE Selected(Listed(list), CandidatesIn(list, it))

\* The clauses of a list with their places, ...
LEMMA ListedTyped ==
  ASSUME NEW list, Stored(list)
  PROVE  /\ Listed(list) \in Seq(Placed) /\ Len(Listed(list)) = Len(list) /\ Len(list) \in Nat
         /\ \A k \in 1..Len(list) : Listed(list)[k] = [id |-> k, clause |-> Plain(list[k])]
<1> DEFINE l == Len(list)
           t == [k \in 1..l |-> [id |-> k, clause |-> Plain(list[k])]]
<1>1. l \in Nat /\ \A k \in 1..l : Plain(list[k]) \in PlainClauses
  <2>1. list \in Seq(Clauses)
    BY DEF Stored
  <2>2. l \in Nat
    BY <2>1
  <2> QED BY <2>2 DEF Stored
<1>2. Listed(list) = t
  BY DEF Listed
<1> HIDE DEF l
<1>3. \A k \in 1..l : [id |-> k, clause |-> Plain(list[k])] \in Placed
  BY <1>1 DEF Placed
<1>4. t \in [1..l -> Placed]
  BY <1>3
<1>5. \A k \in 1..l : t[k] = [id |-> k, clause |-> Plain(list[k])]
  OBVIOUS
<1> HIDE DEF t
<1>6. t \in Seq(Placed) /\ Len(t) = l
  BY <1>1, <1>4
<1> QED BY <1>1, <1>2, <1>5, <1>6 DEF l

\* ... those that are live, ...
LEMMA LiveTyped ==
  ASSUME NEW list, Stored(list)
  PROVE  Live(list) \in Seq(Placed)
<1> DEFINE s == Listed(list)
           P == LivePlaces(list)
<1>1. s \in Seq(Placed) /\ P \in SUBSET (1..Len(s))
  BY ListedTyped DEF LivePlaces
<1> HIDE DEF s, P
<1>2. Selected(s, P) \in Seq(Placed)
  BY <1>1, SelectedElements
<1> QED BY <1>2 DEF Live, s, P

\* ... and the state they make.
LEMMA StateTyped ==
  ASSUME NEW list, Stored(list), NEW ss \in Seq(Seq(Nat)), NEW e \in Nat
  PROVE  State(list, ss, e) \in States
<1>1. Live(list) \in Seq(Placed) /\ Len(list) \in Nat
  BY LiveTyped, ListedTyped
<1> QED BY <1>1 DEF State, States

\* The places that an iterator has still to come to.
LEMMA CandidatesTyped ==
  ASSUME NEW list, Stored(list), NEW it \in Iterators, it.pos >= 1
  PROVE  CandidatesIn(list, it) \in SUBSET (1..Len(Listed(list)))
<1>1. it.pos \in Nat /\ Len(list) \in Nat
  BY ListedTyped DEF Iterators
<1>2. Len(Listed(list)) = Len(list)
  BY ListedTyped
<1> QED BY <1>1, <1>2 DEF CandidatesIn

\* What an iterator has still to offer; nothing, once it is invalidated.
LEMMA RemainingTyped ==
  ASSUME NEW list, Stored(list), NEW it \in Iterators, it.pos >= 1
  PROVE  /\ Remaining(list, it) \in Seq(Placed)
         /\ Remaining(list, it) = <<>> <=> it.invalidated \/ CandidatesIn(list, it) = {}
<1> DEFINE s == Listed(list)
           P == CandidatesIn(list, it)
<1>1. s \in Seq(Placed) /\ P \in SUBSET (1..Len(s))
  BY ListedTyped, CandidatesTyped
<1>2. Remaining(list, it) = IF it.invalidated THEN <<>> ELSE Selected(s, P)
  BY DEF Remaining
<1> HIDE DEF s, P
<1>3. Selected(s, P) \in Seq(Placed) /\ (P # {} => Selected(s, P) # <<>>)
  BY <1>1, SelectedElements
<1>4. P = {} => Selected(s, P) = <<>>
  BY SelectedNothing
<1>5. <<>> \in Seq(Placed)
  OBVIOUS
<1> QED BY <1>2, <1>3, <1>4, <1>5 DEF P

\* A new iterator comes to all that are live.
LEMMA NewRemaining ==
  ASSUME NEW list, Stored(list), NEW gen \in Nat, WellStamped(list, gen)
  PROVE  Remaining(list, NewIterator(gen)) = Live(list)
<1> DEFINE it == NewIterator(gen)
<1>1. it.pos = 1 /\ it.snapshot = gen /\ it.invalidated = FALSE
  BY DEF NewIterator
<1>2. ASSUME NEW k \in 1..Len(list) PROVE Visible(list[k], gen) <=> ~IsRetired(list[k])
  <2>1. list[k].appendGen \in 1..gen /\ list[k].retireGen \in 0..gen
    BY DEF WellStamped
  <2> QED BY <2>1 DEF Visible, IsRetired
<1>3. CandidatesIn(list, it) = LivePlaces(list)
  BY <1>1, <1>2 DEF CandidatesIn, LivePlaces
<1> QED BY <1>1, <1>3 DEF Remaining, Live

\* The clause that is tried is the first of them.
LEMMA ChosenRemaining ==
  ASSUME NEW list, Stored(list), NEW it \in Iterators, it.pos >= 1, ~it.invalidated,
         CandidatesIn(list, it) # {}
  PROVE  LET C == CandidatesIn(list, it)
             k == CHOOSE i \in C : \A n \in C : i <= n
         IN  /\ k \in 1..Len(list)
             /\ Remaining(list, it) # <<>>
             /\ Head(Remaining(list, it)) = [id |-> k, clause |-> Plain(list[k])]
             /\ Tail(Remaining(list, it)) = Remaining(list, [it EXCEPT !.pos = k + 1])
             /\ [it EXCEPT !.pos = k + 1] \in Iterators
<1> DEFINE C == CandidatesIn(list, it)
           k == CHOOSE i \in C : \A n \in C : i <= n
           s == Listed(list)
           it2 == [it EXCEPT !.pos = k + 1]
           l == Len(list)
<1>1. /\ s \in Seq(Placed) /\ C \in SUBSET (1..Len(s)) /\ Len(s) = l /\ l \in Nat
  BY ListedTyped, CandidatesTyped
<1>2. it.pos \in Nat
  BY DEF Iterators
<1>3. C = {i \in it.pos..l : Visible(list[i], it.snapshot)}
  BY DEF CandidatesIn
<1>4. k \in C /\ \A n \in C : k <= n
  <2> HIDE DEF C
  <2>1. \E i \in C : \A n \in C : i <= n
    <3>1. C \in SUBSET (1..l) /\ l \in Nat /\ C # {}
      BY <1>1 DEF C
    <3> HIDE DEF l
    <3> QED BY <3>1, LeastNumber
  <2> QED BY <2>1
<1> HIDE DEF k
<1>5. k \in 1..l /\ k \in Nat
  BY <1>1, <1>4
<1>6. /\ it2 \in Iterators /\ it2.pos = k + 1 /\ it2.snapshot = it.snapshot
      /\ it2.invalidated = it.invalidated
  BY <1>5 DEF Iterators
<1>7. CandidatesIn(list, it2) = C \ {k}
  <2>1. CandidatesIn(list, it2) = {i \in (k + 1)..l : Visible(list[i], it.snapshot)}
    BY <1>6 DEF CandidatesIn
  <2>2. \A i \in C : i = k \/ i \in (k + 1)..l
    BY <1>1, <1>4, <1>5
  <2>3. \A i \in (k + 1)..l : i \in it.pos..l /\ i # k
    <3>1. it.pos <= k
      BY <1>2, <1>3, <1>4
    <3> QED BY <1>1, <1>2, <1>5, <3>1
  <2>4. (k + 1)..l \in SUBSET Int /\ C \in SUBSET Int
    BY <1>1
  <2> HIDE DEF l
  <2> QED BY <1>3, <2>1, <2>2, <2>3
<1> HIDE DEF s, C
<1>8. /\ Selected(s, C) # <<>> /\ Head(Selected(s, C)) = s[k]
      /\ Tail(Selected(s, C)) = Selected(s, C \ {k})
  BY <1>1, <1>4, SelectedTail
<1>9. Remaining(list, it) = Selected(s, C)
  BY DEF Remaining, s, C
<1>10. Remaining(list, it2) = Selected(s, C \ {k})
  BY <1>6, <1>7 DEF Remaining, s
<1>11. s[k] = [id |-> k, clause |-> Plain(list[k])]
  BY <1>5, ListedTyped DEF s
<1> HIDE DEF it2
<1>12. /\ k \in 1..Len(list)
       /\ Remaining(list, it) # <<>>
       /\ Head(Remaining(list, it)) = [id |-> k, clause |-> Plain(list[k])]
       /\ Tail(Remaining(list, it)) = Remaining(list, it2)
       /\ it2 \in Iterators
  BY <1>5, <1>6, <1>8, <1>9, <1>10, <1>11
<1> QED BY <1>12 DEF it2, k, C

-----------------------------------------------------------------------------
(* The database: what is appended and what is retired.                     *)

\* The clause list with one more, and with one retired.
MoreBy(list, gen, c, more) ==
  more = Append(list, c) /\ c.appendGen = gen + 1 /\ c.retireGen = 0
LessBy(list, gen, k, less) ==
  k \in 1..Len(list) /\ ~IsRetired(list[k]) /\ less = [list EXCEPT ![k].retireGen = gen + 1]

\* A list that a clause was appended to.
LEMMA MoreListed ==
  ASSUME NEW list, Stored(list), NEW gen \in Nat, NEW c \in Clauses, Plain(c) \in PlainClauses,
         NEW more, MoreBy(list, gen, c, more)
  PROVE  /\ Stored(more) /\ Len(more) = Len(list) + 1 /\ Len(list) \in Nat
         /\ more[Len(list) + 1] = c
         /\ \A k \in 1..Len(list) : more[k] = list[k]
         /\ Listed(more) = Append(Listed(list), [id |-> Len(list) + 1, clause |-> Plain(c)])
         /\ [id |-> Len(list) + 1, clause |-> Plain(c)] \in Placed
<1> DEFINE l == Len(list)
           e == [id |-> l + 1, clause |-> Plain(c)]
           s == Listed(list)
           t == Listed(more)
<1>1. list \in Seq(Clauses) /\ l \in Nat /\ more = Append(list, c)
  <2>1. list \in Seq(Clauses) /\ more = Append(list, c)
    BY DEF Stored, MoreBy
  <2> QED BY <2>1
<1>2. /\ more \in Seq(Clauses) /\ Len(more) = l + 1 /\ more[l + 1] = c
      /\ \A k \in 1..l : more[k] = list[k]
  BY <1>1
<1>3. \A k \in 1..(l + 1) : k \in 1..l \/ k = l + 1
  BY <1>1
<1>4. Stored(more)
  <2>1. \A k \in 1..l : Plain(list[k]) \in PlainClauses
    BY DEF Stored
  <2> HIDE DEF l
  <2>2. \A k \in 1..(l + 1) : Plain(more[k]) \in PlainClauses
    BY <1>2, <1>3, <2>1
  <2> QED BY <1>2, <2>2 DEF Stored
<1>5. e \in Placed
  BY <1>1 DEF Placed
<1>6. s \in Seq(Placed) /\ Len(s) = l /\ \A k \in 1..l : s[k] = [id |-> k, clause |-> Plain(list[k])]
  BY ListedTyped
<1>7. /\ t \in Seq(Placed) /\ Len(t) = l + 1
      /\ \A k \in 1..(l + 1) : t[k] = [id |-> k, clause |-> Plain(more[k])]
  <2>1. /\ t \in Seq(Placed) /\ Len(t) = Len(more)
        /\ \A k \in 1..Len(more) : t[k] = [id |-> k, clause |-> Plain(more[k])]
    BY <1>4, ListedTyped
  <2> QED BY <1>2, <2>1
<1> HIDE DEF l, s, t, e
<1> DEFINE u == Append(s, e)
<1>8. /\ u \in Seq(Placed) /\ Len(u) = l + 1 /\ u[l + 1] = e
      /\ \A k \in 1..l : u[k] = s[k]
  BY <1>5, <1>6
<1> HIDE DEF u
<1>9. \A k \in 1..(l + 1) : t[k] = u[k]
  <2>1. \A k \in 1..l : t[k] = u[k]
    BY <1>1, <1>2, <1>3, <1>6, <1>7, <1>8
  <2>2. l + 1 \in 1..(l + 1)
    BY <1>1
  <2>3. t[l + 1] = u[l + 1]
    BY <1>2, <1>7, <1>8, <2>2 DEF e
  <2> QED BY <1>3, <2>1, <2>3
<1>10. t = u
  BY <1>7, <1>8, <1>9, SeqEqual
<1> QED BY <1>1, <1>2, <1>4, <1>5, <1>10 DEF l, s, t, u, e

\* An iterator that is there already does not come to it.
LEMMA MoreRemaining ==
  ASSUME NEW list, Stored(list), NEW gen \in Nat, NEW c \in Clauses, Plain(c) \in PlainClauses,
         NEW more, MoreBy(list, gen, c, more),
         NEW it \in Iterators, it.pos >= 1, it.snapshot <= gen
  PROVE  Remaining(more, it) = Remaining(list, it)
<1> DEFINE l == Len(list)
           P == CandidatesIn(list, it)
           s == Listed(list)
           t == Listed(more)
<1>1. /\ Len(more) = l + 1 /\ more[l + 1] = c /\ l \in Nat
      /\ \A k \in 1..l : more[k] = list[k]
      /\ t = Append(s, [id |-> l + 1, clause |-> Plain(c)])
  BY MoreListed
<1>2. it.pos \in Nat /\ it.snapshot \in Nat
  BY DEF Iterators
<1>3. ~Visible(c, it.snapshot)
  BY <1>2 DEF Visible, MoreBy
<1>4. CandidatesIn(more, it) = P
  <2>1. CandidatesIn(more, it) = {k \in it.pos..(l + 1) : Visible(more[k], it.snapshot)}
    BY <1>1 DEF CandidatesIn
  <2>2. P = {k \in it.pos..l : Visible(list[k], it.snapshot)}
    BY DEF CandidatesIn
  <2> HIDE DEF l
  <2>3. ASSUME NEW k \in it.pos..(l + 1), Visible(more[k], it.snapshot)
        PROVE  k \in it.pos..l /\ Visible(list[k], it.snapshot)
    <3>1. k # l + 1
      BY <1>1, <1>3, <2>3
    <3>2. k \in 1..l /\ k \in it.pos..l
      BY <1>1, <1>2, <3>1
    <3> QED BY <1>1, <2>3, <3>2
  <2>4. ASSUME NEW k \in it.pos..l, Visible(list[k], it.snapshot)
        PROVE  k \in it.pos..(l + 1) /\ Visible(more[k], it.snapshot)
    <3>1. k \in 1..l /\ k \in it.pos..(l + 1)
      BY <1>1, <1>2
    <3> QED BY <1>1, <2>4, <3>1
  <2> QED BY <2>1, <2>2, <2>3, <2>4
<1>5. P \in SUBSET (1..l) /\ s \in Seq(Placed) /\ Len(s) = l
  <2>1. Len(s) = l /\ s \in Seq(Placed)
    BY ListedTyped
  <2>2. P \in SUBSET (1..Len(s))
    BY CandidatesTyped
  <2> QED BY <2>1, <2>2
<1>6. \A k \in P : s[k] = t[k]
  <2> DEFINE e == [id |-> l + 1, clause |-> Plain(c)]
  <2>1. e \in Placed /\ t = Append(s, e)
    BY <1>1, MoreListed
  <2> HIDE DEF e, s, t, P, l
  <2>2. s \in Seq(Placed) /\ \A k \in P : k \in 1..Len(s)
    BY <1>5
  <2>3. \A k \in 1..Len(s) : Append(s, e)[k] = s[k]
    BY <2>1, <2>2
  <2> QED BY <2>1, <2>2, <2>3
<1> HIDE DEF l, s, t, P
<1>7. Selected(s, P) = Selected(t, P)
  BY <1>1, <1>5, <1>6, SelectedSame
<1> QED BY <1>4, <1>7 DEF Remaining, s, t, P

\* The new clause is live, behind the others.
LEMMA MoreLive ==
  ASSUME NEW list, Stored(list), NEW gen \in Nat, NEW c \in Clauses, Plain(c) \in PlainClauses,
         NEW more, MoreBy(list, gen, c, more)
  PROVE  Live(more) = Append(Live(list), [id |-> Len(list) + 1, clause |-> Plain(c)])
<1> DEFINE l == Len(list)
           P == LivePlaces(list)
           s == Listed(list)
           e == [id |-> l + 1, clause |-> Plain(c)]
<1>1. /\ Len(more) = l + 1 /\ more[l + 1] = c /\ l \in Nat
      /\ \A k \in 1..l : more[k] = list[k]
      /\ Listed(more) = Append(s, e) /\ e \in Placed
  BY MoreListed
<1>2. s \in Seq(Placed) /\ Len(s) = l /\ P \in SUBSET (1..Len(s))
  BY ListedTyped DEF LivePlaces
<1>3. ~IsRetired(c)
  BY DEF MoreBy, IsRetired
<1>4. LivePlaces(more) = P \cup {l + 1}
  <2>1. LivePlaces(more) = {k \in 1..(l + 1) : ~IsRetired(more[k])}
    BY <1>1 DEF LivePlaces
  <2>2. P = {k \in 1..l : ~IsRetired(list[k])}
    BY DEF LivePlaces
  <2> HIDE DEF l, P
  <2>3. \A k \in 1..(l + 1) : k \in 1..l \/ k = l + 1
    BY <1>1
  <2>4. l + 1 \in 1..(l + 1) /\ \A k \in 1..l : k \in 1..(l + 1)
    BY <1>1
  <2> QED BY <1>1, <1>3, <2>1, <2>2, <2>3, <2>4
<1>5. e \in Placed
  BY <1>1
<1> HIDE DEF s, e, P, l
<1>6. Selected(Append(s, e), P \cup {Len(s) + 1}) = Append(Selected(s, P), e)
  <2>1. \A u \in Seq(Placed) : \A R \in SUBSET (1..Len(u)) : \A x \in Placed :
          Selected(Append(u, x), R \cup {Len(u) + 1}) = Append(Selected(u, R), x)
    BY SelectedAppend
  <2> QED BY <1>2, <1>5, <2>1
<1> QED BY <1>1, <1>2, <1>4, <1>6 DEF Live, s, e, P, l

\* A list of which a clause was retired: the same clauses, at the same places.
LEMMA LessListed ==
  ASSUME NEW list, Stored(list), NEW gen \in Nat, NEW k, NEW less, LessBy(list, gen, k, less)
  PROVE  /\ Stored(less) /\ Len(less) = Len(list) /\ Len(list) \in Nat
         /\ Listed(less) = Listed(list)
         /\ IsRetired(less[k]) /\ less[k].retireGen = gen + 1
         /\ less[k].appendGen = list[k].appendGen
         /\ \A n \in 1..Len(list) : n # k => less[n] = list[n]
         /\ \A n \in 1..Len(list) : Plain(less[n]) = Plain(list[n])
<1> DEFINE l == Len(list)
<1>1. list \in Seq(Clauses) /\ l \in Nat
  <2>1. list \in Seq(Clauses)
    BY DEF Stored
  <2> QED BY <2>1
<1>2. k \in 1..l /\ less = [list EXCEPT ![k].retireGen = gen + 1]
  BY DEF LessBy
<1> DEFINE c == [list[k] EXCEPT !.retireGen = gen + 1]
<1>3. list[k] \in Clauses
  BY <1>1, <1>2
<1>4. /\ c \in Clauses /\ c.retireGen = gen + 1 /\ c.appendGen = list[k].appendGen
      /\ Plain(c) = Plain(list[k])
  BY <1>3 DEF Clauses, Plain
<1>5. less = [list EXCEPT ![k] = c]
  BY <1>2
<1> HIDE DEF c
<1>6. /\ less \in Seq(Clauses) /\ Len(less) = l /\ less[k] = c
      /\ \A n \in 1..l : n # k => less[n] = list[n]
  BY <1>1, <1>2, <1>4, <1>5
<1>7. \A n \in 1..l : Plain(less[n]) = Plain(list[n])
  BY <1>4, <1>6
<1>8. Stored(less)
  <2>1. \A n \in 1..l : Plain(less[n]) \in PlainClauses
    BY <1>7 DEF Stored
  <2> QED BY <1>6, <2>1 DEF Stored
<1>9. Listed(less) = Listed(list)
  BY <1>6, <1>7 DEF Listed
<1>10. IsRetired(less[k])
  BY <1>4, <1>6 DEF IsRetired
<1> QED BY <1>1, <1>4, <1>6, <1>7, <1>8, <1>9, <1>10

\* An iterator that is there already still comes to it.
LEMMA LessRemaining ==
  ASSUME NEW list, Stored(list), NEW gen \in Nat, NEW k, NEW less, LessBy(list, gen, k, less),
         NEW it \in Iterators, it.snapshot <= gen, it.pos >= 1
  PROVE  Remaining(less, it) = Remaining(list, it)
<1> DEFINE l == Len(list)
<1>1. /\ Len(less) = l /\ Listed(less) = Listed(list) /\ l \in Nat
      /\ less[k].retireGen = gen + 1 /\ less[k].appendGen = list[k].appendGen
      /\ \A n \in 1..l : n # k => less[n] = list[n]
  BY LessListed
<1>2. it.snapshot \in Nat /\ it.pos \in Nat
  BY DEF Iterators
<1>3. ~IsRetired(list[k])
  BY DEF LessBy
<1>4. Visible(less[k], it.snapshot) <=> Visible(list[k], it.snapshot)
  BY <1>1, <1>2, <1>3 DEF Visible, IsRetired
<1>5. \A n \in it.pos..l : Visible(less[n], it.snapshot) <=> Visible(list[n], it.snapshot)
  <2>1. \A n \in it.pos..l : n \in 1..l
    BY <1>1, <1>2
  <2> QED BY <1>1, <1>4, <2>1
<1>6. CandidatesIn(less, it) = CandidatesIn(list, it)
  BY <1>1, <1>5 DEF CandidatesIn
<1> QED BY <1>1, <1>6 DEF Remaining

\* The facts of a list that retract() may take.
Takes(list, a) == {k \in 1..Len(list) : Retractable(list[k], a)}

\* The first match among the live clauses is the first in the list.
LEMMA FirstMatch ==
  ASSUME NEW list, Stored(list), NEW a, NEW ss, NEW errs
  PROVE  LET st == State(list, ss, errs)
         IN  /\ Takes(list, a) = {} <=> Matching(st, a) = {}
             /\ \A k \in Takes(list, a) : (\A m \in Takes(list, a) : k <= m) =>
                  Selected(Listed(list), LivePlaces(list) \ {k})
                    = Without(st.live, Min(Matching(st, a)))
<1> DEFINE matches == Takes(list, a)
           st == State(list, ss, errs)
           M == Matching(st, a)
           P == LivePlaces(list)
           s == Listed(list)
           T == Selected(s, P)
           A == Ascending(P)
           l == Len(list)
           m == Cardinality(P)
<1>1. /\ s \in Seq(Placed) /\ Len(s) = l /\ l \in Nat
      /\ \A k \in 1..l : s[k] = [id |-> k, clause |-> Plain(list[k])]
      /\ P \in SUBSET (1..Len(s)) /\ P \in SUBSET (1..l)
  BY ListedTyped DEF LivePlaces
<1>2. st.live = T
  BY DEF State, Live
<1>3. M = {j \in 1..Len(T) : T[j].clause = Fact(a)}
  BY <1>2 DEF Matching
<1>4. \A k \in 1..l : Retractable(list[k], a) <=> k \in P /\ Plain(list[k]) = Fact(a)
  <2> SUFFICES ASSUME NEW k \in 1..l
               PROVE  Retractable(list[k], a) <=> k \in P /\ Plain(list[k]) = Fact(a)
    OBVIOUS
  <2>1. Plain(list[k]) \in PlainClauses
    BY DEF Stored
  <2>2. list[k].builtin \in BOOLEAN
    <3>1. list \in Seq(Clauses)
      BY DEF Stored
    <3>2. list[k] \in Clauses
      BY <3>1
    <3> QED BY <3>2 DEF Clauses
  <2>3. (Plain(list[k]) = Fact(a)) <=> list[k].head = a /\ list[k].body = <<>> /\ ~list[k].builtin
    BY <2>2 DEF Plain, Fact
  <2>4. k \in P <=> ~IsRetired(list[k])
    BY DEF LivePlaces
  <2> HIDE DEF P
  <2> QED BY <2>3, <2>4 DEF Retractable
<1>5. matches = {k \in P : Plain(list[k]) = Fact(a)}
  <2>1. matches = {k \in 1..l : Retractable(list[k], a)}
    BY DEF Takes
  <2> HIDE DEF P, l, matches
  <2> QED BY <1>1, <1>4, <2>1
<1> HIDE DEF s, P, T, l, M, st, matches
<1>6. /\ T \in Seq(Placed) /\ Len(T) = m /\ m \in Nat
      /\ \A j \in 1..m : A[j] \in P /\ T[j] = s[A[j]]
  BY <1>1, SelectedElements DEF T
<1>7. Enumerates(A, m, P)
  BY <1>1, AscendingEnumerates
<1>8. /\ \A j, k \in 1..m : j < k => A[j] < A[k]
      /\ \A p \in P : \E k \in 1..m : A[k] = p
  <2> HIDE DEF A, m
  <2> QED BY <1>7 DEF Enumerates
<1> HIDE DEF A, m
<1>9. \A j \in 1..m : T[j].clause = Plain(list[A[j]]) /\ T[j].id = A[j]
  <2> SUFFICES ASSUME NEW j \in 1..m PROVE T[j].clause = Plain(list[A[j]]) /\ T[j].id = A[j]
    OBVIOUS
  <2> DEFINE n == A[j]
  <2>1. n \in 1..l /\ T[j] = s[n]
    BY <1>1, <1>6
  <2> HIDE DEF n
  <2>2. T[j] = [id |-> n, clause |-> Plain(list[n])]
    BY <1>1, <2>1
  <2>3. T[j].clause = Plain(list[n]) /\ T[j].id = n
    BY <2>2
  <2> QED BY <2>3 DEF n
<1>10. \A j \in 1..m : j \in M <=> A[j] \in matches
  BY <1>3, <1>5, <1>6, <1>9
<1>11. M \in SUBSET (1..m)
  BY <1>3, <1>6
<1>12. matches = {} <=> M = {}
  BY <1>5, <1>8, <1>10, <1>11
<1>13. ASSUME NEW k \in matches, \A n \in matches : k <= n
       PROVE  Selected(s, P \ {k}) = Without(T, Min(M))
  <2> DEFINE j == Min(M)
  <2>1. M # {}
    BY <1>12
  <2>2. j \in M /\ \A i \in M : j <= i
    <3>1. \E n \in M : \A i \in M : n <= i
      BY <1>6, <1>11, <2>1, LeastNumber
    <3> QED BY <3>1 DEF Min
  <2> HIDE DEF j
  <2>3. k \in P
    BY <1>5
  <2>4. PICK i \in 1..Len(T) : T[i] = s[k] /\ Selected(s, P \ {k}) = Without(T, i)
    <3>1. \A u \in Seq(Placed) : \A R \in SUBSET (1..Len(u)) : \A p \in R :
            \E n \in 1..Len(Selected(u, R)) :
              Selected(u, R)[n] = u[p] /\ Selected(u, R \ {p}) = Without(Selected(u, R), n)
      BY SelectedWithout
    <3> QED BY <1>1, <2>3, <3>1 DEF T
  <2>5. i \in 1..m /\ A[i] = k
    <3>1. i \in 1..m /\ T[i].id = A[i]
      BY <1>6, <1>9, <2>4
    <3>2. k \in 1..l
      BY <1>1, <2>3
    <3>3. s[k].id = k
      BY <1>1, <3>2
    <3> QED BY <2>4, <3>1, <3>3
  <2>6. i \in M /\ j \in 1..m
    BY <1>10, <1>11, <2>2, <2>5
  <2>7. j <= i /\ k <= A[j]
    BY <1>10, <1>13, <2>2, <2>6
  <2>8. ~ j < i
    <3>1. A[j] \in Nat /\ A[i] \in Nat
      <4>1. A[j] \in P /\ A[i] \in P
        BY <1>6, <2>5, <2>6
      <4>2. \A n \in P : n \in Nat
        BY <1>1
      <4> QED BY <4>1, <4>2
    <3> QED BY <1>8, <2>5, <2>6, <2>7, <3>1
  <2>9. i = j
    BY <1>6, <2>5, <2>6, <2>7, <2>8
  <2> QED BY <2>4, <2>9 DEF j
<1> QED BY <1>2, <1>12, <1>13 DEF matches, M, st, s, P

\* States with the same fields are the same.
LEMMA SameState ==
  ASSUME NEW u \in States, NEW v \in States, u.live = v.live, u.total = v.total,
         u.solutions = v.solutions, u.errors = v.errors, u.cut = v.cut, u.ended = v.ended
  PROVE  u = v
<1> DEFINE L == Seq(Placed)
           T == Seq(Seq(Nat))
<1>1. States = [live : L, total : Nat, solutions : T, errors : Nat, cut : Nat, ended : BOOLEAN]
  BY DEF States
<1> HIDE DEF L, T
<1> QED BY <1>1

\* A state with other clauses is a state.
LEMMA LiveExcept ==
  ASSUME NEW st \in States, NEW t \in Nat, NEW l \in Seq(Placed)
  PROVE  LET u == [st EXCEPT !.total = t, !.live = l]
         IN  /\ u \in States /\ u.cut = st.cut /\ u.ended = st.ended /\ u.errors = st.errors
             /\ u.solutions = st.solutions /\ u.live = l /\ u.total = t
<1> DEFINE L == Seq(Placed)
           T == Seq(Seq(Nat))
<1>1. States = [live : L, total : Nat, solutions : T, errors : Nat, cut : Nat, ended : BOOLEAN]
  BY DEF States
<1>2. l \in L
  OBVIOUS
<1> HIDE DEF L, T
<1> QED BY <1>1, <1>2
\* The states that the database goes through.
LEMMA MoreState ==
  ASSUME NEW list, Stored(list), NEW gen \in Nat, NEW a, NEW c \in Clauses, Plain(c) = Fact(a),
         Plain(c) \in PlainClauses, NEW more, MoreBy(list, gen, c, more),
         NEW ss \in Seq(Seq(Nat)), NEW errs \in Nat
  PROVE  State(more, ss, errs) = Added(State(list, ss, errs), a)
<1>1. Live(more) = Append(Live(list), [id |-> Len(list) + 1, clause |-> Fact(a)])
  BY MoreLive
<1>2. /\ Len(more) = Len(list) + 1 /\ Stored(more) /\ Len(list) \in Nat
      /\ [id |-> Len(list) + 1, clause |-> Fact(a)] \in Placed
  BY MoreListed
<1> DEFINE n == Len(list)
           M == Append(Live(list), [id |-> n + 1, clause |-> Fact(a)])
           st == State(list, ss, errs)
           v == State(more, ss, errs)
           u == [st EXCEPT !.total = n + 1, !.live = M]
<1>3. st \in States /\ v \in States
  BY <1>2, StateTyped
<1>4. M \in Seq(Placed) /\ n + 1 \in Nat
  <2>1. Live(more) \in Seq(Placed)
    BY <1>2, LiveTyped
  <2> QED BY <1>1, <1>2, <2>1
<1>5. st.live = Live(list) /\ st.total = n /\ st.solutions = ss /\ st.errors = errs /\ st.cut = 0 /\ st.ended
  BY DEF State
<1>6. v.live = M /\ v.total = n + 1 /\ v.solutions = ss /\ v.errors = errs /\ v.cut = 0 /\ v.ended
  BY <1>1, <1>2 DEF State
<1>7. Added(st, a) = u
  <2> HIDE DEF st
  <2> QED BY <1>5 DEF Added
<1> HIDE DEF M, st, v
<1>8. /\ u \in States /\ u.cut = st.cut /\ u.ended = st.ended /\ u.errors = st.errors
      /\ u.solutions = st.solutions /\ u.live = M /\ u.total = n + 1
  <2>1. \A t \in Nat, l \in Seq(Placed) :
          LET w == [st EXCEPT !.total = t, !.live = l]
          IN  /\ w \in States /\ w.cut = st.cut /\ w.ended = st.ended /\ w.errors = st.errors
              /\ w.solutions = st.solutions /\ w.live = l /\ w.total = t
    BY <1>3, LiveExcept
  <2> QED BY <1>4, <2>1
<1> HIDE DEF u, n
<1>9. u.ended = v.ended
  BY <1>3, <1>5, <1>6, <1>8, StateFields
<1>10. u = v
  BY <1>3, <1>5, <1>6, <1>8, <1>9, SameState
<1> QED BY <1>7, <1>10 DEF st, v

\* Retiring the first match in the list is removing it from the state.
LEMMA LessState ==
  ASSUME NEW list, Stored(list), NEW gen \in Nat, NEW a, NEW k,
         k \in Takes(list, a), \A m \in Takes(list, a) : k <= m,
         NEW less, LessBy(list, gen, k, less), NEW ss \in Seq(Seq(Nat)), NEW errs \in Nat
  PROVE  State(less, ss, errs) = Removed(State(list, ss, errs), a)
<1> DEFINE st == State(list, ss, errs)
           M == Matching(st, a)
           j == Min(M)
           P == LivePlaces(list)
<1>1. Selected(Listed(list), P \ {k}) = Without(st.live, j)
  <2>1. \A i \in Takes(list, a) : (\A m \in Takes(list, a) : i <= m) =>
           Selected(Listed(list), P \ {i}) = Without(st.live, j)
    BY FirstMatch
  <2> HIDE DEF st, M, j, P
  <2> QED BY <2>1
<1>2. /\ Len(less) = Len(list) /\ Listed(less) = Listed(list) /\ Stored(less)
      /\ IsRetired(less[k]) /\ \A n \in 1..Len(list) : n # k => less[n] = list[n]
      /\ Len(list) \in Nat
  <2>1. Stored(less) /\ Len(less) = Len(list) /\ Len(list) \in Nat /\ Listed(less) = Listed(list)
    BY LessListed
  <2>2. IsRetired(less[k]) /\ \A n \in 1..Len(list) : n # k => less[n] = list[n]
    BY LessListed
  <2> QED BY <2>1, <2>2
<1>3. LivePlaces(less) = P \ {k}
  BY <1>2 DEF LivePlaces
<1> DEFINE W == Without(st.live, j)
           v == State(less, ss, errs)
           n == Len(list)
           u == [st EXCEPT !.total = n, !.live = W]
<1>4. Live(less) = W
  BY <1>1, <1>2, <1>3 DEF Live
<1>5. st \in States /\ v \in States /\ W \in Seq(Placed) /\ n \in Nat
  BY <1>2, <1>4, StateTyped, LiveTyped
<1>6. st.total = n /\ st.solutions = ss /\ st.errors = errs /\ st.cut = 0 /\ st.ended
  BY DEF State
<1>7. v.live = W /\ v.total = n /\ v.solutions = ss /\ v.errors = errs /\ v.cut = 0 /\ v.ended
  BY <1>2, <1>4 DEF State
<1>8. Removed(st, a) = [st EXCEPT !.live = W]
  BY DEF Removed
<1> HIDE DEF j, W, st, v, n
<1>9. /\ u \in States /\ u.cut = st.cut /\ u.ended = st.ended /\ u.errors = st.errors
      /\ u.solutions = st.solutions /\ u.live = W /\ u.total = n
  <2>1. \A t \in Nat, l \in Seq(Placed) :
          LET w == [st EXCEPT !.total = t, !.live = l]
          IN  /\ w \in States /\ w.cut = st.cut /\ w.ended = st.ended /\ w.errors = st.errors
              /\ w.solutions = st.solutions /\ w.live = l /\ w.total = t
    BY <1>5, LiveExcept
  <2> QED BY <1>5, <2>1
<1>10. u = [st EXCEPT !.live = W]
  <2> DEFINE L == Seq(Placed)
             T == Seq(Seq(Nat))
  <2>1. st \in [live : L, total : Nat, solutions : T, errors : Nat, cut : Nat, ended : BOOLEAN]
    BY <1>5 DEF States
  <2> HIDE DEF L, T
  <2> QED BY <1>6, <2>1
<1> HIDE DEF u
<1>11. u.ended = v.ended
  BY <1>5, <1>6, <1>7, <1>9, StateFields
<1>12. u = v
  BY <1>5, <1>6, <1>7, <1>9, <1>11, SameState
<1> QED BY <1>8, <1>10, <1>12 DEF st, v

\* Recording an error is failing.
LEMMA MoreErrors ==
  ASSUME NEW list, Stored(list), NEW ss \in Seq(Seq(Nat)), NEW errs \in Nat
  PROVE  State(list, ss, errs + 1) = Failed(State(list, ss, errs))
<1> DEFINE st == State(list, ss, errs)
           v == State(list, ss, errs + 1)
           e == errs + 1
           u == [st EXCEPT !.errors = e]
<1>1. st \in States /\ v \in States /\ e \in Nat
  BY StateTyped
<1>2. /\ st.live = Live(list) /\ st.total = Len(list) /\ st.solutions = ss /\ st.errors = errs
      /\ st.cut = 0 /\ st.ended = TRUE
  BY DEF State
<1>3. /\ v.live = Live(list) /\ v.total = Len(list) /\ v.solutions = ss /\ v.errors = e
      /\ v.cut = 0 /\ v.ended = TRUE
  BY DEF State
<1> HIDE DEF st, v
<1>4. Failed(st) = u
  BY <1>2 DEF Failed
<1> HIDE DEF e
<1>5. /\ u \in States /\ u.errors = e /\ u.live = st.live /\ u.total = st.total
      /\ u.cut = st.cut /\ u.solutions = st.solutions /\ u.ended = st.ended
  BY <1>1, StateExcept
<1> HIDE DEF u
<1>6. u = v
  BY <1>1, <1>2, <1>3, <1>5, SameState
<1> QED BY <1>4, <1>6 DEF st, v, e

\* The state of one list with other solutions.
LEMMA OtherSolutions ==
  ASSUME NEW list, Stored(list), NEW ss \in Seq(Seq(Nat)), NEW errs \in Nat,
         NEW tt \in Seq(Seq(Nat))
  PROVE  State(list, tt, errs) = [State(list, ss, errs) EXCEPT !.solutions = tt]
<1> DEFINE st == State(list, ss, errs)
           v == State(list, tt, errs)
           u == [st EXCEPT !.solutions = tt]
<1>1. st \in States /\ v \in States
  BY StateTyped
<1>2. /\ st.live = Live(list) /\ st.total = Len(list) /\ st.solutions = ss /\ st.errors = errs
      /\ st.cut = 0 /\ st.ended = TRUE
  BY DEF State
<1>3. /\ v.live = Live(list) /\ v.total = Len(list) /\ v.solutions = tt /\ v.errors = errs
      /\ v.cut = 0 /\ v.ended = TRUE
  BY DEF State
<1> HIDE DEF st, v
<1>5. /\ u \in States /\ u.solutions = tt /\ u.live = st.live /\ u.total = st.total
      /\ u.cut = st.cut /\ u.errors = st.errors /\ u.ended = st.ended
  BY <1>1, StateExcept
<1> HIDE DEF u
<1>6. u = v
  BY <1>1, <1>2, <1>3, <1>5, SameState
<1> QED BY <1>6 DEF st, v, u

-----------------------------------------------------------------------------
(* Accounts: what is left to search for a context, from the state that its *)
(* children leave, and the state that the context leaves in the end.       *)

Accounts == [search : Searches, end : States]

\* The first goal is a call, also of a negated goal.
Calls(s) == s.goals # <<>> /\ Head(s.goals).goal.op \notin Special

Levels(s) == s.depth >= 1 /\ \A k \in 1..Len(s.goals) : s.goals[k].level \in 1..s.depth

\* What a search leaves that has come back from a child: a cut goes on, and a
\* search without choices is at its end.
Ends(s, y) ==
  IF s.from.cut # 0 THEN y = (IF Calls(s) THEN Returned(s.from, s.depth + 1) ELSE s.from)
  ELSE IF s.choices = <<>> /\ s.goals # <<>> THEN y = s.from
  ELSE Gives(s, y)

\* The account a is one of the context sc, its goal parts having these levels.
Tells(list, it, sc, a, lv) ==
  /\ a \in Accounts
  /\ Levels(a.search)
  /\ a.search.choices = Remaining(list, it)
  /\ Spells(sc.cursor, lv, a.search.goals)
  /\ a.search.path = sc.uc
  /\ sc.part # None => lv[sc.part] = a.search.depth

\* A context with account b is on top of one with account a.
Within(a, b, part) ==
  /\ a.search.goals # <<>>
  /\ a.search.from = b.end
  /\ Ends(a.search, a.end)
  /\ b.search.depth = a.search.depth + (IF Calls(a.search) THEN 1 ELSE 0)
  /\ part # None => Calls(a.search)

\* The first visit of a root context gives it another iterator.
IteratorOf(stack, k, gen) ==
  IF k = 1 /\ stack[1].visits = 0 THEN NewIterator(gen) ELSE stack[k].it

\* The accounts of a stack, each towards the one below.
Account(list, gen, stack, A, lv) ==
  /\ A \in [1..Len(stack) -> Accounts]
  /\ \A k \in 1..Len(stack) : Tells(list, IteratorOf(stack, k, gen), stack[k], A[k], lv)
  /\ \A k \in 1..(Len(stack) - 1) : Within(A[k], A[k + 1], stack[k + 1].part)
  /\ stack # <<>> => A[1].search.depth = 1
  /\ Len(stack) > 1 => stack[1].visits # 0

\* The contexts of a stack, and where their iterators may be.
StackOf(stack, next, gen, len) ==
  /\ stack \in Seq(Contexts)
  /\ StackInv(stack, next)
  /\ \A k \in 1..Len(stack) : InList(stack[k], gen, len)

\* An iterator of this generation walks the same clauses in both lists.
SameWalks(list, other, gen) ==
  \A it \in Iterators : it.pos >= 1 /\ it.snapshot <= gen => Remaining(other, it) = Remaining(list, it)

SameLevels(lv, other, next) == \A p \in Nat : p < next => other[p] = lv[p]

\* A list that grows or shrinks, and new goal parts, change no account.
LEMMA AccountAside ==
  ASSUME NEW list, NEW gen, NEW stack, NEW A, NEW lv, NEW next, NEW len \in Nat,
         StackOf(stack, next, gen, len), Account(list, gen, stack, A, lv),
         stack # <<>> => stack[1].visits # 0,
         NEW list2, NEW gen2, NEW lv2, SameWalks(list, list2, gen), SameLevels(lv, lv2, next)
  PROVE  Account(list2, gen2, stack, A, lv2)
<1>1. None \notin Nat
  BY SolverAssumption
<1>2. ASSUME NEW k \in 1..Len(stack)
      PROVE  Tells(list2, IteratorOf(stack, k, gen2), stack[k], A[k], lv2)
  <2>1. stack[k] \in Contexts /\ stack # <<>>
    BY DEF StackOf
  <2>2. IteratorOf(stack, k, gen2) = stack[k].it /\ IteratorOf(stack, k, gen) = stack[k].it
    BY <2>1 DEF IteratorOf
  <2>3. Tells(list, stack[k].it, stack[k], A[k], lv)
    BY <2>2 DEF Account
  <2>4. stack[k].it \in Iterators /\ stack[k].it.pos >= 1 /\ stack[k].it.snapshot <= gen
    BY <2>1 DEF StackOf, InList, Contexts
  <2>5. Remaining(list2, stack[k].it) = Remaining(list, stack[k].it)
    BY <2>4 DEF SameWalks
  <2>6. \A f \in 1..Len(stack[k].cursor) :
          lv2[stack[k].cursor[f].part] = lv[stack[k].cursor[f].part]
    <3> SUFFICES ASSUME NEW f \in 1..Len(stack[k].cursor)
                 PROVE  lv2[stack[k].cursor[f].part] = lv[stack[k].cursor[f].part]
      OBVIOUS
    <3>1. stack[k].cursor[f].part \in Nat
      <4>1. stack[k].cursor \in Seq(Frames)
        BY <2>1 DEF Contexts
      <4> QED BY <4>1, FramesAreRests
    <3>2. PICK m \in 1..k : stack[m].part = stack[k].cursor[f].part
      BY DEF StackOf, StackInv
    <3>3. m \in 1..Len(stack)
      BY DEF StackOf
    <3>4. stack[m].part < next
      BY <1>1, <3>1, <3>2, <3>3 DEF StackOf, StackInv
    <3> QED BY <3>1, <3>2, <3>4 DEF SameLevels
  <2>7. Spells(stack[k].cursor, lv2, A[k].search.goals)
    BY <2>3, <2>6, SpellsOther DEF Tells
  <2>8. stack[k].part # None => lv2[stack[k].part] = lv[stack[k].part]
    BY <2>1 DEF StackOf, StackInv, SameLevels, Contexts
  <2> QED BY <2>2, <2>3, <2>5, <2>7, <2>8 DEF Tells
<1> QED BY <1>2 DEF Account

\* The top context is visited.
LEMMA AccountVisited ==
  ASSUME NEW list, NEW gen, NEW stack \in Seq(Contexts), NEW A, NEW lv, stack # <<>>,
         Account(list, gen, stack, A, lv), NEW t \in Seq(Contexts), Len(t) = Len(stack),
         \A k \in 1..(Len(stack) - 1) : t[k] = stack[k],
         t[Len(stack)].part = stack[Len(stack)].part,
         t[Len(stack)].cursor = stack[Len(stack)].cursor,
         t[Len(stack)].uc = stack[Len(stack)].uc,
         t[Len(stack)].it = IteratorOf(stack, Len(stack), gen),
         t[Len(stack)].visits # 0
  PROVE  Account(list, gen, t, A, lv) /\ t[1].visits # 0
<1> DEFINE l == Len(stack)
<1>1. l \in Nat /\ l >= 1 /\ (\A k \in 1..l : k = l \/ k \in 1..(l - 1))
      /\ (\A k \in 1..(l - 1) : k \in 1..l /\ k + 1 \in 1..l)
  OBVIOUS
<1>2. t[1].visits # 0
  <2>1. CASE l = 1
    BY <2>1
  <2>2. CASE l > 1
    <3>1. 1 \in 1..(l - 1)
      BY <1>1, <2>2
    <3> QED BY <2>2, <3>1 DEF Account
  <2> QED BY <1>1, <2>1, <2>2
<1> HIDE DEF l
<1>3. \A k \in 1..l : IteratorOf(t, k, gen) = IteratorOf(stack, k, gen)
  <2> SUFFICES ASSUME NEW k \in 1..l PROVE IteratorOf(t, k, gen) = IteratorOf(stack, k, gen)
    OBVIOUS
  <2>1. IteratorOf(t, k, gen) = t[k].it
    BY <1>2 DEF IteratorOf
  <2>2. CASE k = l
    BY <2>1, <2>2 DEF l
  <2>3. CASE k \in 1..(l - 1)
    <3>1. t[k] = stack[k] /\ l > 1
      BY <1>1, <2>3 DEF l
    <3>2. IteratorOf(stack, k, gen) = stack[k].it
      BY <3>1 DEF IteratorOf, Account, l
    <3> QED BY <2>1, <3>1, <3>2
  <2> QED BY <1>1, <2>2, <2>3
<1>4. \A k \in 1..l : t[k].part = stack[k].part /\ t[k].cursor = stack[k].cursor /\ t[k].uc = stack[k].uc
  BY <1>1 DEF l
<1>5. \A k \in 1..l : Tells(list, IteratorOf(t, k, gen), t[k], A[k], lv)
  <2> SUFFICES ASSUME NEW k \in 1..l PROVE Tells(list, IteratorOf(t, k, gen), t[k], A[k], lv)
    OBVIOUS
  <2>1. Tells(list, IteratorOf(stack, k, gen), stack[k], A[k], lv)
    BY DEF Account, l
  <2> QED BY <1>3, <1>4, <2>1 DEF Tells
<1>6. \A k \in 1..(l - 1) : Within(A[k], A[k + 1], t[k + 1].part)
  BY <1>1, <1>4 DEF Account, l
<1>7. Len(t) = l /\ A \in [1..l -> Accounts] /\ A[1].search.depth = 1
  BY DEF Account, l
<1> QED BY <1>2, <1>5, <1>6, <1>7 DEF Account

\* The account of a context whose search goes on with other choices and from
\* another state, towards the same end.
Again(a, choices, st) ==
  [search |-> Rest(choices, a.search.goals, a.search.depth, a.search.path, st), end |-> a.end]

\* An account with other choices and from another state, with the same goals.
LEMMA AgainTyped ==
  ASSUME NEW a \in Accounts, NEW choices \in Seq(Placed), NEW st \in States
  PROVE  LET b == Again(a, choices, st)
         IN  /\ b \in Accounts /\ b.end = a.end /\ b.search.goals = a.search.goals
             /\ b.search.depth = a.search.depth /\ b.search.path = a.search.path
             /\ b.search.choices = choices /\ b.search.from = st
             /\ Levels(a.search) => Levels(b.search)
             /\ Calls(a.search) <=> Calls(b.search)
<1>1. a.search \in Searches /\ a.end \in States
  BY DEF Accounts
<1>2. /\ a.search.goals \in Seq(Levelled) /\ a.search.depth \in Nat /\ a.search.path \in Seq(Nat)
  BY <1>1, SearchTyped
<1> DEFINE r == Rest(choices, a.search.goals, a.search.depth, a.search.path, st)
<1>3. r \in Searches
  BY <1>2, RestTyped
<1>4. /\ r.goals = a.search.goals /\ r.depth = a.search.depth /\ r.path = a.search.path
      /\ r.choices = choices /\ r.from = st
  BY DEF Rest
<1> HIDE DEF r
<1> DEFINE b == [search |-> r, end |-> a.end]
<1>5. b \in Accounts /\ b.search = r /\ b.end = a.end
  BY <1>1, <1>3 DEF Accounts
<1>6. Again(a, choices, st) = b
  BY DEF Again, r
<1> HIDE DEF b
<1>7. /\ Levels(a.search) => Levels(b.search)
      /\ Calls(a.search) <=> Calls(b.search)
  BY <1>4, <1>5 DEF Levels, Calls
<1> QED BY <1>4, <1>5, <1>6, <1>7

\* The accounts with the last one replaced, with one more, and without the last.
Swapped(A, n, b) == [A EXCEPT ![n] = b]
Longer(A, n, b) == [k \in 1..(n + 1) |-> IF k = n + 1 THEN b ELSE A[k]]
Shorter(A, n) == [k \in 1..(n - 1) |-> A[k]]

\* The top context c of a stack t is left as c, with another iterator; another
\* one is pushed; it is dropped.
Leaves(t, c, u) ==
  /\ t \in Seq(Contexts) /\ t # <<>>
  /\ c \in Contexts
  /\ c.part = t[Len(t)].part /\ c.cursor = t[Len(t)].cursor /\ c.uc = t[Len(t)].uc
  /\ Len(t) = 1 => c.visits # 0
  /\ c.it.pos >= 1
  /\ u \in Seq(Contexts) /\ Len(u) = Len(t) /\ u[Len(t)] = c
  /\ \A k \in 1..(Len(t) - 1) : u[k] = t[k]

Pushes(t, c, u) == Len(u) = Len(t) + 1 /\ u[Len(t) + 1] = c /\ \A k \in 1..Len(t) : u[k] = t[k]

Pops(t, u) ==
  u \in Seq(Contexts) /\ Len(u) = Len(t) - 1 /\ \A k \in 1..(Len(t) - 1) : u[k] = t[k]

\* If a turn leaves the top context with its iterator moved on, the accounts
\* below it stand.
LEMMA AccountLeft ==
  ASSUME NEW list, Stored(list), NEW gen, NEW t, t[1].visits # 0,
         NEW A, NEW lv, Account(list, gen, t, A, lv),
         NEW c, NEW u, Leaves(t, c, u), NEW st \in States
  PROVE  LET b == Again(A[Len(t)], Remaining(list, c.it), st)
         IN  Account(list, gen, u, Swapped(A, Len(t), b), lv) /\ u[1].visits # 0
<1> /\ t \in Seq(Contexts) /\ t # <<>> /\ c \in Contexts
    /\ c.part = t[Len(t)].part /\ c.cursor = t[Len(t)].cursor /\ c.uc = t[Len(t)].uc
    /\ (Len(t) = 1 => c.visits # 0) /\ c.it.pos >= 1
    /\ u \in Seq(Contexts) /\ Len(u) = Len(t) /\ u[Len(t)] = c
    /\ \A k \in 1..(Len(t) - 1) : u[k] = t[k]
  BY DEF Leaves
<1> DEFINE l == Len(t)
           b == Again(A[l], Remaining(list, c.it), st)
           B == [A EXCEPT ![l] = b]
<1>1. l \in Nat /\ l >= 1 /\ (\A k \in 1..l : k = l \/ k \in 1..(l - 1))
      /\ (\A k \in 1..(l - 1) : k \in 1..l /\ k + 1 \in 1..l /\ k # l) /\ l \in 1..l
  OBVIOUS
<1>2. u[1].visits # 0
  <2>1. 1 = l \/ 1 \in 1..(l - 1)
    BY <1>1
  <2> QED BY <2>1
<1> HIDE DEF l
<1>3. A \in [1..l -> Accounts] /\ A[l] \in Accounts
  BY <1>1 DEF Account, l
<1>4. Remaining(list, c.it) \in Seq(Placed)
  BY RemainingTyped DEF Contexts
<1>5. /\ b \in Accounts /\ b.end = A[l].end /\ b.search.goals = A[l].search.goals
      /\ b.search.depth = A[l].search.depth /\ b.search.path = A[l].search.path
      /\ b.search.choices = Remaining(list, c.it) /\ b.search.from = st
      /\ Levels(A[l].search) => Levels(b.search)
  BY <1>3, <1>4, AgainTyped
<1> HIDE DEF b
<1>6. /\ B \in [1..l -> Accounts] /\ B[l] = b /\ \A k \in 1..(l - 1) : B[k] = A[k]
  BY <1>1, <1>3, <1>5
<1> HIDE DEF B
<1>7. \A k \in 1..l : IteratorOf(u, k, gen) = u[k].it /\ IteratorOf(t, k, gen) = t[k].it
  BY <1>2 DEF IteratorOf
<1>8. ASSUME NEW k \in 1..l PROVE Tells(list, IteratorOf(u, k, gen), u[k], B[k], lv)
  <2>1. Tells(list, t[k].it, t[k], A[k], lv)
    BY <1>7 DEF Account, l
  <2>2. CASE k = l
    <3>1. /\ Levels(A[l].search) /\ Spells(c.cursor, lv, A[l].search.goals)
          /\ A[l].search.path = c.uc
          /\ c.part # None => lv[c.part] = A[l].search.depth
      BY <2>1, <2>2 DEF Tells, l
    <3>2. u[k] = c /\ B[k] = b /\ IteratorOf(u, k, gen) = c.it
      BY <1>6, <1>7, <2>2 DEF l
    <3>3. Tells(list, c.it, c, b, lv)
      BY <1>5, <3>1 DEF Tells
    <3> QED BY <3>2, <3>3
  <2>3. CASE k \in 1..(l - 1)
    <3>1. u[k] = t[k] /\ B[k] = A[k] /\ IteratorOf(u, k, gen) = t[k].it
      BY <1>6, <1>7, <2>3 DEF l
    <3> QED BY <2>1, <3>1
  <2> QED BY <1>1, <2>2, <2>3
<1>9. ASSUME NEW k \in 1..(l - 1) PROVE Within(B[k], B[k + 1], u[k + 1].part)
  <2>1. Within(A[k], A[k + 1], t[k + 1].part)
    BY DEF Account, l
  <2>2. u[k + 1].part = t[k + 1].part
    BY <1>1 DEF l
  <2>3. B[k] = A[k] /\ B[k + 1].end = A[k + 1].end /\ B[k + 1].search.depth = A[k + 1].search.depth
    BY <1>1, <1>5, <1>6
  <2> QED BY <2>1, <2>2, <2>3 DEF Within
<1>10. B[1].search.depth = 1
  <2>1. A[1].search.depth = 1
    BY DEF Account
  <2>2. 1 = l \/ 1 \in 1..(l - 1)
    BY <1>1
  <2> QED BY <1>5, <1>6, <2>1, <2>2
<1>11. Len(u) = l
  BY DEF l
<1>12. Account(list, gen, u, B, lv)
  BY <1>2, <1>6, <1>8, <1>9, <1>10, <1>11 DEF Account
<1> QED BY <1>2, <1>12 DEF l, b, B, Swapped

\* A context is pushed.
LEMMA AccountPushed ==
  ASSUME NEW list, NEW gen, NEW t \in Seq(Contexts), t # <<>>, t[1].visits # 0,
         NEW A, NEW lv, Account(list, gen, t, A, lv),
         NEW c, NEW b, Tells(list, c.it, c, b, lv), Within(A[Len(t)], b, c.part),
         NEW u, Pushes(t, c, u)
  PROVE  Account(list, gen, u, Longer(A, Len(t), b), lv)
<1> Len(u) = Len(t) + 1 /\ u[Len(t) + 1] = c /\ \A k \in 1..Len(t) : u[k] = t[k]
  BY DEF Pushes
<1> DEFINE l == Len(t)
           B == [k \in 1..(l + 1) |-> IF k = l + 1 THEN b ELSE A[k]]
<1>1. l \in Nat /\ l >= 1 /\ (\A k \in 1..(l + 1) : k = l + 1 \/ k \in 1..l)
      /\ (\A k \in 1..l : k \in 1..(l + 1) /\ k # l + 1 /\ (k = l \/ k \in 1..(l - 1)))
      /\ (\A k \in 1..(l - 1) : k \in 1..l /\ k + 1 \in 1..l) /\ l \in 1..l /\ 1 \in 1..l
  OBVIOUS
<1> HIDE DEF l
<1>2. u[1].visits # 0
  BY <1>1 DEF l
<1>3. A \in [1..l -> Accounts] /\ b \in Accounts
  BY DEF Account, l, Tells
<1>4. B \in [1..(l + 1) -> Accounts] /\ B[l + 1] = b /\ \A k \in 1..l : B[k] = A[k]
  BY <1>1, <1>3
<1> HIDE DEF B
<1>5. ASSUME NEW k \in 1..(l + 1) PROVE Tells(list, IteratorOf(u, k, gen), u[k], B[k], lv)
  <2>1. IteratorOf(u, k, gen) = u[k].it
    BY <1>2 DEF IteratorOf
  <2>2. CASE k = l + 1
    BY <1>4, <2>1, <2>2 DEF l
  <2>3. CASE k \in 1..l
    <3>1. Tells(list, IteratorOf(t, k, gen), t[k], A[k], lv)
      BY <2>3 DEF Account, l
    <3>2. IteratorOf(t, k, gen) = t[k].it /\ u[k] = t[k] /\ B[k] = A[k]
      BY <1>4, <2>3 DEF IteratorOf, l
    <3> QED BY <2>1, <3>1, <3>2
  <2> QED BY <1>1, <2>2, <2>3
<1>6. ASSUME NEW k \in 1..l PROVE Within(B[k], B[k + 1], u[k + 1].part)
  <2>1. CASE k = l
    BY <1>1, <1>4, <2>1 DEF l
  <2>2. CASE k \in 1..(l - 1)
    <3>1. Within(A[k], A[k + 1], t[k + 1].part)
      BY <2>2 DEF Account, l
    <3>2. B[k] = A[k] /\ B[k + 1] = A[k + 1] /\ u[k + 1] = t[k + 1]
      BY <1>1, <1>4, <2>2 DEF l
    <3> QED BY <3>1, <3>2
  <2> QED BY <1>1, <2>1, <2>2
<1>7. B[1].search.depth = 1
  BY <1>1, <1>4 DEF Account
<1>8. Len(u) = l + 1 /\ Len(u) - 1 = l
  BY <1>1 DEF l
<1>9. Account(list, gen, u, B, lv)
  <2>1. \A k \in 1..(Len(u) - 1) : Within(B[k], B[k + 1], u[k + 1].part)
    BY <1>6, <1>8
  <2>2. \A k \in 1..Len(u) : Tells(list, IteratorOf(u, k, gen), u[k], B[k], lv)
    BY <1>5, <1>8
  <2>3. B \in [1..Len(u) -> Accounts]
    BY <1>4, <1>8
  <2> QED BY <1>2, <1>7, <2>1, <2>2, <2>3 DEF Account
<1> QED BY <1>9 DEF B, l, Longer

\* The top context is dropped.
LEMMA AccountPopped ==
  ASSUME NEW list, NEW gen, NEW t \in Seq(Contexts), t # <<>>,
         NEW A, NEW lv, Account(list, gen, t, A, lv),
         NEW u, Pops(t, u)
  PROVE  Account(list, gen, u, Shorter(A, Len(t)), lv)
<1> u \in Seq(Contexts) /\ Len(u) = Len(t) - 1 /\ \A k \in 1..(Len(t) - 1) : u[k] = t[k]
  BY DEF Pops
<1> DEFINE l == Len(t)
           m == l - 1
           B == [k \in 1..m |-> A[k]]
<1>1. l \in Nat /\ l >= 1 /\ (\A k \in 1..m : k \in 1..l) /\ Len(u) = m /\ m \in Nat
      /\ (\A k \in 1..(m - 1) : k \in 1..m /\ k + 1 \in 1..m) /\ (u # <<>> => 1 \in 1..m)
      /\ (m > 1 => l > 1 /\ 1 \in 1..m)
  OBVIOUS
<1>2. \A k \in 1..(m - 1) : k \in 1..(l - 1)
  BY <1>1
<1>3. \A k \in 1..m : u[k] = t[k]
  OBVIOUS
<1> HIDE DEF l, m
<1>4. A \in [1..l -> Accounts]
  BY DEF Account, l
<1>5. B \in [1..m -> Accounts] /\ \A k \in 1..m : B[k] = A[k]
  BY <1>1, <1>4
<1> HIDE DEF B
<1>6. ASSUME NEW k \in 1..m PROVE Tells(list, IteratorOf(u, k, gen), u[k], B[k], lv)
  <2>1. Tells(list, IteratorOf(t, k, gen), t[k], A[k], lv)
    BY <1>1 DEF Account, l
  <2>2. IteratorOf(u, k, gen) = IteratorOf(t, k, gen)
    BY <1>3 DEF IteratorOf
  <2> QED BY <1>3, <1>5, <2>1, <2>2
<1>7. ASSUME NEW k \in 1..(m - 1) PROVE Within(B[k], B[k + 1], u[k + 1].part)
  <2>1. Within(A[k], A[k + 1], t[k + 1].part)
    BY <1>2 DEF Account, l
  <2> QED BY <1>1, <1>3, <1>5, <2>1
<1>8. u # <<>> => B[1].search.depth = 1
  BY <1>1, <1>5 DEF Account
<1>9. Len(u) > 1 => u[1].visits # 0
  BY <1>1, <1>3 DEF Account, l
<1>10. Account(list, gen, u, B, lv)
  BY <1>1, <1>5, <1>6, <1>7, <1>8, <1>9 DEF Account
<1> QED BY <1>10 DEF B, m, l, Shorter

\* The state with nothing abandoned.
Clear(st) == [st EXCEPT !.cut = 0]

\* The job of a stack goes on from the state st, and leaves the state out.
Runs(list, gen, stack, lv, st, out) ==
  \E A : /\ Account(list, gen, stack, A, lv)
         /\ stack = <<>> => out = st
         /\ stack # <<>> => /\ out = Clear(A[1].end)
                            /\ A[Len(stack)].search.from = st
                            /\ Ends(A[Len(stack)].search, A[Len(stack)].end)

\* The same while a turn looks at the top context.
Seen(list, gen, stack, A, lv, st, out) ==
  /\ stack # <<>>
  /\ stack[1].visits # 0
  /\ Account(list, gen, stack, A, lv)
  /\ out = Clear(A[1].end)
  /\ A[Len(stack)].search.from = st
  /\ Ends(A[Len(stack)].search, A[Len(stack)].end)

\* The job of a stack with solutions ss waits for a findall() that leaves sub.
Awaits(a, ss, sub) ==
  /\ a.search.goals # <<>>
  /\ Head(a.search.goals).goal.op = "findall"
  /\ a.search.from.cut = 0
  /\ a.search.from.solutions = ss
  /\ Collects(a.search, sub, a.end)

Waiting(list, gen, stack, lv, ss, sub, out) ==
  \E A : /\ stack # <<>>
         /\ stack[1].visits # 0
         /\ Account(list, gen, stack, A, lv)
         /\ out = Clear(A[1].end)
         /\ Awaits(A[Len(stack)], ss, sub)

\* Neither a change of the list that leaves the walks alone, nor levels for new
\* goal parts, disturb the account of a stack, ...
LEMMA SeenAside ==
  ASSUME NEW list, NEW gen, NEW stack, NEW A, NEW lv, NEW next, NEW len \in Nat, NEW st, NEW out,
         StackOf(stack, next, gen, len), Seen(list, gen, stack, A, lv, st, out),
         NEW list2, NEW gen2, NEW lv2, SameWalks(list, list2, gen), SameLevels(lv, lv2, next)
  PROVE  Seen(list2, gen2, stack, A, lv2, st, out)
BY AccountAside DEF Seen

\* ... or that of a stack that waits for a findall().
LEMMA WaitingAside ==
  ASSUME NEW list, NEW gen, NEW stack, NEW lv, NEW next, NEW len \in Nat, NEW ss, NEW sub, NEW out,
         StackOf(stack, next, gen, len), Waiting(list, gen, stack, lv, ss, sub, out),
         NEW list2, NEW gen2, NEW lv2, SameWalks(list, list2, gen), SameLevels(lv, lv2, next)
  PROVE  Waiting(list2, gen2, stack, lv2, ss, sub, out)
BY AccountAside DEF Waiting

\* The top context as a turn sees it.
LEMMA RunsSeen ==
  ASSUME NEW list, NEW gen, NEW stack \in Seq(Contexts), NEW lv, stack # <<>>, NEW st, NEW out,
         Runs(list, gen, stack, lv, st, out), NEW t \in Seq(Contexts), Len(t) = Len(stack),
         \A k \in 1..(Len(stack) - 1) : t[k] = stack[k],
         t[Len(stack)].part = stack[Len(stack)].part,
         t[Len(stack)].cursor = stack[Len(stack)].cursor,
         t[Len(stack)].uc = stack[Len(stack)].uc,
         t[Len(stack)].it = IteratorOf(stack, Len(stack), gen),
         t[Len(stack)].visits # 0
  PROVE  \E A : Seen(list, gen, t, A, lv, st, out)
<1>1. PICK A : /\ Account(list, gen, stack, A, lv)
               /\ out = Clear(A[1].end)
               /\ A[Len(stack)].search.from = st
               /\ Ends(A[Len(stack)].search, A[Len(stack)].end)
  BY DEF Runs
<1>2. t # <<>>
  OBVIOUS
<1>3. Account(list, gen, t, A, lv) /\ t[1].visits # 0
  BY <1>1, AccountVisited
<1> QED BY <1>1, <1>2, <1>3 DEF Seen

\* A job whose turn has looked at the top context, and no more.
LEMMA SeenRuns ==
  ASSUME NEW list, NEW gen, NEW stack, NEW A, NEW lv, NEW st, NEW out,
         Seen(list, gen, stack, A, lv, st, out)
  PROVE  Runs(list, gen, stack, lv, st, out)
BY DEF Seen, Runs

\* The account of the context on top.
LEMMA AccountOfTop ==
  ASSUME NEW list, NEW gen, NEW t \in Seq(Contexts), NEW A, NEW lv,
         t # <<>>, Account(list, gen, t, A, lv), t[1].visits # 0
  PROVE  /\ Len(t) \in 1..Len(t) /\ A \in [1..Len(t) -> Accounts]
         /\ A[Len(t)] \in Accounts /\ A[1] \in Accounts
         /\ Tells(list, t[Len(t)].it, t[Len(t)], A[Len(t)], lv)
<1>1. Len(t) \in 1..Len(t) /\ 1 \in 1..Len(t)
  OBVIOUS
<1>2. A \in [1..Len(t) -> Accounts]
  BY DEF Account
<1>3. IteratorOf(t, Len(t), gen) = t[Len(t)].it
  BY DEF IteratorOf
<1> QED BY <1>1, <1>2, <1>3 DEF Account

\* The top context is left with another iterator, and goes on from st2.
Turned(list, gen, t, A, lv, st, out, c, u) ==
  Stored(list) /\ Seen(list, gen, t, A, lv, st, out) /\ Leaves(t, c, u)

\* The account of the stack that a turn leaves, the top context apart.
LEMMA RunsLeft ==
  ASSUME NEW list, NEW gen, NEW t, NEW A, NEW lv, NEW st, NEW out, NEW c, NEW u,
         Turned(list, gen, t, A, lv, st, out, c, u), NEW st2 \in States
  PROVE  LET b == Again(A[Len(t)], Remaining(list, c.it), st2)
         IN  /\ Account(list, gen, u, Swapped(A, Len(t), b), lv) /\ u[1].visits # 0
             /\ b \in Accounts /\ b.end = A[Len(t)].end /\ Swapped(A, Len(t), b)[Len(t)] = b
             /\ out = Clear(Swapped(A, Len(t), b)[1].end)
             /\ Ends(b.search, b.end) => Runs(list, gen, u, lv, st2, out)
<1> Stored(list) /\ Seen(list, gen, t, A, lv, st, out) /\ Leaves(t, c, u) /\ t \in Seq(Contexts)
  BY DEF Turned, Leaves
<1> DEFINE l == Len(t)
           b == Again(A[l], Remaining(list, c.it), st2)
           B == Swapped(A, l, b)
<1>1. /\ t # <<>> /\ t[1].visits # 0 /\ Account(list, gen, t, A, lv)
      /\ out = Clear(A[1].end)
  BY DEF Seen
<1>2. Account(list, gen, u, B, lv) /\ u[1].visits # 0
  BY <1>1, AccountLeft
<1> Len(u) = Len(t)
  BY DEF Leaves
<1>3. Remaining(list, c.it) \in Seq(Placed)
  BY RemainingTyped DEF Contexts, Leaves
<1>4. l \in 1..l /\ A \in [1..l -> Accounts] /\ A[l] \in Accounts /\ 1 \in 1..l /\ u # <<>>
  <2>1. l \in Nat /\ l >= 1 /\ 1 \in 1..l /\ u # <<>>
    BY <1>1 DEF Leaves
  <2> HIDE DEF l
  <2>2. A \in [1..l -> Accounts]
    BY <1>1 DEF Account, l
  <2> QED BY <2>1, <2>2
<1>5. b \in Accounts /\ b.end = A[l].end /\ b.search.from = st2
  BY <1>3, <1>4, AgainTyped
<1> HIDE DEF b, l
<1>6. B[l] = b /\ B[1].end = A[1].end
  BY <1>4, <1>5 DEF Swapped
<1> HIDE DEF B
<1>7. out = Clear(B[1].end)
  BY <1>1, <1>6
<1>8. Ends(b.search, b.end) => Runs(list, gen, u, lv, st2, out)
  <2>1. Len(u) = l
    BY DEF l
  <2> QED BY <1>2, <1>4, <1>5, <1>6, <1>7, <2>1 DEF Runs
<1> QED BY <1>2, <1>5, <1>6, <1>7, <1>8 DEF b, B, l

\* The context d, with account b, is at the start of its search.
Starts(list, lv, d, b) ==
  Tells(list, d.it, d, b, lv) /\ Gives(b.search, b.end) /\ b.search.choices # <<>>

\* It is left, and another one is pushed.
LEMMA RunsPushed ==
  ASSUME NEW list, NEW gen, NEW t, NEW A, NEW lv, NEW st, NEW out, NEW c, NEW u,
         Turned(list, gen, t, A, lv, st, out, c, u), NEW d, NEW b, Starts(list, lv, d, b),
         Within(Again(A[Len(t)], Remaining(list, c.it), b.end), b, d.part),
         NEW w, Pushes(u, d, w)
  PROVE  Runs(list, gen, w, lv, b.search.from, out)
<1> Tells(list, d.it, d, b, lv) /\ Gives(b.search, b.end) /\ b.search.choices # <<>>
    /\ b.search.from.cut = 0
  BY GivesOpened DEF Starts, Proper
<1> Stored(list) /\ Seen(list, gen, t, A, lv, st, out) /\ Leaves(t, c, u) /\ t \in Seq(Contexts)
  BY DEF Turned, Leaves
<1> DEFINE l == Len(t)
           a == Again(A[l], Remaining(list, c.it), b.end)
           B == Swapped(A, l, a)
           C == Longer(B, l, b)
<1>1. b.end \in States
  BY DEF Tells, Accounts
<1> HIDE DEF C
<1>2. /\ Account(list, gen, u, B, lv) /\ u[1].visits # 0 /\ B[l] = a
      /\ out = Clear(B[1].end)
  <2> DEFINE e == b.end
  <2>1. e \in States
    BY <1>1
  <2> HIDE DEF e
  <2>2. LET x == Again(A[Len(t)], Remaining(list, c.it), e)
        IN  /\ Account(list, gen, u, Swapped(A, Len(t), x), lv) /\ u[1].visits # 0
            /\ Swapped(A, Len(t), x)[Len(t)] = x
            /\ out = Clear(Swapped(A, Len(t), x)[1].end)
    <3>1. \A y \in States : LET x == Again(A[Len(t)], Remaining(list, c.it), y)
        IN  /\ Account(list, gen, u, Swapped(A, Len(t), x), lv) /\ u[1].visits # 0
            /\ Swapped(A, Len(t), x)[Len(t)] = x
            /\ out = Clear(Swapped(A, Len(t), x)[1].end)
      BY RunsLeft
    <3> QED BY <2>1, <3>1
  <2> QED BY <2>2 DEF e
<1>3. l \in Nat /\ l >= 1 /\ u # <<>> /\ Len(u) = l /\ 1 \in 1..(l + 1) /\ 1 # l + 1 /\ l + 1 \in 1..(l + 1)
      /\ Len(w) = l + 1 /\ w # <<>>
  <2>1. t # <<>> /\ Len(u) = Len(t) /\ Len(w) = Len(u) + 1
    BY DEF Seen, Leaves, Pushes
  <2> QED BY <2>1
<1> HIDE DEF a, B
<1>4. Account(list, gen, w, C, lv)
  <2>1. Within(B[Len(u)], b, d.part)
    BY <1>2, <1>3 DEF a
  <2>2. Len(u) = Len(t) /\ u \in Seq(Contexts)
    BY DEF Leaves
  <2> HIDE DEF l
  <2>3. Account(list, gen, w, Longer(B, Len(u), b), lv)
    BY <1>2, <1>3, <2>1, <2>2, AccountPushed
  <2> QED BY <2>2, <2>3 DEF C, l
<1>5. C[1] = B[1] /\ C[l + 1] = b
  BY <1>3 DEF C, Longer
<1>6. Ends(b.search, b.end)
  BY DEF Ends
<1> QED BY <1>2, <1>3, <1>4, <1>5, <1>6 DEF Runs

\* A state in which nothing is abandoned.
LEMMA Cleared ==
  ASSUME NEW st \in States
  PROVE  LET u == Clear(st)
         IN  /\ u \in States /\ u.cut = 0 /\ u.live = st.live /\ u.total = st.total
             /\ u.errors = st.errors /\ u.solutions = st.solutions /\ u.ended = st.ended
             /\ st.cut = 0 => u = st
<1> DEFINE u == Clear(st)
<1>1. /\ u \in States /\ u.cut = 0 /\ u.live = st.live /\ u.total = st.total
      /\ u.errors = st.errors /\ u.solutions = st.solutions /\ u.ended = st.ended
  <2>1. \A c \in Nat :
          LET w == [st EXCEPT !.cut = c]
          IN  /\ w \in States /\ w.cut = c /\ w.live = st.live /\ w.total = st.total
              /\ w.errors = st.errors /\ w.solutions = st.solutions /\ w.ended = st.ended
    BY StateExcept
  <2>2. 0 \in Nat
    OBVIOUS
  <2> QED BY <2>1, <2>2 DEF Clear
<1> HIDE DEF u
<1>2. st.cut = 0 => u = st
  BY <1>1, SameState
<1> QED BY <1>1, <1>2 DEF u

\* It is dropped, and the context below goes on from the state it leaves.
LEMMA RunsPopped ==
  ASSUME NEW list, NEW gen, NEW t \in Seq(Contexts), NEW A, NEW lv, NEW st, NEW out,
         Seen(list, gen, t, A, lv, st, out),
         NEW u, Pops(t, u), A[Len(t)].end.cut = 0
  PROVE  Runs(list, gen, u, lv, A[Len(t)].end, out)
<1> DEFINE l == Len(t)
           m == l - 1
           B == Shorter(A, l)
           e == A[l].end
<1>1. /\ t # <<>> /\ t[1].visits # 0 /\ Account(list, gen, t, A, lv)
      /\ out = Clear(A[1].end)
  BY DEF Seen
<1> u \in Seq(Contexts) /\ Len(u) = Len(t) - 1 /\ \A k \in 1..(Len(t) - 1) : u[k] = t[k]
  BY DEF Pops
<1>2. l \in Nat /\ l >= 1 /\ m \in Nat /\ Len(u) = m
      /\ (m # 0 => 1 \in 1..m /\ m \in 1..m /\ m \in 1..(l - 1)) /\ m + 1 = l /\ (u = <<>> <=> m = 0)
  BY <1>1
<1>3. Account(list, gen, u, B, lv)
  BY <1>1, AccountPopped
<1>4. A[l] \in Accounts
  BY <1>1, AccountOfTop
<1> HIDE DEF l, m
<1>5. CASE m = 0
  <2>1. l = 1 /\ u = <<>>
    BY <1>2, <1>5
  <2>2. e \in States /\ e.cut = 0
    BY <1>4 DEF Accounts, l
  <2>3. Clear(e) = e
    BY <2>2, Cleared
  <2>4. out = e
    BY <1>1, <2>1, <2>3
  <2> QED BY <1>3, <2>1, <2>4 DEF Runs, l
<1>6. CASE m # 0
  <2>1. B[1] = A[1] /\ B[m] = A[m] /\ u # <<>>
    BY <1>2, <1>6 DEF Shorter, m
  <2>2. Within(A[m], A[m + 1], t[m + 1].part)
    BY <1>1, <1>2, <1>6 DEF Account, l
  <2>3. A[m].search.from = e /\ Ends(A[m].search, A[m].end)
    BY <1>2, <2>2 DEF Within
  <2> HIDE DEF B
  <2> QED BY <1>1, <1>2, <1>3, <2>1, <2>3 DEF Runs, l
<1> QED BY <1>5, <1>6

\* The levels of the goal parts.
LevelMap(lv) == lv \in [Nat -> Nat]

\* A clause list with its generation, and with a builtin in it.
HasBuiltin(list) == \E k \in 1..Len(list) : list[k].builtin /\ ~IsRetired(list[k])
ListInv(list, gen) ==
  Stored(list) /\ gen \in Nat /\ WellStamped(list, gen) /\ HasBuiltin(list)

\* A context that is new, and what it is for, start a search of the reference.
LEMMA StartsWhole ==
  ASSUME NEW list, NEW gen, ListInv(list, gen), NEW lv, LevelMap(lv), NEW d,
         NEW goals, NEW depth, NEW path, NEW st, NEW end, st.live = Live(list),
         Gives(Whole(goals, depth, path, st), end),
         d.it = NewIterator(gen), d.uc = path, Spells(d.cursor, lv, goals),
         d.part # None => lv[d.part] = depth
  PROVE  LET b == [search |-> Whole(goals, depth, path, st), end |-> end]
         IN  Starts(list, lv, d, b)
<1> DEFINE s == Whole(goals, depth, path, st)
           b == [search |-> s, end |-> end]
<1>1. /\ s.goals = goals /\ s.depth = depth /\ s.path = path /\ s.choices = Live(list)
  BY DEF Whole, Rest
<1> HIDE DEF s
<1>2. s \in Searches /\ Proper(s) /\ end \in States /\ Gives(s, end)
  <2>1. Gives(s, end)
    BY DEF s
  <2> QED BY <2>1, GivesOpened
<1>3. b \in Accounts /\ b.search = s /\ b.end = end
  BY <1>2 DEF Accounts
<1> HIDE DEF b
<1>4. Levels(s)
  BY <1>2 DEF Levels, Proper
<1>5. /\ Stored(list) /\ gen \in Nat /\ WellStamped(list, gen)
      /\ NewIterator(gen) \in Iterators /\ NewIterator(gen).pos >= 1
      /\ NewIterator(gen).pos = 1 /\ NewIterator(gen).snapshot = gen
      /\ NewIterator(gen).invalidated = FALSE
  BY DEF ListInv, NewIterator, Iterators
<1>6. Remaining(list, d.it) = Live(list)
  BY <1>5, NewRemaining
<1>7. Live(list) # <<>>
  <2>1. PICK k \in 1..Len(list) : list[k].builtin /\ ~IsRetired(list[k])
    BY DEF ListInv, HasBuiltin
  <2>2. list[k].appendGen <= gen
    <3>1. list[k].appendGen \in 1..gen
      BY <1>5 DEF WellStamped
    <3>2. gen \in Nat
      BY <1>5
    <3> QED BY <3>1, <3>2
  <2>3. k \in CandidatesIn(list, NewIterator(gen))
    BY <1>5, <2>1, <2>2 DEF CandidatesIn, Visible
  <2>4. Remaining(list, NewIterator(gen)) # <<>>
    BY <1>5, <2>3, RemainingTyped
  <2> QED BY <1>6, <2>4
<1>8. Tells(list, d.it, d, b, lv)
  BY <1>1, <1>3, <1>4, <1>6 DEF Tells
<1> QED BY <1>1, <1>2, <1>3, <1>7, <1>8 DEF Starts, b, s

\* Appending and retiring leave the walks of what has begun.
LEMMA ListMore ==
  ASSUME NEW list, NEW gen, ListInv(list, gen), NEW c \in Clauses, Plain(c) \in PlainClauses,
         NEW more, MoreBy(list, gen, c, more)
  PROVE  SameWalks(list, more, gen) /\ Stored(more) /\ HasBuiltin(more)
<1>1. Stored(list) /\ gen \in Nat
  BY DEF ListInv
<1>2. \A it \in Iterators : it.pos >= 1 /\ it.snapshot <= gen => Remaining(more, it) = Remaining(list, it)
  BY <1>1, MoreRemaining
<1>3. /\ Stored(more) /\ Len(more) = Len(list) + 1 /\ Len(list) \in Nat
      /\ \A k \in 1..Len(list) : more[k] = list[k]
  <2>1. Stored(more) /\ Len(more) = Len(list) + 1 /\ Len(list) \in Nat
    BY <1>1, MoreListed
  <2>2. list \in Seq(Clauses) /\ more = Append(list, c)
    BY <1>1 DEF Stored, MoreBy
  <2>3. \A k \in 1..Len(list) : more[k] = list[k]
    BY <2>2
  <2> QED BY <2>1, <2>3
<1>4. HasBuiltin(more)
  <2>1. PICK k \in 1..Len(list) : list[k].builtin /\ ~IsRetired(list[k])
    BY DEF ListInv, HasBuiltin
  <2>2. k \in 1..Len(more)
    BY <1>3
  <2> QED BY <1>3, <2>1, <2>2 DEF HasBuiltin
<1> QED BY <1>2, <1>3, <1>4 DEF SameWalks

\* A fact is retired: no walk that is under way notices.
LEMMA ListLess ==
  ASSUME NEW list, NEW gen, ListInv(list, gen), NEW n, ~list[n].builtin,
         NEW less, LessBy(list, gen, n, less)
  PROVE  SameWalks(list, less, gen) /\ Stored(less) /\ HasBuiltin(less)
<1>1. Stored(list) /\ gen \in Nat
  BY DEF ListInv
<1>2. \A it \in Iterators : it.pos >= 1 /\ it.snapshot <= gen => Remaining(less, it) = Remaining(list, it)
  BY <1>1, LessRemaining
<1>3. /\ Stored(less) /\ Len(less) = Len(list)
      /\ \A k \in 1..Len(list) : k # n => less[k] = list[k]
  BY <1>1, LessListed
<1>4. HasBuiltin(less)
  <2>1. PICK k \in 1..Len(list) : list[k].builtin /\ ~IsRetired(list[k])
    BY DEF ListInv, HasBuiltin
  <2> QED BY <1>3, <2>1 DEF HasBuiltin
<1> QED BY <1>2, <1>3, <1>4 DEF SameWalks

-----------------------------------------------------------------------------
(* All jobs.  outs are the states that they leave.                         *)

Accounted(js, list, gen, errs, outs, lv, meaning) ==
  /\ LevelMap(lv)
  /\ outs[1] = Clear(meaning)
  /\ Runs(list, gen, js[Len(js)].stack, lv, State(list, js[Len(js)].solutions, errs), outs[Len(js)])
  /\ \A n \in 1..(Len(js) - 1) :
       Waiting(list, gen, js[n].stack, lv, js[n].solutions, outs[n + 1], outs[n])

\* A job that waits is left alone by the one on top.
LEMMA JobsAside ==
  ASSUME NEW js, NEW next, NEW gen, NEW len \in Nat, JobsInv(js, next, gen, len),
         NEW list, NEW errs, NEW outs, NEW lv, NEW meaning,
         Accounted(js, list, gen, errs, outs, lv, meaning),
         NEW list2, NEW gen2, NEW lv2, SameWalks(list, list2, gen), SameLevels(lv, lv2, next),
         NEW n \in 1..(Len(js) - 1)
  PROVE  Waiting(list2, gen2, js[n].stack, lv2, js[n].solutions, outs[n + 1], outs[n])
<1>1. n \in 1..Len(js)
  BY DEF JobsInv
<1>2. StackOf(js[n].stack, next, gen, len)
  BY <1>1 DEF JobsInv, JobInv, SearchJobs, StackOf
<1>3. Waiting(list, gen, js[n].stack, lv, js[n].solutions, outs[n + 1], outs[n])
  BY DEF Accounted
<1> DEFINE s == js[n].stack
           ss == js[n].solutions
           sub == outs[n + 1]
           out == outs[n]
<1> HIDE DEF s, ss, sub, out
<1>4. Waiting(list2, gen2, s, lv2, ss, sub, out)
  BY <1>2, <1>3, WaitingAside DEF s, ss, sub, out
<1> QED BY <1>4 DEF s, ss, sub, out

\* Only the job on top has changed.
TopOnly(js, ks) ==
  ks # <<>> /\ Len(ks) = Len(js) /\ \A n \in 1..(Len(js) - 1) : ks[n] = js[n]

\* A turn that changes only the job on top and gives it an account again leaves
\* an account of all.
LEMMA TopStep ==
  ASSUME NEW js, NEW next, NEW gen, NEW len \in Nat, JobsInv(js, next, gen, len),
         NEW list, NEW errs, NEW outs, NEW lv, NEW meaning,
         Accounted(js, list, gen, errs, outs, lv, meaning),
         NEW list2, NEW gen2, NEW lv2, LevelMap(lv2), NEW errs2,
         SameWalks(list, list2, gen), SameLevels(lv, lv2, next), NEW ks, TopOnly(js, ks),
         Runs(list2, gen2, ks[Len(ks)].stack, lv2, State(list2, ks[Len(ks)].solutions, errs2),
              outs[Len(js)])
  PROVE  Accounted(ks, list2, gen2, errs2, outs, lv2, meaning)
<1> DEFINE l == Len(js)
<1>1. Len(ks) = l /\ \A n \in 1..(l - 1) : ks[n] = js[n]
  BY DEF TopOnly
<1>2. \A n \in 1..(l - 1) : Waiting(list2, gen2, js[n].stack, lv2, js[n].solutions, outs[n + 1], outs[n])
  BY JobsAside
<1> HIDE DEF l
<1>3. \A n \in 1..(Len(ks) - 1) : Waiting(list2, gen2, ks[n].stack, lv2, ks[n].solutions, outs[n + 1], outs[n])
  BY <1>1, <1>2
<1>4. Runs(list2, gen2, ks[Len(ks)].stack, lv2, State(list2, ks[Len(ks)].solutions, errs2), outs[Len(ks)])
  BY <1>1 DEF l
<1>5. outs[1] = Clear(meaning)
  BY DEF Accounted
<1> QED BY <1>3, <1>4, <1>5 DEF Accounted

\* The last job is replaced; so is its stack.
Replaced(js, ks, c) == ks = [js EXCEPT ![Len(js)] = c]
LastLeft(js, ks, u) == ks = [js EXCEPT ![Len(js)].stack = u]

\* Replacing the last job changes no other.
LEMMA JobReplaced ==
  ASSUME NEW js \in Seq(SearchJobs), js # <<>>, NEW c, NEW ks, Replaced(js, ks, c)
  PROVE  TopOnly(js, ks) /\ ks[Len(js)] = c
<1> DEFINE n == Len(js)
<1>1. n \in Nat /\ n >= 1 /\ n \in 1..n /\ DOMAIN js = 1..n
      /\ \A i \in 1..(n - 1) : i \in 1..n /\ i # n
  OBVIOUS
<1>2. ks = [js EXCEPT ![n] = c]
  BY DEF Replaced
<1> HIDE DEF n
<1>3. DOMAIN ks = 1..n
  BY <1>1, <1>2
<1>4. ks[n] = c
  BY <1>1, <1>2
<1>5. \A i \in 1..(n - 1) : ks[i] = js[i]
  BY <1>1, <1>2
<1>6. Len(ks) = n /\ ks # <<>>
  BY <1>1, <1>3, <1>4, <1>5
<1> QED BY <1>4, <1>5, <1>6 DEF TopOnly, n

\* The last job with another stack.
LEMMA LastJobLeft ==
  ASSUME NEW js \in Seq(SearchJobs), js # <<>>, NEW u, NEW ks, LastLeft(js, ks, u)
  PROVE  /\ TopOnly(js, ks) /\ ks[Len(js)].stack = u
         /\ ks[Len(js)].solutions = js[Len(js)].solutions
<1> DEFINE job == js[Len(js)]
           c == [job EXCEPT !.stack = u]
<1>1. job \in SearchJobs
  OBVIOUS
<1>2. Replaced(js, ks, c)
  BY <1>1 DEF LastLeft, Replaced
<1>3. c.stack = u /\ c.solutions = job.solutions
  <2> HIDE DEF job
  <2> QED BY <1>1 DEF SearchJobs
<1> HIDE DEF c
<1>4. TopOnly(js, ks) /\ ks[Len(js)] = c
  BY <1>2, JobReplaced
<1> QED BY <1>3, <1>4 DEF job

\* What a turn knows of the search of the context it looks at.
OnTop(list, lv, sc, s, end, st) ==
  /\ s \in Searches /\ end \in States
  /\ Proper(s) /\ s.from = st /\ s.path = sc.uc
  /\ s.choices = Remaining(list, sc.it)
  /\ Spells(sc.cursor, lv, s.goals)
  /\ sc.part # None => lv[sc.part] = s.depth
  /\ IF s.choices = <<>> /\ s.goals # <<>> THEN end = st ELSE Gives(s, end)

\* The search that the context on top has still to do.
LEMMA TopSearch ==
  ASSUME NEW list, NEW gen, NEW t \in Seq(Contexts), NEW A, NEW lv, NEW st, NEW out,
         Seen(list, gen, t, A, lv, st, out), st.cut = 0
  PROVE  /\ OnTop(list, lv, t[Len(t)], A[Len(t)].search, A[Len(t)].end, st)
         /\ A[Len(t)] \in Accounts
<1> DEFINE a == A[Len(t)]
<1>1. /\ t # <<>> /\ t[1].visits # 0 /\ Account(list, gen, t, A, lv)
      /\ a.search.from = st /\ Ends(a.search, a.end)
  BY DEF Seen
<1>2. a \in Accounts /\ Tells(list, t[Len(t)].it, t[Len(t)], a, lv)
  BY <1>1, AccountOfTop
<1> HIDE DEF a
<1>3. a.search \in Searches /\ a.end \in States
  BY <1>2 DEF Accounts
<1>4. Proper(a.search)
  BY <1>1, <1>2 DEF Tells, Levels, Proper
<1>5. IF a.search.choices = <<>> /\ a.search.goals # <<>> THEN a.end = st ELSE Gives(a.search, a.end)
  BY <1>1 DEF Ends
<1> QED BY <1>1, <1>2, <1>3, <1>4, <1>5 DEF OnTop, Tells, a

\* A context with a cursor is at its first goal, one without has none left.
LEMMA TopGoals ==
  ASSUME NEW list, NEW lv, LevelMap(lv), NEW sc \in Contexts, NEW s, NEW end, NEW st,
         OnTop(list, lv, sc, s, end, st)
  PROVE  /\ sc.cursor = <<>> => s.goals = <<>>
         /\ sc.cursor # <<>> => /\ s.goals # <<>>
                                /\ Head(s.goals).goal = CurrentGoal(sc)
                                /\ Head(s.goals).level = lv[sc.cursor[1].part]
                                /\ Spells(NextTerm(sc.cursor), lv, Tail(s.goals))
<1>1. sc.cursor \in Seq(Frames) /\ Spells(sc.cursor, lv, s.goals) /\ lv \in [Nat -> Nat]
  BY DEF Contexts, OnTop, LevelMap
<1>2. CASE sc.cursor = <<>>
  BY <1>1, <1>2, SpellsNothing
<1>3. CASE sc.cursor # <<>>
  <2> DEFINE gs == s.goals
             cs == sc.cursor
  <2> HIDE DEF gs, cs
  <2>1. cs \in Seq(Frames) /\ cs # <<>> /\ Spells(cs, lv, gs) /\ lv \in [Nat -> Nat]
    BY <1>1, <1>3 DEF gs, cs
  <2>2. /\ gs # <<>>
        /\ Head(gs) = [goal |-> Head(cs[1].rest), level |-> lv[cs[1].part]]
        /\ Spells(NextTerm(cs), lv, Tail(gs))
    BY <2>1, SpellsFrames
  <2>3. Head(gs).goal = Head(cs[1].rest) /\ Head(gs).level = lv[cs[1].part]
    BY <2>2
  <2> QED BY <1>3, <2>2, <2>3 DEF gs, cs, CurrentGoal
<1> QED BY <1>2, <1>3

-----------------------------------------------------------------------------
(* The invariant, and the turns.                                           *)

\* The jobs have an account that ends in the meaning of the query.
Reached(js, list, gen, errs, outs, lv) ==
  /\ Stored(list) /\ HasBuiltin(list) /\ errs \in Nat
  /\ Accounted(js, list, gen, errs, outs, lv, Meaning[given])

\* The jobs there are have one: outs are the states they leave, and lv the levels
\* of their goal parts.
Agreed(outs, lv) == Reached(jobs, db, generation, recorded, outs, lv)

\* The invariant.  Of a search that does not end in the bound nothing is said.
Agrees == Meaning[given].ended => \E outs, lv : Agreed(outs, lv)

\* The state of the reference that the job on top has come to.
NowState == State(db, Top.solutions, recorded)

\* The stack as a turn sees it.
SeenStack == Front(Top.stack) \o <<Visited(Top)>>

\* What the visit of a turn finds: the account of the stack with the iterator of
\* its first context rebuilt.
LEMMA TurnSeen ==
  ASSUME IInv, NEW outs, NEW lv, Agreed(outs, lv), Top.stack # <<>>
  PROVE  /\ \E A : Seen(db, generation, SeenStack, A, lv, NowState, outs[Len(jobs)])
         /\ StackOf(SeenStack, nextPart, generation, Len(db))
         /\ Len(SeenStack) = Len(Top.stack) /\ SeenStack # <<>>
         /\ SeenStack[Len(SeenStack)] = Visited(Top)
         /\ \A k \in 1..(Len(Top.stack) - 1) : SeenStack[k] = Top.stack[k]
         /\ Visited(Top) \in Contexts /\ Visited(Top).visits # 0
         /\ LevelMap(lv) /\ ListInv(db, generation)
         /\ NowState \in States /\ NowState.cut = 0 /\ NowState.live = Live(db) /\ NowState.ended
         /\ jobs \in Seq(SearchJobs) /\ jobs # <<>> /\ JobsInv(jobs, nextPart, generation, Len(db))
         /\ Len(db) \in Nat /\ Top = jobs[Len(jobs)] /\ Top.solutions \in Seq(Seq(Nat))
<1> DEFINE s == Top.stack
           l == Len(s)
           t == SeenStack
           sc == Visited(Top)
<1>1. /\ sc \in Contexts /\ InList(sc, generation, Len(db))
      /\ sc.part = Last(s).part /\ sc.cursor = Last(s).cursor
      /\ JobInv(Top, nextPart, generation, Len(db)) /\ Top = jobs[Len(jobs)]
      /\ Len(jobs) \in Nat \ {0} /\ Len(db) \in Nat /\ Top \in SearchJobs
  BY VisitedTyped
<1>2. /\ s \in Seq(Contexts) /\ StackInv(s, nextPart) /\ Top.solutions \in Seq(Seq(Nat))
      /\ \A k \in 1..l : InList(s[k], generation, Len(db))
  BY <1>1 DEF JobInv, SearchJobs
<1>3. l \in Nat /\ l >= 1 /\ (\A k \in 1..l : k = l \/ k \in 1..(l - 1)) /\ l \in 1..l
  BY <1>2
<1>4. sc.uc = s[l].uc /\ sc.visits # 0 /\ sc.it = IteratorOf(s, l, generation)
  <2>1. s[l] \in Contexts
    BY <1>2, <1>3
  <2>2. Last(s) = s[l]
    BY DEF Last
  <2> DEFINE c == s[l]
             v == IF c.visits = 0 THEN 1 ELSE 2
             i == IF l = 1 /\ c.visits = 0 THEN NewIterator(generation) ELSE c.it
             w == [c EXCEPT !.visits = v, !.it = i]
  <2>3. sc = w
    BY <2>2 DEF Visited
  <2>4. v # 0
    OBVIOUS
  <2>5. i = IteratorOf(s, l, generation)
    BY DEF IteratorOf
  <2> HIDE DEF c, v, i
  <2>6. w.uc = c.uc /\ w.visits = v /\ w.it = i
    <3>1. c \in Contexts
      BY <2>1 DEF c
    <3> QED BY <3>1 DEF Contexts
  <2> HIDE DEF w
  <2> QED BY <2>3, <2>4, <2>5, <2>6 DEF c
<1>5. /\ t \in Seq(Contexts) /\ Len(t) = l /\ StackInv(t, nextPart) /\ t[l] = sc
      /\ \A k \in 1..(l - 1) : t[k] = s[k]
  BY <1>1, <1>2, LeftStack DEF SeenStack
<1>6. s[l].part = sc.part /\ s[l].cursor = sc.cursor
  BY <1>1 DEF Last
<1> HIDE DEF s, t, sc, l
<1>7. StackOf(t, nextPart, generation, Len(db))
  <2>1. \A k \in 1..Len(t) : InList(t[k], generation, Len(db))
    BY <1>1, <1>2, <1>3, <1>5
  <2> QED BY <1>5, <2>1 DEF StackOf
<1>8. Accounted(jobs, db, generation, recorded, outs, lv, Meaning[given])
  BY DEF Agreed, Reached
<1>9. Runs(db, generation, s, lv, NowState, outs[Len(jobs)]) /\ LevelMap(lv)
  BY <1>1, <1>8 DEF Accounted, NowState, s
<1>10. \E A : Seen(db, generation, t, A, lv, NowState, outs[Len(jobs)])
  <2> DEFINE st == NowState
             out == outs[Len(jobs)]
  <2> HIDE DEF st, out
  <2>1. Runs(db, generation, s, lv, st, out) /\ s # <<>>
    BY <1>9 DEF st, out, s
  <2>2. \E A : Seen(db, generation, t, A, lv, st, out)
    BY <1>2, <1>4, <1>5, <1>6, <2>1, RunsSeen DEF l
  <2> QED BY <2>2 DEF st, out
<1>11. NowState \in States /\ NowState.cut = 0 /\ NowState.live = Live(db) /\ NowState.ended
  <2>1. NowState \in States
    BY <1>2, StateTyped DEF Agreed, Reached, NowState
  <2> QED BY <2>1 DEF NowState, State
<1>12. ListInv(db, generation)
  BY DEF IInv, DbInv, Agreed, Reached, ListInv
<1>13. JobsInv(jobs, nextPart, generation, Len(db)) /\ jobs \in Seq(SearchJobs) /\ jobs # <<>>
  BY DEF IInv, JobsInv
<1>14. t # <<>>
  BY <1>3, <1>5
<1> QED BY <1>1, <1>2, <1>4, <1>5, <1>7, <1>9, <1>10, <1>11, <1>12, <1>13, <1>14 DEF s, t, sc, l

\* A turn that leaves the job on top with an account of what is promised agrees.
LEMMA TurnStep ==
  ASSUME IInv, NEW outs, NEW lv, Agreed(outs, lv),
         NEW list2, Stored(list2), HasBuiltin(list2), NEW gen2, NEW errs2 \in Nat,
         NEW lv2, LevelMap(lv2), SameWalks(db, list2, generation), SameLevels(lv, lv2, nextPart),
         NEW ks, TopOnly(jobs, ks), NEW u, NEW ss, ks[Len(jobs)].stack = u,
         ks[Len(jobs)].solutions = ss,
         Runs(list2, gen2, u, lv2, State(list2, ss, errs2), outs[Len(jobs)])
  PROVE  Reached(ks, list2, gen2, errs2, outs, lv2)
<1>1. JobsInv(jobs, nextPart, generation, Len(db)) /\ Len(db) \in Nat
  BY DEF IInv, DbInv
<1>2. Accounted(jobs, db, generation, recorded, outs, lv, Meaning[given])
  BY DEF Agreed, Reached
<1>3. Len(ks) = Len(jobs)
  BY DEF TopOnly
<1>4. Runs(list2, gen2, ks[Len(ks)].stack, lv2, State(list2, ks[Len(ks)].solutions, errs2), outs[Len(jobs)])
  BY <1>3
<1> DEFINE m == Meaning[given]
           next == nextPart
           len == Len(db)
<1> HIDE DEF m, next, len
<1>5. Accounted(ks, list2, gen2, errs2, outs, lv2, m)
  <2>1. JobsInv(jobs, next, generation, len) /\ len \in Nat /\ SameLevels(lv, lv2, next)
    BY <1>1 DEF next, len
  <2>2. Accounted(jobs, db, generation, recorded, outs, lv, m)
    BY <1>2 DEF m
  <2> QED BY <1>4, <2>1, <2>2, TopStep
<1> QED BY <1>5 DEF Reached, m

\* Nothing but the top context, and its job, has changed.
LEMMA SameWorld ==
  ASSUME IInv, NEW outs, NEW lv, Agreed(outs, lv)
  PROVE  /\ Stored(db) /\ HasBuiltin(db) /\ recorded \in Nat /\ LevelMap(lv)
         /\ SameWalks(db, db, generation) /\ SameLevels(lv, lv, nextPart)
BY DEF Agreed, Reached, Accounted, SameWalks, SameLevels

\* The turn pops the context, and leaves the state that it ends in.
LEMMA TurnPops ==
  ASSUME IInv, NEW outs, NEW lv, Agreed(outs, lv), Top.stack # <<>>,
         NEW A, Seen(db, generation, SeenStack, A, lv, NowState, outs[Len(jobs)]),
         NEW ss, A[Len(SeenStack)].end = State(db, ss, recorded),
         NEW ks, TopOnly(jobs, ks), ks[Len(jobs)].stack = Front(Top.stack),
         ks[Len(jobs)].solutions = ss
  PROVE  Reached(ks, db, generation, recorded, outs, lv)
<1> DEFINE s == Top.stack
           t == SeenStack
           u == Front(s)
           out == outs[Len(jobs)]
           st == NowState
<1>1. /\ StackOf(t, nextPart, generation, Len(db)) /\ Len(t) = Len(s) /\ t # <<>>
      /\ \A k \in 1..(Len(s) - 1) : t[k] = s[k]
      /\ Top = jobs[Len(jobs)] /\ JobsInv(jobs, nextPart, generation, Len(db))
      /\ jobs \in Seq(SearchJobs) /\ jobs # <<>>
  BY TurnSeen
<1>2. s \in Seq(Contexts)
  <2>1. Top \in SearchJobs
    BY <1>1
  <2> QED BY <2>1 DEF SearchJobs
<1>3. u \in Seq(Contexts) /\ Len(u) = Len(s) - 1 /\ \A k \in 1..(Len(s) - 1) : u[k] = s[k]
  BY <1>2, AllButLast DEF Front
<1> HIDE DEF u, t, s, out, st
<1>4. Pops(t, u)
  BY <1>1, <1>3 DEF Pops
<1>5. A[Len(t)].end.cut = 0
  BY DEF State, t
<1>6. Seen(db, generation, t, A, lv, st, out) /\ t \in Seq(Contexts)
  BY <1>1 DEF t, st, out, StackOf
<1>7. Runs(db, generation, u, lv, A[Len(t)].end, out)
  BY <1>4, <1>5, <1>6, RunsPopped
<1>8. Runs(db, generation, u, lv, State(db, ss, recorded), out)
  BY <1>7 DEF t
<1>9. ks[Len(jobs)].stack = u
  BY DEF u, s
<1> QED BY <1>8, <1>9, TurnStep, SameWorld DEF out

\* A turn that finds a solution.
Finds(js, ks, u, ss) ==
  ks = [js EXCEPT ![Len(js)].stack = u, ![Len(js)].solutions = ss]

\* The job on top with another stack and other solutions.
LEMMA JobFound ==
  ASSUME NEW js \in Seq(SearchJobs), js # <<>>, NEW u, NEW ss, NEW ks, Finds(js, ks, u, ss)
  PROVE  TopOnly(js, ks) /\ ks[Len(js)].stack = u /\ ks[Len(js)].solutions = ss
<1> DEFINE job == js[Len(js)]
           c == [job EXCEPT !.stack = u, !.solutions = ss]
<1>1. job \in SearchJobs
  OBVIOUS
<1>2. Replaced(js, ks, c)
  BY <1>1 DEF Finds, Replaced
<1>3. c.stack = u /\ c.solutions = ss
  <2> HIDE DEF job
  <2> QED BY <1>1 DEF SearchJobs
<1> HIDE DEF c
<1>4. TopOnly(js, ks) /\ ks[Len(js)] = c
  BY <1>2, JobReplaced
<1> QED BY <1>3, <1>4

\* A solution is one the reference finds there.
LEMMA EmitSolutionAgrees ==
  ASSUME IInv, NEW outs, NEW lv, Agreed(outs, lv), EmitSolution
  PROVE  Reached(jobs', db, generation, recorded, outs, lv)
<1> DEFINE sc == Visited(Top)
           t == SeenStack
           out == outs[Len(jobs)]
           ss == Append(Top.solutions, sc.uc)
<1>1. Top.stack # <<>> /\ sc.cursor = <<>>
      /\ jobs' = [jobs EXCEPT ![Len(jobs)].stack = Front(@),
                              ![Len(jobs)].solutions = Append(@, sc.uc)]
  BY DEF EmitSolution, InLoop
<1>2. PICK A : Seen(db, generation, t, A, lv, NowState, out)
  BY <1>1, TurnSeen
<1>3. /\ StackOf(t, nextPart, generation, Len(db)) /\ t[Len(t)] = sc /\ sc \in Contexts
      /\ LevelMap(lv) /\ NowState.cut = 0 /\ ListInv(db, generation) /\ recorded \in Nat
      /\ jobs \in Seq(SearchJobs) /\ jobs # <<>> /\ Top = jobs[Len(jobs)]
      /\ Top.solutions \in Seq(Seq(Nat))
  BY <1>1, TurnSeen, SameWorld
<1> DEFINE a == A[Len(t)]
           st == NowState
<1>4. OnTop(db, lv, sc, a.search, a.end, st)
  <2>1. t \in Seq(Contexts)
    BY <1>3 DEF StackOf
  <2> HIDE DEF sc, t, st, out
  <2>2. st.cut = 0 /\ t[Len(t)] = sc
    BY <1>3 DEF st, t, sc
  <2>3. Seen(db, generation, t, A, lv, st, out)
    BY <1>2 DEF st, t, out
  <2> QED BY <2>1, <2>2, <2>3, TopSearch
<1> HIDE DEF sc, a, st
<1>5. a.search.goals = <<>>
  BY <1>1, <1>3, <1>4, TopGoals
<1>6. a.end = [st EXCEPT !.solutions = Append(@, sc.uc)]
  <2>1. Gives(a.search, a.end) /\ a.search.from = st /\ a.search.path = sc.uc
    BY <1>4, <1>5 DEF OnTop
  <2> QED BY <1>5, <2>1, GivesSolution
<1>7. a.end = State(db, ss, recorded)
  <2>1. sc.uc \in Seq(Nat)
    BY <1>3 DEF Contexts
  <2>2. ss \in Seq(Seq(Nat))
    BY <1>3, <2>1
  <2> HIDE DEF ss
  <2>3. State(db, ss, recorded) = [State(db, Top.solutions, recorded) EXCEPT !.solutions = ss]
    BY <1>3, <2>2, OtherSolutions DEF ListInv
  <2>4. st.solutions = Top.solutions /\ st = State(db, Top.solutions, recorded)
    BY DEF st, NowState, State
  <2>5. a.end = [st EXCEPT !.solutions = Append(st.solutions, sc.uc)]
    BY <1>6
  <2> QED BY <2>3, <2>4, <2>5 DEF ss
<1>8. jobs' = [jobs EXCEPT ![Len(jobs)].stack = Front(Top.stack), ![Len(jobs)].solutions = ss]
  BY <1>1, <1>3
<1> HIDE DEF ss
<1>9. TopOnly(jobs, jobs') /\ jobs'[Len(jobs)].stack = Front(Top.stack) /\ jobs'[Len(jobs)].solutions = ss
  <2> DEFINE u == Front(Top.stack)
  <2>1. jobs' = [jobs EXCEPT ![Len(jobs)].stack = u, ![Len(jobs)].solutions = ss]
    BY <1>8
  <2>2. Finds(jobs, jobs', u, ss)
    BY <2>1 DEF Finds
  <2>3. TopOnly(jobs, jobs') /\ jobs'[Len(jobs)].stack = u /\ jobs'[Len(jobs)].solutions = ss
    BY <1>3, <2>2, JobFound
  <2> QED BY <2>3 DEF u
<1> QED BY <1>1, <1>2, <1>7, <1>9, TurnPops DEF a, st

\* A context without candidates has left its state to the one below.
LEMMA ExhaustedAgrees ==
  ASSUME IInv, NEW outs, NEW lv, Agreed(outs, lv), Exhausted
  PROVE  Reached(jobs', db, generation, recorded, outs, lv)
<1> DEFINE sc == Visited(Top)
           t == SeenStack
           out == outs[Len(jobs)]
<1>1. Top.stack # <<>> /\ sc.cursor # <<>> /\ ~IsValid(sc.it)
      /\ jobs' = [jobs EXCEPT ![Len(jobs)].stack = Front(@)]
  BY DEF Exhausted, AtGoal, InLoop
<1>2. PICK A : Seen(db, generation, t, A, lv, NowState, out)
  BY <1>1, TurnSeen
<1>3. /\ StackOf(t, nextPart, generation, Len(db)) /\ t[Len(t)] = sc /\ sc \in Contexts /\ t # <<>>
      /\ LevelMap(lv) /\ NowState.cut = 0 /\ ListInv(db, generation) /\ recorded \in Nat
      /\ jobs \in Seq(SearchJobs) /\ jobs # <<>> /\ Top = jobs[Len(jobs)]
  BY <1>1, TurnSeen, SameWorld
<1> DEFINE a == A[Len(t)]
           st == NowState
<1>4. OnTop(db, lv, sc, a.search, a.end, st)
  <2>1. t \in Seq(Contexts)
    BY <1>3 DEF StackOf
  <2> HIDE DEF sc, t, st, out
  <2>2. st.cut = 0 /\ t[Len(t)] = sc
    BY <1>3 DEF st, t, sc
  <2>3. Seen(db, generation, t, A, lv, st, out)
    BY <1>2 DEF st, t, out
  <2> QED BY <2>1, <2>2, <2>3, TopSearch
<1>5. a.search.goals # <<>>
  <2> HIDE DEF sc, a, st
  <2> QED BY <1>1, <1>3, <1>4, TopGoals
<1>6. Remaining(db, sc.it) = <<>>
  <2>1. sc.it \in Iterators /\ sc.it.pos >= 1
    <3>1. Len(t) \in 1..Len(t)
      BY <1>3 DEF StackOf
    <3>2. InList(sc, generation, Len(db))
      BY <1>3, <3>1 DEF StackOf
    <3> HIDE DEF sc
    <3> QED BY <1>3, <3>2 DEF InList, Contexts
  <2>2. sc.it.invalidated \/ CandidatesIn(db, sc.it) = {}
    BY <1>1 DEF IsValid, Candidates, CandidatesIn
  <2> HIDE DEF sc
  <2> QED BY <1>3, <2>1, <2>2, RemainingTyped DEF ListInv
<1> HIDE DEF sc, a, st
<1>7. a.end = st
  BY <1>4, <1>5, <1>6 DEF OnTop
<1>8. jobs' = [jobs EXCEPT ![Len(jobs)].stack = Front(Top.stack)]
  BY <1>1, <1>3
<1>9. TopOnly(jobs, jobs') /\ jobs'[Len(jobs)].stack = Front(Top.stack)
      /\ jobs'[Len(jobs)].solutions = Top.solutions
  <2> DEFINE u == Front(Top.stack)
  <2>1. jobs' = [jobs EXCEPT ![Len(jobs)].stack = u]
    BY <1>8
  <2> HIDE DEF u
  <2>2. LastLeft(jobs, jobs', u)
    BY <2>1 DEF LastLeft
  <2>3. /\ TopOnly(jobs, jobs') /\ jobs'[Len(jobs)].stack = u
        /\ jobs'[Len(jobs)].solutions = jobs[Len(jobs)].solutions
    BY <1>3, <2>2, LastJobLeft
  <2> QED BY <1>3, <2>3 DEF u
<1>10. a.end = State(db, Top.solutions, recorded)
  BY <1>7 DEF st, NowState
<1> QED BY <1>1, <1>2, <1>9, <1>10, TurnPops DEF a, st

\* The turn is over when the top context has been looked at.
LEMMA VisitAgrees ==
  ASSUME IInv, NEW outs, NEW lv, Agreed(outs, lv), Top.stack # <<>>, Leave(Visited(Top), <<>>)
  PROVE  Reached(jobs', db, generation, recorded, outs, lv)
<1> DEFINE t == SeenStack
           out == outs[Len(jobs)]
           st == NowState
<1>1. PICK A : Seen(db, generation, t, A, lv, st, out)
  BY TurnSeen
<1>2. t \in Seq(Contexts) /\ jobs \in Seq(SearchJobs) /\ jobs # <<>> /\ Top = jobs[Len(jobs)]
  BY TurnSeen DEF StackOf
<1>3. jobs' = [jobs EXCEPT ![Len(jobs)].stack = t]
  <2>1. t \o <<>> = t
    BY <1>2, ConcatEmptySeq
  <2>2. jobs' = [jobs EXCEPT ![Len(jobs)].stack = Front(Top.stack) \o <<Visited(Top)>> \o <<>>]
    BY <1>2 DEF Leave
  <2> QED BY <2>1, <2>2 DEF SeenStack
<1> HIDE DEF t, st, out
<1>4. Runs(db, generation, t, lv, st, out)
  BY <1>1, SeenRuns
<1>5. TopOnly(jobs, jobs') /\ jobs'[Len(jobs)].stack = t /\ jobs'[Len(jobs)].solutions = Top.solutions
  <2>1. LastLeft(jobs, jobs', t)
    BY <1>3 DEF LastLeft
  <2>2. /\ TopOnly(jobs, jobs') /\ jobs'[Len(jobs)].stack = t
        /\ jobs'[Len(jobs)].solutions = jobs[Len(jobs)].solutions
    BY <1>2, <2>1, LastJobLeft
  <2> QED BY <1>2, <2>2
<1>6. Runs(db, generation, t, lv, State(db, Top.solutions, recorded), outs[Len(jobs)])
  BY <1>4 DEF st, NowState, out
<1> QED BY <1>5, <1>6, TurnStep, SameWorld

\* The world after a turn: the list, its generation, the errors and the levels.
World(list, gen, errs, lv, lv2) ==
  /\ ListInv(list, gen) /\ errs \in Nat /\ LevelMap(lv2)
  /\ SameWalks(db, list, generation) /\ SameLevels(lv, lv2, nextPart)

\* The context on top, with another iterator.
OnlyIterator(c) ==
  /\ c \in Contexts
  /\ c.part = Visited(Top).part /\ c.cursor = Visited(Top).cursor /\ c.uc = Visited(Top).uc
  /\ c.visits # 0 /\ c.it.pos >= 1

\* The account of the context on top.
SeenBy(A, outs, lv) == Seen(db, generation, SeenStack, A, lv, NowState, outs[Len(jobs)])
TopAccount(A) == A[Len(SeenStack)]
SeenLeft(c) == Front(Top.stack) \o <<c>>

\* The turn as the lemmas about stacks see it.
LEMMA TurnTurned ==
  ASSUME IInv, NEW outs, NEW lv, Agreed(outs, lv), Top.stack # <<>>, NEW A, SeenBy(A, outs, lv),
         NEW list, NEW gen, NEW errs, NEW lv2, World(list, gen, errs, lv, lv2),
         NEW c, OnlyIterator(c)
  PROVE  /\ Turned(list, gen, SeenStack, A, lv2, NowState, outs[Len(jobs)], c, SeenLeft(c))
         /\ SeenStack # <<>> /\ SeenStack \in Seq(Contexts) /\ SeenLeft(c) \in Seq(Contexts)
         /\ Len(SeenLeft(c)) = Len(SeenStack)
         /\ State(list, Top.solutions, errs) \in States
         /\ State(list, Top.solutions, errs).live = Live(list)
         /\ State(list, Top.solutions, errs).cut = 0
<1> DEFINE t == SeenStack
           s == Top.stack
           u == SeenLeft(c)
           out == outs[Len(jobs)]
           st == NowState
<1>1. /\ StackOf(t, nextPart, generation, Len(db)) /\ Len(t) = Len(s) /\ t # <<>>
      /\ \A k \in 1..(Len(s) - 1) : t[k] = s[k]
      /\ t[Len(t)] = Visited(Top) /\ Len(db) \in Nat /\ Top \in SearchJobs
      /\ Top.solutions \in Seq(Seq(Nat))
  <2>1. /\ Top = jobs[Len(jobs)] /\ jobs \in Seq(SearchJobs) /\ jobs # <<>>
    BY TurnSeen
  <2>2. Top \in SearchJobs
    BY <2>1
  <2> QED BY <2>2, TurnSeen
<1>2. s \in Seq(Contexts) /\ t \in Seq(Contexts) /\ s # <<>>
  BY <1>1 DEF SearchJobs, StackOf
<1>3. u \in Seq(Contexts) /\ Len(u) = Len(s) /\ u[Len(s)] = c /\ \A k \in 1..(Len(s) - 1) : u[k] = s[k]
  <2>1. c \in Contexts
    BY DEF OnlyIterator
  <2>2. u = SubSeq(s, 1, Len(s) - 1) \o <<c>>
    BY DEF SeenLeft, Front
  <2> HIDE DEF s, u
  <2> QED BY <1>2, <2>1, <2>2, LastReplaced
<1>4. Seen(db, generation, t, A, lv, st, out)
  BY DEF SeenBy
<1> HIDE DEF t, s, u, out, st
<1>5. SameWalks(db, list, generation) /\ SameLevels(lv, lv2, nextPart) /\ Stored(list)
  BY DEF World, ListInv
<1>6. Seen(list, gen, t, A, lv2, st, out)
  BY <1>1, <1>4, <1>5, SeenAside
<1>7. Leaves(t, c, u)
  BY <1>1, <1>2, <1>3 DEF Leaves, OnlyIterator
<1>8. State(list, Top.solutions, errs) \in States
  BY <1>1, <1>5, StateTyped DEF World
<1> QED BY <1>1, <1>2, <1>3, <1>5, <1>6, <1>7, <1>8 DEF Turned, t, s, u, out, st, State

\* The turn leaves the top context with another iterator, and no other one.
LEMMA TurnLeaves ==
  ASSUME IInv, NEW outs, NEW lv, Agreed(outs, lv), Top.stack # <<>>, NEW A, SeenBy(A, outs, lv),
         NEW list, NEW gen, NEW errs, NEW lv2, World(list, gen, errs, lv, lv2),
         NEW c, OnlyIterator(c),
         Ends(Again(TopAccount(A), Remaining(list, c.it), State(list, Top.solutions, errs)).search,
              TopAccount(A).end),
         NEW ks, TopOnly(jobs, ks), ks[Len(jobs)].stack = SeenLeft(c),
         ks[Len(jobs)].solutions = Top.solutions
  PROVE  Reached(ks, list, gen, errs, outs, lv2)
<1> DEFINE t == SeenStack
           u == SeenLeft(c)
           out == outs[Len(jobs)]
           st == NowState
           st2 == State(list, Top.solutions, errs)
<1>1. Turned(list, gen, t, A, lv2, st, out, c, u) /\ st2 \in States
  BY TurnTurned
<1>2. Ends(Again(A[Len(t)], Remaining(list, c.it), st2).search, A[Len(t)].end)
  BY DEF TopAccount
<1> HIDE DEF t, u, out, st, st2
<1>3. Runs(list, gen, u, lv2, st2, out)
  BY <1>1, <1>2, RunsLeft
<1>4. /\ Stored(list) /\ HasBuiltin(list) /\ errs \in Nat /\ LevelMap(lv2)
      /\ SameWalks(db, list, generation) /\ SameLevels(lv, lv2, nextPart)
  BY DEF World, ListInv
<1>5. ks[Len(jobs)].stack = u
  BY DEF u
<1>6. Runs(list, gen, u, lv2, State(list, Top.solutions, errs), outs[Len(jobs)])
  BY <1>3 DEF st2, out
<1> QED BY <1>4, <1>5, <1>6, TurnStep

\* The turn pushes a context on it.
LEMMA TurnPushes ==
  ASSUME IInv, NEW outs, NEW lv, Agreed(outs, lv), Top.stack # <<>>, NEW A, SeenBy(A, outs, lv),
         NEW list, NEW gen, NEW errs, NEW lv2, World(list, gen, errs, lv, lv2),
         NEW c, OnlyIterator(c), NEW d \in Contexts, NEW b, Starts(list, lv2, d, b),
         b.search.from = State(list, Top.solutions, errs),
         Within(Again(TopAccount(A), Remaining(list, c.it), b.end), b, d.part),
         NEW ks, TopOnly(jobs, ks), ks[Len(jobs)].stack = SeenLeft(c) \o <<d>>,
         ks[Len(jobs)].solutions = Top.solutions
  PROVE  Reached(ks, list, gen, errs, outs, lv2)
<1> DEFINE t == SeenStack
           u == SeenLeft(c)
           w == u \o <<d>>
           out == outs[Len(jobs)]
           st == NowState
<1>1. Turned(list, gen, t, A, lv2, st, out, c, u) /\ u \in Seq(Contexts)
  BY TurnTurned
<1>2. Within(Again(A[Len(t)], Remaining(list, c.it), b.end), b, d.part)
  BY DEF TopAccount
<1>3. ks[Len(jobs)].stack = w
  OBVIOUS
<1> HIDE DEF t, u, out, st
<1>4. Pushes(u, d, w)
  BY <1>1, OneMore DEF Pushes
<1> HIDE DEF w
<1>5. Runs(list, gen, w, lv2, b.search.from, out)
  BY <1>1, <1>2, <1>4, RunsPushed
<1>6. /\ Stored(list) /\ HasBuiltin(list) /\ errs \in Nat /\ LevelMap(lv2)
      /\ SameWalks(db, list, generation) /\ SameLevels(lv, lv2, nextPart)
  BY DEF World, ListInv
<1>7. Runs(list, gen, w, lv2, State(list, Top.solutions, errs), outs[Len(jobs)])
  BY <1>5 DEF out
<1> QED BY <1>3, <1>6, <1>7, TurnStep

\* What is known where the turn is at a goal.
AtItsGoal(s, end, lv) ==
  LET sc == Visited(Top) IN
  /\ OnTop(db, lv, sc, s, end, NowState)
  /\ s.goals # <<>>
  /\ Head(s.goals).goal = CurrentGoal(sc)
  /\ Head(s.goals).level = lv[sc.cursor[1].part]
  /\ Spells(NextTerm(sc.cursor), lv, Tail(s.goals))
  /\ IsValid(sc.it) => s.choices # <<>> /\ Gives(s, end)

\* At a goal, the search of the context on top starts with that goal.
LEMMA GoalSeen ==
  ASSUME IInv, NEW outs, NEW lv, Agreed(outs, lv), AtGoal(Visited(Top))
  PROVE  \E A : /\ SeenBy(A, outs, lv)
                /\ AtItsGoal(TopAccount(A).search, TopAccount(A).end, lv)
                /\ TopAccount(A) \in Accounts
<1> DEFINE sc == Visited(Top)
           t == SeenStack
           out == outs[Len(jobs)]
           st == NowState
<1>1. Top.stack # <<>> /\ sc.cursor # <<>>
  BY DEF AtGoal, InLoop
<1>2. PICK A : Seen(db, generation, t, A, lv, st, out)
  BY <1>1, TurnSeen
<1>3. /\ StackOf(t, nextPart, generation, Len(db)) /\ t[Len(t)] = sc /\ sc \in Contexts /\ t # <<>>
      /\ LevelMap(lv) /\ st.cut = 0 /\ ListInv(db, generation) /\ Len(db) \in Nat
  BY <1>1, TurnSeen
<1> DEFINE a == A[Len(t)]
<1>4. t \in Seq(Contexts) /\ InList(sc, generation, Len(db))
  <2>1. Len(t) \in 1..Len(t)
    BY <1>3 DEF StackOf
  <2> QED BY <1>3, <2>1 DEF StackOf
<1> HIDE DEF sc, t, st, out
<1>5. OnTop(db, lv, sc, a.search, a.end, st) /\ a \in Accounts
  BY <1>2, <1>3, <1>4, TopSearch
<1> HIDE DEF a
<1>6. /\ a.search.goals # <<>>
      /\ Head(a.search.goals).goal = CurrentGoal(sc)
      /\ Head(a.search.goals).level = lv[sc.cursor[1].part]
      /\ Spells(NextTerm(sc.cursor), lv, Tail(a.search.goals))
  BY <1>1, <1>3, <1>5, TopGoals DEF sc
<1>7. ASSUME IsValid(sc.it) PROVE a.search.choices # <<>> /\ Gives(a.search, a.end)
  <2>1. sc.it \in Iterators /\ sc.it.pos >= 1
    BY <1>3, <1>4 DEF InList, Contexts
  <2>2. ~sc.it.invalidated /\ CandidatesIn(db, sc.it) # {}
    BY <1>7 DEF IsValid, Candidates, CandidatesIn
  <2>3. Remaining(db, sc.it) # <<>>
    BY <1>3, <2>1, <2>2, RemainingTyped DEF ListInv
  <2> QED BY <1>5, <1>6, <2>3 DEF OnTop
<1> QED BY <1>2, <1>5, <1>6, <1>7 DEF SeenBy, AtItsGoal, TopAccount, a, sc, t, st, out

\* A context whose iterator is invalidated has nothing left to try.
LEMMA NothingLeft ==
  ASSUME IInv, Top.stack # <<>>, NEW list
  PROVE  LET c == Invalidated(Visited(Top))
         IN  OnlyIterator(c) /\ Remaining(list, c.it) = <<>>
<1> DEFINE sc == Visited(Top)
           c == Invalidated(sc)
<1>1. sc \in Contexts /\ InList(sc, generation, Len(db)) /\ Len(db) \in Nat
  BY VisitedTyped
<1>2. sc.visits # 0
  <2>1. \E cc \in Contexts : sc.visits = IF cc.visits = 0 THEN 1 ELSE 2
    <3>1. Top \in SearchJobs
      BY VisitedTyped
    <3>2. Last(Top.stack) \in Contexts
      BY <3>1 DEF SearchJobs, Last
    <3> DEFINE cc == Last(Top.stack)
               v == IF cc.visits = 0 THEN 1 ELSE 2
               i == IF Len(Top.stack) = 1 /\ cc.visits = 0 THEN NewIterator(generation) ELSE cc.it
    <3>3. sc = [cc EXCEPT !.visits = v, !.it = i]
      BY DEF Visited
    <3> HIDE DEF cc, i
    <3>4. cc \in Contexts
      BY <3>2 DEF cc
    <3>5. sc.visits = v
      BY <3>3, <3>4 DEF Contexts
    <3> QED BY <3>4, <3>5
  <2> QED BY <2>1
<1> HIDE DEF sc
<1>3. /\ c \in Contexts /\ c.part = sc.part /\ c.cursor = sc.cursor /\ c.uc = sc.uc
      /\ c.visits = sc.visits /\ c.it.pos = sc.it.pos /\ c.it.invalidated = TRUE
  BY <1>1 DEF Invalidated, Contexts, Iterators
<1>4. c.it.pos >= 1
  BY <1>1, <1>3 DEF InList
<1> HIDE DEF c
<1> QED BY <1>2, <1>3, <1>4 DEF OnlyIterator, Remaining, c, sc

\* A special form that succeeds is followed by what comes after it, once.
LEMMA ContinueAgrees ==
  ASSUME IInv, NEW outs, NEW lv, Agreed(outs, lv), AtGoal(Visited(Top)), NEW A, SeenBy(A, outs, lv),
         AtItsGoal(TopAccount(A).search, TopAccount(A).end, lv), TopAccount(A) \in Accounts,
         CurrentGoal(Visited(Top)).op \in Special,
         NEW list, NEW gen, NEW errs, World(list, gen, errs, lv, lv), NEW path \in Seq(Nat),
         Gives(Following(TopAccount(A).search, path, State(list, Top.solutions, errs)),
               TopAccount(A).end),
         NEW ks, TopOnly(jobs, ks),
         ks[Len(jobs)].stack
           = SeenLeft(Invalidated(Visited(Top))) \o Continue(Visited(Top), path, gen),
         ks[Len(jobs)].solutions = Top.solutions
  PROVE  Reached(ks, list, gen, errs, outs, lv)
<1> DEFINE sc == Visited(Top)
           a == TopAccount(A)
           s == a.search
           c == Invalidated(sc)
           d == NewContext(None, NextTerm(sc.cursor), path, gen)
           st == State(list, Top.solutions, errs)
           b == [search |-> Following(s, path, st), end |-> a.end]
           x == Again(a, <<>>, a.end)
<1>1. Top.stack # <<>> /\ sc.cursor # <<>>
  BY DEF AtGoal, InLoop
<1>2. OnlyIterator(c) /\ Remaining(list, c.it) = <<>>
  BY <1>1, NothingLeft
<1>3. /\ Turned(list, gen, SeenStack, A, lv, NowState, outs[Len(jobs)], c, SeenLeft(c))
      /\ st \in States /\ st.live = Live(list)
  BY <1>1, <1>2, TurnTurned
<1>4. /\ s.goals # <<>> /\ Head(s.goals).goal.op \in Special
      /\ Spells(NextTerm(sc.cursor), lv, Tail(s.goals))
      /\ s \in Searches /\ a.end \in States /\ Proper(s)
  BY DEF AtItsGoal, OnTop
<1>5. sc \in Contexts /\ gen \in Nat
  BY <1>1, VisitedTyped DEF World, ListInv
<1>6. NextTerm(sc.cursor) \in Seq(Frames)
  BY <1>1, <1>5, NextTermTyped DEF Contexts
<1>7. /\ d \in Contexts /\ d.part = None /\ d.cursor = NextTerm(sc.cursor) /\ d.uc = path
      /\ d.it = NewIterator(gen)
  BY <1>5, <1>6 DEF NewContext, NewIterator, Contexts, Iterators
<1>8. Starts(list, lv, d, b)
  <2> DEFINE goals == Tail(s.goals)
             depth == s.depth
             end == a.end
             cursor == NextTerm(sc.cursor)
  <2>1. Gives(Whole(goals, depth, path, st), end) /\ Following(s, path, st) = Whole(goals, depth, path, st)
    BY DEF Following
  <2>2. ListInv(list, gen) /\ LevelMap(lv)
    BY DEF World
  <2>3. Spells(d.cursor, lv, goals)
    BY <1>4, <1>7
  <2> HIDE DEF goals, depth, end, cursor, st, d
  <2>4. Starts(list, lv, d, [search |-> Whole(goals, depth, path, st), end |-> end])
    BY <1>3, <1>7, <2>1, <2>2, <2>3, StartsWhole
  <2> QED BY <2>1, <2>4 DEF end
<1>9. b.end = a.end /\ b.search = Following(s, path, st)
  OBVIOUS
<1>10. b.search.depth = s.depth /\ b.search.from = st
  BY <1>9 DEF Following, Whole, Rest
<1>11. /\ x.end = a.end /\ x.search.goals = s.goals /\ x.search.depth = s.depth
       /\ x.search.choices = <<>> /\ x.search.from = a.end
  <2>1. <<>> \in Seq(Placed)
    OBVIOUS
  <2> HIDE DEF a
  <2> QED BY <1>4, <2>1, AgainTyped DEF a
<1> HIDE DEF sc, a, c, d, st, b, x
<1>12. Within(x, b, d.part)
  <2>1. ~Calls(x.search)
    BY <1>4, <1>11 DEF Calls
  <2>2. Ends(x.search, x.end)
    BY <1>4, <1>11, <2>1 DEF Ends
  <2>3. s.depth \in Nat
    BY <1>4, SearchTyped
  <2> QED BY <1>4, <1>7, <1>9, <1>10, <1>11, <2>1, <2>2, <2>3 DEF Within
<1>13. Within(Again(TopAccount(A), Remaining(list, c.it), b.end), b, d.part)
  BY <1>2, <1>9, <1>12 DEF x, a
<1>14. ks[Len(jobs)].stack = SeenLeft(c) \o <<d>>
  BY DEF Continue, c, d, sc
<1>15. b.search.from = State(list, Top.solutions, errs)
  BY <1>10 DEF st
<1> QED BY <1>1, <1>2, <1>7, <1>8, <1>13, <1>14, <1>15, TurnPushes

\* A special form that fails, or is an error, has nothing after it.
LEMMA FailAgrees ==
  ASSUME IInv, NEW outs, NEW lv, Agreed(outs, lv), AtGoal(Visited(Top)), NEW A, SeenBy(A, outs, lv),
         AtItsGoal(TopAccount(A).search, TopAccount(A).end, lv), TopAccount(A) \in Accounts,
         NEW list, NEW gen, NEW errs, World(list, gen, errs, lv, lv),
         TopAccount(A).end = State(list, Top.solutions, errs),
         NEW ks, TopOnly(jobs, ks), ks[Len(jobs)].stack = SeenLeft(Invalidated(Visited(Top))),
         ks[Len(jobs)].solutions = Top.solutions
  PROVE  Reached(ks, list, gen, errs, outs, lv)
<1> DEFINE c == Invalidated(Visited(Top))
           a == TopAccount(A)
           st == State(list, Top.solutions, errs)
           x == Again(a, <<>>, st)
<1>1. Top.stack # <<>> /\ a.search.goals # <<>>
  BY DEF AtGoal, InLoop, AtItsGoal
<1>2. OnlyIterator(c) /\ Remaining(list, c.it) = <<>>
  BY <1>1, NothingLeft
<1>3. st \in States /\ st.cut = 0
  BY <1>1, <1>2, TurnTurned
<1>4. /\ x.search.goals = a.search.goals /\ x.search.choices = <<>> /\ x.search.from = st
  <2>1. <<>> \in Seq(Placed)
    OBVIOUS
  <2> HIDE DEF a, st
  <2> QED BY <1>3, <2>1, AgainTyped DEF a
<1> HIDE DEF a, st, x, c
<1>5. Ends(x.search, a.end)
  <2>1. a.end = st
    BY DEF a, st
  <2> QED BY <1>1, <1>3, <1>4, <2>1 DEF Ends
<1>6. Ends(Again(TopAccount(A), Remaining(list, c.it), State(list, Top.solutions, errs)).search,
           TopAccount(A).end)
  BY <1>2, <1>5 DEF x, a, st
<1>7. ks[Len(jobs)].stack = SeenLeft(c)
  BY DEF c
<1> QED BY <1>1, <1>2, <1>6, <1>7, TurnLeaves

\* The stack of the job on top is replaced, with or without an error.
LeavesTop(ks, u) ==
  \/ ks = [jobs EXCEPT ![Len(jobs)].stack = u]
  \/ ks = [jobs EXCEPT ![Len(jobs)].stack = u, ![Len(jobs)].errors = @ + 1]

\* The job on top with another stack.
LEMMA JobLeft ==
  ASSUME IInv, NEW u, NEW ks, LeavesTop(ks, u)
  PROVE  TopOnly(jobs, ks) /\ ks[Len(jobs)].stack = u /\ ks[Len(jobs)].solutions = Top.solutions
<1>1. jobs \in Seq(SearchJobs) /\ jobs # <<>> /\ Top = jobs[Len(jobs)]
  BY DEF IInv, JobsInv, Top, Last
<1>2. CASE LastLeft(jobs, ks, u)
  BY <1>1, <1>2, LastJobLeft
<1>3. CASE ks = [jobs EXCEPT ![Len(jobs)].stack = u, ![Len(jobs)].errors = @ + 1]
  <2> DEFINE job == jobs[Len(jobs)]
             c == [job EXCEPT !.stack = u, !.errors = @ + 1]
  <2>1. job \in SearchJobs
    BY <1>1
  <2>2. Replaced(jobs, ks, c)
    BY <1>1, <1>3, <2>1 DEF Replaced
  <2>3. c.stack = u /\ c.solutions = job.solutions
    <3> HIDE DEF job
    <3> QED BY <2>1 DEF SearchJobs
  <2> HIDE DEF c
  <2>4. TopOnly(jobs, ks) /\ ks[Len(jobs)] = c
    BY <1>1, <2>2, JobReplaced
  <2> QED BY <1>1, <2>3, <2>4 DEF job
<1> QED BY <1>2, <1>3 DEF LeavesTop, LastLeft

\* What Leave does to the stack, ...
LEMMA LeavesWith ==
  ASSUME IInv, NEW c, NEW children, Leave(c, children)
  PROVE  LeavesTop(jobs', SeenLeft(c) \o children)
<1>1. jobs \in Seq(SearchJobs) /\ jobs # <<>> /\ Top = jobs[Len(jobs)]
  BY DEF IInv, JobsInv, Top, Last
<1> QED BY <1>1 DEF Leave, LeavesTop, SeenLeft

\* ... and without children.
LEMMA LeavesAlone ==
  ASSUME IInv, Top.stack # <<>>, NEW c, OnlyIterator(c), Leave(c, <<>>)
  PROVE  LeavesTop(jobs', SeenLeft(c))
<1>1. LeavesTop(jobs', SeenLeft(c) \o <<>>)
  BY LeavesWith
<1>2. c \in Contexts /\ Top.stack \in Seq(Contexts)
  BY VisitedTyped DEF OnlyIterator, SearchJobs
<1>3. SeenLeft(c) \in Seq(Contexts)
  <2> DEFINE s == Top.stack
  <2> HIDE DEF s
  <2>1. s \in Seq(Contexts) /\ s # <<>>
    BY <1>2 DEF s
  <2>2. SubSeq(s, 1, Len(s) - 1) \o <<c>> \in Seq(Contexts)
    BY <1>2, <2>1, LastReplaced
  <2> QED BY <2>2 DEF SeenLeft, Front, s
<1>4. SeenLeft(c) \o <<>> = SeenLeft(c)
  BY <1>3, ConcatEmptySeq
<1> QED BY <1>1, <1>4

\* The world a turn starts in, with or without one more error.
LEMMA SameWorldOf ==
  ASSUME IInv, NEW outs, NEW lv, Agreed(outs, lv)
  PROVE  World(db, generation, recorded, lv, lv) /\ World(db, generation, recorded + 1, lv, lv)
BY SameWorld DEF World, ListInv, IInv, DbInv

\* An assert() appends what the reference adds.
LEMMA CallAssertAgrees ==
  ASSUME IInv, NEW outs, NEW lv, Agreed(outs, lv), CallAssert
  PROVE  Reached(jobs', db', generation', recorded', outs, lv)
<1> DEFINE sc == Visited(Top)
           g == CurrentGoal(sc)
           fact == [head |-> g.atom, body |-> <<>>, builtin |-> FALSE,
                    appendGen |-> generation + 1, retireGen |-> 0]
           left == Invalidated(sc)
<1>1. AtGoal(sc) /\ IsValid(sc.it) /\ g.op = "assert"
  BY DEF CallAssert, AtSpecial
<1>2. PICK A : /\ SeenBy(A, outs, lv)
               /\ AtItsGoal(TopAccount(A).search, TopAccount(A).end, lv)
               /\ TopAccount(A) \in Accounts
  BY <1>1, GoalSeen
<1> DEFINE s == TopAccount(A).search
           end == TopAccount(A).end
           ss == Top.solutions
<1>3. /\ Gives(s, end) /\ s.goals # <<>> /\ Head(s.goals).goal = g /\ s.from = NowState
      /\ s.path = sc.uc /\ s \in Searches
  BY <1>1, <1>2 DEF AtItsGoal, OnTop
<1>4. IF g.atom \in Ground THEN Gives(Following(s, s.path, Added(NowState, g.atom)), end)
      ELSE end = Failed(NowState)
  <2> HIDE DEF s, end, g
  <2>1. Head(s.goals).goal.op = "assert"
    BY <1>1, <1>3
  <2> QED BY <1>3, <2>1, GivesAssert
<1>5. g.atom \in Atoms
  <2> HIDE DEF s, g
  <2>1. Head(s.goals).goal.op # "cut"
    BY <1>1, <1>3
  <2> QED BY <1>3, <2>1, GoalAtom
<1>6. Top.stack # <<>>
  BY <1>1 DEF AtGoal, InLoop
<1>7. /\ ss \in Seq(Seq(Nat)) /\ ListInv(db, generation) /\ LevelMap(lv) /\ sc \in Contexts
      /\ recorded \in Nat
  BY <1>6, TurnSeen, SameWorld
<1>8. sc.uc \in Seq(Nat)
  BY <1>7 DEF Contexts
<1>9. OnlyIterator(left)
  BY <1>6, NothingLeft
<1>10. CASE g.atom \in Ground
  <2>1. /\ db' = Append(db, fact) /\ generation' = generation + 1 /\ recorded' = recorded
        /\ Leave(left, Continue(sc, sc.uc, generation'))
    BY <1>10 DEF CallAssert
  <2>2. db' \in Seq(Clauses) /\ WellStamped(db', generation') /\ generation' \in Nat
    BY CallAssertKeeps DEF Kept, After
  <2>3. db \in Seq(Clauses) /\ Stored(db) /\ generation \in Nat
    BY <1>7 DEF ListInv, Stored
  <2> HIDE DEF fact
  <2>4. fact \in Clauses
    <3>1. db'[Len(db) + 1] = fact /\ Len(db') = Len(db) + 1
      BY <2>1, <2>3
    <3>2. Len(db) + 1 \in 1..Len(db')
      BY <2>3, <3>1
    <3> QED BY <2>2, <3>1, <3>2
  <2>5. Plain(fact) = Fact(g.atom) /\ Plain(fact) \in PlainClauses
    <3>1. Plain(fact) = Fact(g.atom)
      BY DEF Plain, Fact, fact
    <3>2. <<>> \in Seq(CaseGoals)
      OBVIOUS
    <3> HIDE DEF g
    <3>3. Fact(g.atom) \in PlainClauses
      BY <1>5, <3>2 DEF Fact, PlainClauses
    <3> QED BY <3>1, <3>3
  <2>6. MoreBy(db, generation, fact, db')
    BY <2>1 DEF MoreBy, fact
  <2> HIDE DEF g, sc, s, end, left
  <2>7. SameWalks(db, db', generation) /\ Stored(db') /\ HasBuiltin(db')
    BY <1>7, <2>4, <2>5, <2>6, ListMore
  <2>8. State(db', ss, recorded) = Added(NowState, g.atom)
    <3> HIDE DEF ss
    <3>1. State(db', ss, recorded) = Added(State(db, ss, recorded), g.atom)
      BY <1>7, <2>3, <2>4, <2>5, <2>6, MoreState
    <3> QED BY <3>1 DEF NowState, ss
  <2>9. World(db', generation', recorded, lv, lv)
    BY <1>7, <2>2, <2>7 DEF World, ListInv, SameLevels
  <2>10. Gives(Following(s, sc.uc, State(db', ss, recorded)), end)
    BY <1>3, <1>4, <1>10, <2>8
  <2>11. LeavesTop(jobs', SeenLeft(left) \o Continue(sc, sc.uc, generation'))
    BY <2>1, LeavesWith
  <2>12. /\ TopOnly(jobs, jobs') /\ jobs'[Len(jobs)].solutions = ss
         /\ jobs'[Len(jobs)].stack = SeenLeft(left) \o Continue(sc, sc.uc, generation')
    BY <2>11, JobLeft
  <2>13. g.op \in Special
    BY <1>1 DEF Special
  <2>14. Reached(jobs', db', generation', recorded, outs, lv)
    BY <1>1, <1>2, <1>8, <2>9, <2>10, <2>12, <2>13, ContinueAgrees DEF s, end, g, sc, left
  <2> QED BY <2>1, <2>14
<1>11. CASE g.atom \notin Ground
  <2>1. /\ db' = db /\ generation' = generation /\ recorded' = recorded + 1
        /\ jobs' = [jobs EXCEPT ![Len(jobs)].stack = Front(@) \o <<left>>,
                                ![Len(jobs)].errors = @ + 1]
    BY <1>11 DEF CallAssert, dbVars
  <2>2. LeavesTop(jobs', SeenLeft(left))
    <3>1. jobs \in Seq(SearchJobs) /\ jobs # <<>> /\ Top = jobs[Len(jobs)]
      BY DEF IInv, JobsInv, Top, Last
    <3> HIDE DEF left
    <3> QED BY <2>1, <3>1 DEF LeavesTop, SeenLeft
  <2> HIDE DEF g, sc, s, end, left, fact
  <2>3. /\ TopOnly(jobs, jobs') /\ jobs'[Len(jobs)].solutions = ss
        /\ jobs'[Len(jobs)].stack = SeenLeft(left)
    BY <2>2, JobLeft
  <2>4. end = State(db, ss, recorded + 1)
    <3>1. Stored(db)
      BY <1>7 DEF ListInv
    <3> HIDE DEF ss
    <3>2. State(db, ss, recorded + 1) = Failed(State(db, ss, recorded))
      BY <1>7, <3>1, MoreErrors
    <3> QED BY <1>4, <1>11, <3>2 DEF NowState, ss
  <2>5. World(db, generation, recorded + 1, lv, lv)
    BY SameWorldOf
  <2>6. Reached(jobs', db, generation, recorded + 1, outs, lv)
    BY <1>1, <1>2, <2>3, <2>4, <2>5, FailAgrees DEF s, end, sc, left
  <2> QED BY <2>1, <2>6
<1> QED BY <1>10, <1>11

\* The first clause of the list that matches is retired.
Retires(list, gen, a, k, less) ==
  /\ k \in Takes(list, a) /\ \A m \in Takes(list, a) : k <= m
  /\ LessBy(list, gen, k, less)

\* What a retract() takes from the list is what the reference removes.
LEMMA Retired ==
  ASSUME NEW list, Stored(list), NEW gen \in Nat, NEW a, NEW k, NEW less,
         Retires(list, gen, a, k, less), NEW ss \in Seq(Seq(Nat)), NEW errs \in Nat
  PROVE  State(less, ss, errs) = Removed(State(list, ss, errs), a)
<1>1. k \in Takes(list, a) /\ (\A m \in Takes(list, a) : k <= m) /\ LessBy(list, gen, k, less)
  BY DEF Retires
<1> QED BY <1>1, LessState

\* A retract() takes the fact that the reference takes.
LEMMA CallRetractAgrees ==
  ASSUME IInv, NEW outs, NEW lv, Agreed(outs, lv), CallRetract
  PROVE  Reached(jobs', db', generation', recorded', outs, lv)
<1> DEFINE sc == Visited(Top)
           g == CurrentGoal(sc)
           a == g.atom
           matches == {k \in 1..Len(db) : Retractable(db[k], a)}
           k == CHOOSE n \in matches : \A m \in matches : n <= m
           left == Invalidated(sc)
<1>1. AtGoal(sc) /\ IsValid(sc.it) /\ g.op = "retract" /\ recorded' = recorded
  BY DEF CallRetract, AtSpecial
<1>2. PICK A : /\ SeenBy(A, outs, lv)
               /\ AtItsGoal(TopAccount(A).search, TopAccount(A).end, lv)
               /\ TopAccount(A) \in Accounts
  BY <1>1, GoalSeen
<1> DEFINE s == TopAccount(A).search
           end == TopAccount(A).end
           ss == Top.solutions
<1>3. /\ Gives(s, end) /\ s.goals # <<>> /\ Head(s.goals).goal = g /\ s.from = NowState
      /\ s.path = sc.uc /\ s \in Searches
  BY <1>1, <1>2 DEF AtItsGoal, OnTop
<1>4. IF Matching(NowState, a) = {} THEN end = NowState
      ELSE Gives(Following(s, s.path, Removed(NowState, a)), end)
  <2> HIDE DEF s, end, g
  <2>1. Head(s.goals).goal.op = "retract"
    BY <1>1, <1>3
  <2> QED BY <1>3, <2>1, GivesRetract
<1>5. Top.stack # <<>>
  BY <1>1 DEF AtGoal, InLoop
<1>6. /\ ss \in Seq(Seq(Nat)) /\ ListInv(db, generation) /\ LevelMap(lv) /\ sc \in Contexts
      /\ recorded \in Nat
  BY <1>5, TurnSeen, SameWorld
<1>7. sc.uc \in Seq(Nat) /\ Stored(db) /\ generation \in Nat /\ Len(db) \in Nat
  BY <1>6 DEF Contexts, ListInv, Stored
<1>8. OnlyIterator(left)
  BY <1>5, NothingLeft
<1>9. matches = Takes(db, a)
  BY DEF Takes
<1>10. IF matches = {}
         THEN Leave(left, <<>>) /\ db' = db /\ generation' = generation
         ELSE /\ db' = [db EXCEPT ![k].retireGen = generation + 1]
              /\ generation' = generation + 1
              /\ Leave(left, Continue(sc, sc.uc, generation'))
  BY DEF CallRetract, dbVars
<1> HIDE DEF a
<1>11. Takes(db, a) = {} <=> Matching(NowState, a) = {}
  <2> HIDE DEF ss
  <2>1. Takes(db, a) = {} <=> Matching(State(db, ss, recorded), a) = {}
    BY <1>7, FirstMatch
  <2> QED BY <2>1 DEF NowState, ss
<1>12. CASE matches = {}
  <2>1. LeavesTop(jobs', SeenLeft(left))
    BY <1>5, <1>8, <1>10, <1>12, LeavesAlone
  <2>2. db' = db /\ generation' = generation
    BY <1>10, <1>12
  <2>3. Matching(NowState, a) = {}
    BY <1>9, <1>11, <1>12
  <2> HIDE DEF g, sc, s, end, left, matches, k
  <2>4. /\ TopOnly(jobs, jobs') /\ jobs'[Len(jobs)].solutions = ss
        /\ jobs'[Len(jobs)].stack = SeenLeft(left)
    BY <2>1, JobLeft
  <2>5. end = State(db, ss, recorded)
    BY <1>4, <2>3 DEF NowState
  <2>6. World(db, generation, recorded, lv, lv)
    BY SameWorldOf
  <2>7. Reached(jobs', db, generation, recorded, outs, lv)
    BY <1>1, <1>2, <2>4, <2>5, <2>6, FailAgrees DEF s, end, sc, left
  <2> QED BY <1>1, <2>2, <2>7
<1>13. CASE matches # {}
  <2>1. /\ db' = [db EXCEPT ![k].retireGen = generation + 1] /\ generation' = generation + 1
        /\ Leave(left, Continue(sc, sc.uc, generation'))
    BY <1>10, <1>13
  <2>2. db' \in Seq(Clauses) /\ WellStamped(db', generation') /\ generation' \in Nat
    BY CallRetractKeeps DEF Kept, After
  <2>3. k \in matches /\ \A m \in matches : k <= m
    <3>1. matches \in SUBSET Nat
      OBVIOUS
    <3> HIDE DEF matches
    <3>2. \E n \in matches : \A m \in matches : n <= m
      BY <1>13, <3>1, LeastOfAny
    <3> QED BY <3>2
  <2>4. Matching(NowState, a) # {}
    BY <1>9, <1>11, <1>13
  <2>5. k \in 1..Len(db) /\ ~IsRetired(db[k]) /\ ~db[k].builtin
    BY <2>3 DEF Retractable
  <2> HIDE DEF g, sc, s, end, left, k, matches
  <2>6. LessBy(db, generation, k, db')
    BY <2>1, <2>5 DEF LessBy
  <2>7. SameWalks(db, db', generation) /\ Stored(db') /\ HasBuiltin(db')
    BY <1>6, <2>5, <2>6, ListLess
  <2>8. State(db', ss, recorded) = Removed(NowState, a)
    <3>1. k \in Takes(db, a) /\ \A m \in Takes(db, a) : k <= m
      BY <1>9, <2>3
    <3> HIDE DEF ss
    <3>2. State(db', ss, recorded) = Removed(State(db, ss, recorded), a)
      <4> DEFINE less == db'
      <4>1. LessBy(db, generation, k, less) /\ ss \in Seq(Seq(Nat)) /\ recorded \in Nat
            /\ Stored(db) /\ generation \in Nat
        BY <1>6, <1>7, <2>6
      <4> HIDE DEF less
      <4>2. State(less, ss, recorded) = Removed(State(db, ss, recorded), a)
        BY <3>1, <4>1, Retired DEF Retires
      <4> QED BY <4>2 DEF less
    <3> QED BY <3>2 DEF NowState, ss
  <2>9. World(db', generation', recorded, lv, lv)
    BY <1>6, <2>2, <2>7 DEF World, ListInv, SameLevels
  <2>10. Gives(Following(s, sc.uc, State(db', ss, recorded)), end)
    BY <1>3, <1>4, <2>4, <2>8
  <2>11. LeavesTop(jobs', SeenLeft(left) \o Continue(sc, sc.uc, generation'))
    BY <2>1, LeavesWith
  <2>12. /\ TopOnly(jobs, jobs') /\ jobs'[Len(jobs)].solutions = ss
         /\ jobs'[Len(jobs)].stack = SeenLeft(left) \o Continue(sc, sc.uc, generation')
    BY <2>11, JobLeft
  <2>13. g.op \in Special
    BY <1>1 DEF Special
  <2>14. Reached(jobs', db', generation', recorded, outs, lv)
    BY <1>1, <1>2, <1>7, <2>9, <2>10, <2>12, <2>13, ContinueAgrees DEF s, end, g, sc, left
  <2> QED BY <1>1, <2>14
<1> QED BY <1>12, <1>13

\* Unification with a clause is what the reference says of the clause.
LEMMA UnifiedIs ==
  ASSUME NEW c, NEW g, g.op \in {"call", "not"}, g.atom \in Atoms
  PROVE  LET r == UnificationResult(c, g)
         IN  /\ r \in {"last", "not", "error"}
             /\ r = "error" <=> Errs(Plain(c), g)
             /\ r # "error" => (r = "last" <=> Holds(Plain(c), g))
<1> DEFINE a == g.atom
           same == c.head[1] = a[1]
<1>1. Outcome[a] \in {"last", "not", "error"}
  BY ReferenceAssumption
<1>2. Plain(c).head = c.head /\ Plain(c).builtin = c.builtin
  BY DEF Plain
<1>3. Errs(Plain(c), g) <=> same /\ c.builtin /\ Outcome[a] = "error"
  BY <1>2 DEF Errs, SamePredicate
<1>4. Holds(Plain(c), g)
        <=> same /\ ((IF c.builtin THEN Outcome[a] = "last" ELSE c.head = a) <=> g.op # "not")
  BY <1>2 DEF Holds, SamePredicate
<1>5. Unified(c, a) = IF ~same THEN "not" ELSE IF c.builtin THEN Outcome[a]
                      ELSE IF c.head = a THEN "last" ELSE "not"
  BY DEF Unified
<1>6. UnificationResult(c, g)
        = IF g.op # "not" \/ Unified(c, a) = "error" THEN Unified(c, a)
          ELSE IF Unified(c, a) = "not" /\ same THEN "last" ELSE "not"
  BY DEF UnificationResult
<1> HIDE DEF a
<1>7. CASE ~same
  BY <1>1, <1>3, <1>4, <1>5, <1>6, <1>7
<1>8. CASE same /\ c.builtin
  BY <1>1, <1>3, <1>4, <1>5, <1>6, <1>8
<1>9. CASE same /\ ~c.builtin
  BY <1>1, <1>3, <1>4, <1>5, <1>6, <1>9
<1> QED BY <1>7, <1>8, <1>9

\* A call that comes back goes on with its other choices, or is cut.
LEMMA EndsResumed ==
  ASSUME NEW s \in Searches, s.goals # <<>>, Head(s.goals).goal.op \notin Special,
         s.choices # <<>>, NEW done \in States, NEW y, GoesOn(s, done, y)
  PROVE  Ends(Resumed(s, done), y)
<1> DEFINE r == Resumed(s, done)
<1>1. r.from = done /\ r.goals = s.goals /\ r.depth = s.depth /\ r.choices = Tail(s.choices)
  BY ResumedTyped
<1>2. Calls(r)
  BY <1>1 DEF Calls
<1>3. CASE done.cut # 0
  BY <1>1, <1>2, <1>3 DEF GoesOn, Ends
<1>4. CASE done.cut = 0
  <2>1. Gives(r, y)
    BY <1>4 DEF GoesOn
  <2> HIDE DEF r
  <2>2. r.choices = <<>> => y = r.from
    <3>1. r.goals # <<>> /\ Head(r.goals).goal.op \notin Special
      BY <1>2 DEF Calls
    <3> QED BY <2>1, <3>1, GivesCall
  <2>3. r.from.cut = 0
    BY <1>1, <1>4 DEF r
  <2>4. Ends(r, y)
    BY <2>1, <2>2, <2>3 DEF Ends
  <2> QED BY <2>4 DEF r
<1> QED BY <1>3, <1>4

\* The next clause is tried on the goal.
Trying(A, outs, lv) ==
  /\ SeenBy(A, outs, lv)
  /\ AtItsGoal(TopAccount(A).search, TopAccount(A).end, lv)
  /\ TopAccount(A) \in Accounts
  /\ AtGoal(Visited(Top)) /\ IsValid(Visited(Top).it)
  /\ CurrentGoal(Visited(Top)).op \in {"call", "not"}

Tried1 == GetClause(Visited(Top).it)
TriedLeft == [Visited(Top) EXCEPT !.it.pos = Tried1 + 1]

\* The candidate that is tried is the first choice, and those left are the
\* others.
LEMMA TryingLeft ==
  ASSUME IInv, NEW outs, NEW lv, Agreed(outs, lv), NEW A, Trying(A, outs, lv)
  PROVE  LET s == TopAccount(A).search
         IN  /\ OnlyIterator(TriedLeft) /\ Tried1 \in 1..Len(db) /\ Top.stack # <<>>
             /\ s.choices # <<>> /\ Head(s.choices) = [id |-> Tried1, clause |-> Plain(db[Tried1])]
             /\ Tail(s.choices) = Remaining(db, TriedLeft.it)
             /\ s \in Searches /\ s.goals # <<>> /\ s.from = NowState /\ s.path = Visited(Top).uc
             /\ Head(s.goals).goal = CurrentGoal(Visited(Top))
             /\ Head(s.goals).goal.op \notin Special /\ Head(s.goals).goal.atom \in Atoms
             /\ TopAccount(A).end \in States /\ Proper(s)
             /\ \E done \in States : Tries(s, done) /\ GoesOn(s, done, TopAccount(A).end)
<1> DEFINE sc == Visited(Top)
           s == TopAccount(A).search
           end == TopAccount(A).end
           it == sc.it
           left == TriedLeft
<1>1. Top.stack # <<>>
  BY DEF Trying, AtGoal, InLoop
<1>2. sc \in Contexts /\ InList(sc, generation, Len(db)) /\ sc.visits # 0 /\ Stored(db)
  BY <1>1, VisitedTyped, TurnSeen DEF ListInv
<1>3. it \in Iterators /\ it.pos >= 1 /\ ~it.invalidated /\ CandidatesIn(db, it) # {}
      /\ Candidates(it) = CandidatesIn(db, it)
  BY <1>2 DEF InList, Contexts, Trying, IsValid, Candidates, CandidatesIn
<1>4. Tried1 = CHOOSE i \in CandidatesIn(db, it) : \A n \in CandidatesIn(db, it) : i <= n
  BY <1>3 DEF Tried1, GetClause
<1> HIDE DEF sc
<1>5. /\ Tried1 \in 1..Len(db)
      /\ Remaining(db, it) # <<>>
      /\ Head(Remaining(db, it)) = [id |-> Tried1, clause |-> Plain(db[Tried1])]
      /\ Tail(Remaining(db, it)) = Remaining(db, [it EXCEPT !.pos = Tried1 + 1])
      /\ [it EXCEPT !.pos = Tried1 + 1] \in Iterators
  <2> HIDE DEF it
  <2>1. LET C == CandidatesIn(db, it)
            k == CHOOSE i \in C : \A n \in C : i <= n
        IN  /\ k \in 1..Len(db)
            /\ Remaining(db, it) # <<>>
            /\ Head(Remaining(db, it)) = [id |-> k, clause |-> Plain(db[k])]
            /\ Tail(Remaining(db, it)) = Remaining(db, [it EXCEPT !.pos = k + 1])
            /\ [it EXCEPT !.pos = k + 1] \in Iterators
    BY <1>2, <1>3, ChosenRemaining
  <2> QED BY <1>4, <2>1
<1>6. /\ left \in Contexts /\ left.part = sc.part /\ left.cursor = sc.cursor /\ left.uc = sc.uc
      /\ left.visits = sc.visits /\ left.it = [it EXCEPT !.pos = Tried1 + 1] /\ left.it.pos >= 1
  <2> DEFINE i == [it EXCEPT !.pos = Tried1 + 1]
  <2>1. i \in Iterators /\ i.pos = Tried1 + 1 /\ Tried1 + 1 >= 1
    <3>1. i.pos = Tried1 + 1
      BY <1>3 DEF Iterators
    <3>2. Tried1 \in Nat
      BY <1>5
    <3> QED BY <1>5, <3>1, <3>2
  <2>2. left = [sc EXCEPT !.it = i]
    BY DEF TriedLeft, sc
  <2> HIDE DEF i, left
  <2>3. left \in Contexts /\ left.part = sc.part /\ left.cursor = sc.cursor /\ left.uc = sc.uc
        /\ left.visits = sc.visits /\ left.it = i
    BY <1>2, <2>1, <2>2 DEF Contexts
  <2> QED BY <2>1, <2>3 DEF i
<1>7. OnlyIterator(left)
  BY <1>2, <1>6 DEF OnlyIterator, sc
<1>8. /\ s \in Searches /\ s.goals # <<>> /\ s.from = NowState /\ s.path = sc.uc /\ Proper(s)
      /\ end \in States /\ Head(s.goals).goal = CurrentGoal(sc) /\ s.choices = Remaining(db, it)
      /\ Gives(s, end) /\ CurrentGoal(sc).op \in {"call", "not"}
  BY DEF Trying, AtItsGoal, OnTop, sc
<1> HIDE DEF s, end, left, it
<1>9. Head(s.goals).goal.op \notin Special /\ Head(s.goals).goal.op # "cut"
  BY <1>8 DEF Special
<1>10. Head(s.goals).goal.atom \in Atoms
  BY <1>8, <1>9, GoalAtom
<1>11. \E done \in States : Tries(s, done) /\ GoesOn(s, done, end)
  BY <1>5, <1>8, <1>9, GivesCall
<1> QED BY <1>1, <1>5, <1>6, <1>7, <1>8, <1>9, <1>10, <1>11 DEF s, end, left, it, sc

\* A clause that does not unify, or is an error, leaves the other ones.
LEMMA TriedLeaves ==
  ASSUME IInv, NEW outs, NEW lv, Agreed(outs, lv), NEW A, Trying(A, outs, lv),
         NEW errs, World(db, generation, errs, lv, lv),
         GoesOn(TopAccount(A).search, State(db, Top.solutions, errs), TopAccount(A).end),
         LeavesTop(jobs', SeenLeft(TriedLeft))
  PROVE  Reached(jobs', db, generation, errs, outs, lv)
<1> DEFINE a == TopAccount(A)
           s == a.search
           st == State(db, Top.solutions, errs)
           left == TriedLeft
<1>1. /\ OnlyIterator(left) /\ Top.stack # <<>> /\ s.choices # <<>>
      /\ Tail(s.choices) = Remaining(db, left.it) /\ s \in Searches /\ s.goals # <<>>
      /\ Head(s.goals).goal.op \notin Special
  BY TryingLeft
<1>2. SeenBy(A, outs, lv)
  BY DEF Trying
<1>3. st \in States
  BY <1>1, <1>2, TurnTurned
<1>4. Ends(Resumed(s, st), a.end)
  <2> HIDE DEF s, st
  <2>1. GoesOn(s, st, a.end)
    BY DEF s, st
  <2> HIDE DEF a
  <2> QED BY <1>1, <1>3, <2>1, EndsResumed
<1>5. Again(a, Remaining(db, left.it), st).search = Resumed(s, st)
  BY <1>1 DEF Again, Resumed
<1>6. /\ TopOnly(jobs, jobs') /\ jobs'[Len(jobs)].stack = SeenLeft(left)
      /\ jobs'[Len(jobs)].solutions = Top.solutions
  BY JobLeft
<1>7. Ends(Again(TopAccount(A), Remaining(db, left.it), State(db, Top.solutions, errs)).search,
           TopAccount(A).end)
  BY <1>4, <1>5
<1> HIDE DEF left
<1> QED BY <1>1, <1>2, <1>6, <1>7, TurnLeaves

\* The context d is for what the reference enters.
Entering(s, d, lv, uc) ==
  /\ d \in Contexts /\ d.it = NewIterator(generation) /\ d.uc = uc
  /\ Spells(d.cursor, lv, Entered(s).goals)
  /\ d.part # None => lv[d.part] = s.depth + 1

\* A clause that unifies is entered.
LEMMA TriedEnters ==
  ASSUME IInv, NEW outs, NEW lv, Agreed(outs, lv), NEW A, Trying(A, outs, lv),
         NEW lv2, World(db, generation, recorded, lv, lv2),
         NEW done \in States, Gives(Entered(TopAccount(A).search), done),
         GoesOn(TopAccount(A).search, done, TopAccount(A).end),
         NEW d, Entering(TopAccount(A).search, d, lv2, Append(Visited(Top).uc, Tried1)),
         LeavesTop(jobs', SeenLeft(TriedLeft) \o <<d>>)
  PROVE  Reached(jobs', db, generation, recorded, outs, lv2)
<1> DEFINE a == TopAccount(A)
           s == a.search
           st == NowState
           left == TriedLeft
           uc == Append(Visited(Top).uc, Tried1)
           e == Entered(s)
           b == [search |-> e, end |-> done]
           x == Again(a, Remaining(db, left.it), done)
<1>1. /\ OnlyIterator(left) /\ Top.stack # <<>> /\ s.choices # <<>> /\ s.from = st
      /\ Tail(s.choices) = Remaining(db, left.it) /\ s \in Searches /\ s.goals # <<>>
      /\ Head(s.goals).goal.op \notin Special /\ s.path = Visited(Top).uc /\ Proper(s)
      /\ Head(s.choices).id = Tried1 /\ a \in Accounts
  BY TryingLeft DEF Trying
<1>2. SeenBy(A, outs, lv) /\ ListInv(db, generation) /\ LevelMap(lv2)
  BY DEF Trying, World
<1>3. Ends(Resumed(s, done), a.end)
  <2> HIDE DEF s
  <2>1. GoesOn(s, done, a.end)
    BY DEF s
  <2> HIDE DEF a
  <2> QED BY <1>1, <2>1, EndsResumed
<1>4. x.search = Resumed(s, done) /\ x.end = a.end
  BY <1>1 DEF Again, Resumed
<1>5. /\ x.search.from = done /\ x.search.goals = s.goals /\ x.search.depth = s.depth
  BY <1>4 DEF Resumed, Rest
<1>6. /\ e.goals = Entered(s).goals /\ e.depth = s.depth + 1 /\ e.path = uc /\ e.from = st
      /\ e = Whole(e.goals, s.depth + 1, uc, st)
  BY <1>1 DEF Entered, Whole, Rest
<1>7. b.search = e /\ b.end = done /\ st.live = Live(db)
  BY DEF NowState, State
<1>8. Starts(db, lv2, d, b)
  <2> DEFINE goals == e.goals
             depth == s.depth + 1
             gen == generation
  <2>1. Gives(Whole(goals, depth, uc, st), done)
    BY <1>6
  <2>2. d.it = NewIterator(gen) /\ d.uc = uc /\ Spells(d.cursor, lv2, goals)
        /\ (d.part # None => lv2[d.part] = depth)
    BY DEF Entering
  <2>3. b = [search |-> Whole(goals, depth, uc, st), end |-> done]
    BY <1>6
  <2> HIDE DEF goals, depth, uc, st, b, gen
  <2>4. ListInv(db, gen) /\ st.live = Live(db) /\ LevelMap(lv2)
    BY <1>2, <1>7 DEF gen
  <2>5. Starts(db, lv2, d, [search |-> Whole(goals, depth, uc, st), end |-> done])
    BY <2>1, <2>2, <2>4, StartsWhole
  <2> QED BY <2>3, <2>5
<1> HIDE DEF a, s, left, uc, e, b, x, st
<1>9. Within(x, b, d.part)
  <2>1. Calls(x.search)
    BY <1>1, <1>5 DEF Calls
  <2>2. Ends(x.search, x.end)
    BY <1>3, <1>4
  <2> QED BY <1>1, <1>5, <1>6, <1>7, <2>1, <2>2 DEF Within
<1>10. Within(Again(TopAccount(A), Remaining(db, left.it), b.end), b, d.part)
  BY <1>7, <1>9 DEF x, a
<1>11. b.search.from = State(db, Top.solutions, recorded)
  BY <1>6, <1>7 DEF st, NowState
<1>12. /\ TopOnly(jobs, jobs') /\ jobs'[Len(jobs)].stack = SeenLeft(left) \o <<d>>
       /\ jobs'[Len(jobs)].solutions = Top.solutions
  BY JobLeft DEF left
<1>13. d \in Contexts
  BY DEF Entering
<1> QED BY <1>1, <1>2, <1>8, <1>10, <1>11, <1>12, <1>13, TurnPushes

\* The frames of the top context are of goal parts that there are.
LEMMA PartsBelow ==
  ASSUME IInv, NEW outs, NEW lv, Agreed(outs, lv), Top.stack # <<>>
  PROVE  LET sc == Visited(Top)
         IN  \A f \in 1..Len(sc.cursor) : sc.cursor[f].part \in Nat /\ sc.cursor[f].part < nextPart
<1> DEFINE sc == Visited(Top)
           t == SeenStack
<1>1. StackOf(t, nextPart, generation, Len(db)) /\ t # <<>> /\ t[Len(t)] = sc /\ sc \in Contexts
  BY TurnSeen
<1>2. t \in Seq(Contexts) /\ StackInv(t, nextPart) /\ Len(t) \in 1..Len(t)
  BY <1>1 DEF StackOf
<1> HIDE DEF sc, t
<1> SUFFICES ASSUME NEW f \in 1..Len(sc.cursor)
             PROVE  sc.cursor[f].part \in Nat /\ sc.cursor[f].part < nextPart
  BY DEF sc
<1>3. PICK m \in 1..Len(t) : t[m].part = sc.cursor[f].part
  BY <1>1, <1>2 DEF StackInv
<1>4. sc.cursor[f].part \in Nat
  <2>1. sc.cursor \in Seq(Frames)
    BY <1>1 DEF Contexts
  <2>2. sc.cursor[f] \in Frames
    BY <2>1
  <2> QED BY <2>2 DEF Frames
<1>5. t[m].part # None
  BY <1>3, <1>4, SolverAssumption
<1> QED BY <1>2, <1>3, <1>4, <1>5 DEF StackInv

\* The body of a clause is entered with a goal part of its own.
LEMMA EntersBody ==
  ASSUME IInv, NEW outs, NEW lv, Agreed(outs, lv), NEW A, Trying(A, outs, lv),
         CurrentGoal(Visited(Top)).op = "call",
         NEW uc \in Seq(Nat)
  PROVE  LET s == TopAccount(A).search
             lv2 == [lv EXCEPT ![nextPart] = s.depth + 1]
             d == NewContext(nextPart, EnterBody(Visited(Top).cursor, nextPart, db[Tried1].body),
                             uc, generation)
         IN  /\ World(db, generation, recorded, lv, lv2)
             /\ db[Tried1].body # <<>> => Entering(s, d, lv2, uc)
<1> DEFINE sc == Visited(Top)
           s == TopAccount(A).search
           depth == s.depth + 1
           body == db[Tried1].body
           lv2 == [lv EXCEPT ![nextPart] = depth]
           cs == sc.cursor
           next == nextPart
           d == NewContext(next, EnterBody(cs, next, body), uc, generation)
<1>1. /\ Top.stack # <<>> /\ Tried1 \in 1..Len(db) /\ s \in Searches /\ s.goals # <<>>
      /\ Head(s.choices) = [id |-> Tried1, clause |-> Plain(db[Tried1])]
      /\ Head(s.goals).goal = CurrentGoal(sc)
  BY TryingLeft
<1>2. /\ nextPart \in Nat /\ generation \in Nat /\ db \in Seq(Clauses) /\ LevelMap(lv) /\ sc \in Contexts
      /\ ListInv(db, generation) /\ recorded \in Nat /\ SameWalks(db, db, generation)
  BY <1>1, TurnSeen, SameWorld DEF IInv, DbInv, SliceInv
<1>3. depth \in Nat /\ body \in Seq(Goals) /\ cs \in Seq(Frames) /\ cs # <<>>
  <2>1. s.depth \in Nat
    BY <1>1, SearchTyped
  <2>2. db[Tried1] \in Clauses
    BY <1>1, <1>2
  <2>3. cs # <<>>
    BY DEF Trying, AtGoal
  <2>4. body \in Seq(Goals)
    <3> DEFINE cl == db[Tried1]
    <3> HIDE DEF cl
    <3>1. cl \in Clauses
      BY <2>2 DEF cl
    <3>2. cl.body \in Seq(Goals)
      BY <3>1 DEF Clauses
    <3> QED BY <3>2 DEF cl
  <2>5. cs \in Seq(Frames)
    <3> HIDE DEF sc
    <3> QED BY <1>2 DEF Contexts
  <2> QED BY <2>1, <2>3, <2>4, <2>5
<1>4. lv2 \in [Nat -> Nat] /\ lv2[next] = depth /\ SameLevels(lv, lv2, next)
  <2>1. lv \in [Nat -> Nat]
    BY <1>2 DEF LevelMap
  <2>2. next \in Nat /\ lv2 = [lv EXCEPT ![next] = depth]
    BY <1>2
  <2> HIDE DEF depth, lv2, next
  <2>3. lv2 \in [Nat -> Nat] /\ lv2[next] = depth /\ \A p \in Nat : p # next => lv2[p] = lv[p]
    BY <1>3, <2>1, <2>2
  <2>4. \A p \in Nat : p < next => p # next
    BY <2>2
  <2> QED BY <2>3, <2>4 DEF SameLevels
<1>5. World(db, generation, recorded, lv, lv2)
  BY <1>2, <1>4 DEF World, LevelMap
<1>6. Spells(cs, lv, s.goals)
  BY DEF Trying, AtItsGoal, OnTop
<1> HIDE DEF s, lv2, cs
<1>7. Spells(cs, lv2, s.goals)
  <2>1. \A f \in 1..Len(cs) : cs[f].part \in Nat /\ cs[f].part < next
    BY <1>1, PartsBelow DEF cs
  <2>2. \A f \in 1..Len(cs) : lv2[cs[f].part] = lv[cs[f].part]
    BY <1>4, <2>1 DEF SameLevels
  <2> QED BY <1>6, <2>2, SpellsOther
<1> HIDE DEF body, next, depth
<1>8. ASSUME body # <<>> PROVE Entering(s, d, lv2, uc)
  <2> DEFINE cursor == EnterBody(cs, next, body)
  <2>1. next \in Nat /\ next # None
    BY <1>2, SolverAssumption DEF next
  <2>2. Spells(cursor, lv2, At(body, lv2[next]) \o Tail(s.goals))
    BY <1>3, <1>4, <1>7, <2>1, SpellsBody
  <2>3. Entered(s).goals = At(body, depth) \o Tail(s.goals)
    <3>1. Head(s.goals).goal.op # "not"
      BY <1>1
    <3>2. Head(s.choices).clause.body = body
      BY <1>1 DEF Plain, body
    <3> QED BY <3>1, <3>2 DEF Entered, Whole, Rest, depth
  <2>4. d \in Contexts
    <3> DEFINE len == Len(db)
    <3>1. len \in Nat
      BY <1>2
    <3> HIDE DEF d
    <3>2. d = NewContext(next, EnterBody(cs, next, body), uc, generation)
      BY DEF d
    <3>3. cs = sc.cursor
      BY DEF cs
    <3> HIDE DEF sc, len
    <3>4. LET c == NewContext(next, EnterBody(sc.cursor, next, body), uc, generation)
          IN  Follows(c, sc, next, next + 1)
      BY <1>2, <1>3, <1>8, <2>1, <3>1, <3>3, EnterFollows
    <3> QED BY <3>2, <3>3, <3>4 DEF Follows
  <2> HIDE DEF cursor
  <2>5. d.it = NewIterator(generation) /\ d.uc = uc /\ d.cursor = cursor /\ d.part = next
    BY DEF NewContext, cursor
  <2> HIDE DEF d
  <2> QED BY <1>4, <2>2, <2>3, <2>4, <2>5 DEF Entering, depth
<1> QED BY <1>5, <1>8 DEF s, lv2, cs, depth, next, d, body, sc

\* A fact, or a negated goal, has no body.
LEMMA EntersNothing ==
  ASSUME IInv, NEW outs, NEW lv, Agreed(outs, lv), NEW A, Trying(A, outs, lv),
         CurrentGoal(Visited(Top)).op = "not" \/ db[Tried1].body = <<>>,
         NEW uc \in Seq(Nat)
  PROVE  Entering(TopAccount(A).search, NewContext(None, NextTerm(Visited(Top).cursor), uc, generation),
                  lv, uc)
<1> DEFINE sc == Visited(Top)
           s == TopAccount(A).search
           body == db[Tried1].body
           cursor == NextTerm(sc.cursor)
           d == NewContext(None, cursor, uc, generation)
<1>1. /\ Top.stack # <<>> /\ s \in Searches /\ s.goals # <<>>
      /\ Head(s.choices) = [id |-> Tried1, clause |-> Plain(db[Tried1])]
      /\ Head(s.goals).goal = CurrentGoal(sc)
  BY TryingLeft
<1>2. sc \in Contexts /\ generation \in Nat
  BY <1>1, TurnSeen DEF IInv, DbInv
<1>3. sc.cursor # <<>> /\ Spells(cursor, lv, Tail(s.goals))
  BY DEF Trying, AtGoal, AtItsGoal
<1>4. cursor \in Seq(Frames)
  BY <1>2, <1>3, NextTermTyped DEF Contexts
<1>5. Entered(s).goals = Tail(s.goals)
  <2>1. (IF Head(s.goals).goal.op = "not" THEN <<>> ELSE Head(s.choices).clause.body) = <<>>
    BY <1>1 DEF Plain
  <2>2. At(<<>>, s.depth + 1) = <<>>
    BY DEF At
  <2>3. Tail(s.goals) \in Seq(Levelled)
    BY <1>1, TailOfGoals
  <2>4. <<>> \o Tail(s.goals) = Tail(s.goals)
    BY <2>3, ConcatEmptySeq
  <2> HIDE DEF s
  <2>5. Entered(s).goals = At(<<>>, s.depth + 1) \o Tail(s.goals)
    BY <2>1 DEF Entered, Whole, Rest
  <2> QED BY <2>2, <2>4, <2>5
<1> HIDE DEF cursor, s
<1>6. /\ d \in Contexts /\ d.it = NewIterator(generation) /\ d.uc = uc /\ d.cursor = cursor
      /\ d.part = None
  BY <1>2, <1>4 DEF NewContext, NewIterator, Contexts, Iterators
<1> HIDE DEF d
<1> QED BY <1>3, <1>5, <1>6 DEF Entering, d, s, cursor

\* A candidate is tried as the reference tries it.
LEMMA TryClauseAgrees ==
  ASSUME IInv, NEW outs, NEW lv, Agreed(outs, lv), TryClause
  PROVE  \E lv2 : Reached(jobs', db', generation', recorded', outs, lv2)
<1> DEFINE sc == Visited(Top)
           g == CurrentGoal(sc)
           k == Tried1
           result == UnificationResult(db[k], g)
           uc == Append(sc.uc, k)
           left == TriedLeft
           body == db[k].body
           new == result = "last" /\ g.op = "call" /\ body # <<>>
           d == NewContext(nextPart, EnterBody(sc.cursor, nextPart, body), uc, generation)
<1>1. /\ AtGoal(sc) /\ IsValid(sc.it) /\ g.op \in {"call", "not"}
      /\ CASE new -> Leave(left, <<d>>)
           [] result = "last" /\ ~new -> Leave(left, Continue(sc, uc, generation))
           [] result = "not" -> Leave(left, <<>>)
           [] OTHER ->
                jobs' = [jobs EXCEPT ![Len(jobs)].stack = Front(@) \o <<left>>,
                                     ![Len(jobs)].errors = @ + 1]
      /\ recorded' = recorded + (IF result = "error" THEN 1 ELSE 0)
      /\ db' = db /\ generation' = generation
  BY DEF TryClause, Tried1, TriedLeft, dbVars
<1>2. PICK A : Trying(A, outs, lv)
  <2>1. PICK A : /\ SeenBy(A, outs, lv)
                 /\ AtItsGoal(TopAccount(A).search, TopAccount(A).end, lv)
                 /\ TopAccount(A) \in Accounts
    BY <1>1, GoalSeen
  <2> QED BY <1>1, <2>1 DEF Trying
<1> DEFINE s == TopAccount(A).search
           end == TopAccount(A).end
<1>3. /\ OnlyIterator(left) /\ k \in 1..Len(db) /\ Top.stack # <<>>
      /\ Head(s.choices) = [id |-> k, clause |-> Plain(db[k])] /\ s.from = NowState
      /\ Head(s.goals).goal = g /\ g.atom \in Atoms
  BY <1>2, TryingLeft
<1>4. PICK done \in States : Tries(s, done) /\ GoesOn(s, done, end)
  BY <1>2, TryingLeft
<1>5. /\ result \in {"last", "not", "error"}
      /\ result = "error" <=> Errs(Plain(db[k]), g)
      /\ result # "error" => (result = "last" <=> Holds(Plain(db[k]), g))
  <2> DEFINE c == db[k]
  <2> HIDE DEF g, c
  <2>1. LET r == UnificationResult(c, g)
        IN  /\ r \in {"last", "not", "error"}
            /\ r = "error" <=> Errs(Plain(c), g)
            /\ r # "error" => (r = "last" <=> Holds(Plain(c), g))
    BY <1>1, <1>3, UnifiedIs
  <2> QED BY <2>1 DEF c
<1>6. uc \in Seq(Nat) /\ jobs \in Seq(SearchJobs) /\ jobs # <<>> /\ Top = jobs[Len(jobs)]
      /\ recorded \in Nat /\ Stored(db) /\ Top.solutions \in Seq(Seq(Nat))
  <2>1. sc \in Contexts /\ k \in Nat
    BY <1>3, TurnSeen
  <2> HIDE DEF sc
  <2>2. sc.uc \in Seq(Nat)
    BY <2>1 DEF Contexts
  <2> QED BY <1>3, <2>1, <2>2, TurnSeen, SameWorld
<1>7. /\ World(db, generation, recorded, lv, lv) /\ World(db, generation, recorded + 1, lv, lv)
  BY SameWorldOf
<1>8. Head(s.choices).clause = Plain(db[k])
  BY <1>3
<1> HIDE DEF s, end, g, result, body, uc, left, sc, k, d
<1>9. CASE result = "error"
  <2>1. LeavesTop(jobs', SeenLeft(left))
    BY <1>1, <1>6, <1>9 DEF LeavesTop, SeenLeft
  <2>2. done = State(db, Top.solutions, recorded + 1)
    <3> DEFINE ss == Top.solutions
    <3> HIDE DEF ss
    <3>1. done = Failed(NowState)
      BY <1>3, <1>4, <1>5, <1>8, <1>9 DEF Tries
    <3>2. ss \in Seq(Seq(Nat))
      BY <1>6 DEF ss
    <3>3. State(db, ss, recorded + 1) = Failed(State(db, ss, recorded))
      BY <1>6, <3>2, MoreErrors
    <3> QED BY <3>1, <3>3 DEF NowState, ss
  <2>3. Reached(jobs', db, generation, recorded + 1, outs, lv)
    BY <1>2, <1>4, <1>7, <2>1, <2>2, TriedLeaves DEF s, end, left
  <2>4. recorded' = recorded + 1
    BY <1>1, <1>9
  <2> QED BY <1>1, <2>3, <2>4
<1>10. CASE result = "not"
  <2>1. LeavesTop(jobs', SeenLeft(left))
    BY <1>1, <1>3, <1>10, LeavesAlone
  <2>2. done = State(db, Top.solutions, recorded)
    BY <1>3, <1>4, <1>5, <1>8, <1>10 DEF Tries, NowState
  <2>3. Reached(jobs', db, generation, recorded, outs, lv)
    BY <1>2, <1>4, <1>7, <2>1, <2>2, TriedLeaves DEF s, end, left
  <2>4. recorded' = recorded
    BY <1>1, <1>6, <1>10
  <2> QED BY <1>1, <2>3, <2>4
<1>11. CASE result = "last"
  <2>1. Gives(Entered(s), done)
    BY <1>3, <1>4, <1>5, <1>8, <1>11 DEF Tries
  <2>2. recorded' = recorded
    BY <1>1, <1>6, <1>11
  <2>3. CASE new
    <3> DEFINE lv2 == [lv EXCEPT ![nextPart] = s.depth + 1]
    <3>1. LeavesTop(jobs', SeenLeft(left) \o <<d>>)
      BY <1>1, <2>3, LeavesWith
    <3>2. World(db, generation, recorded, lv, lv2) /\ Entering(s, d, lv2, uc)
      <4>1. CurrentGoal(Visited(Top)).op = "call" /\ db[Tried1].body # <<>>
        BY <2>3 DEF g, sc, k, body
      <4> QED BY <1>2, <1>6, <4>1, EntersBody DEF s, d, body, k, sc
    <3> HIDE DEF lv2
    <3>3. Reached(jobs', db, generation, recorded, outs, lv2)
      BY <1>2, <1>4, <2>1, <3>1, <3>2, TriedEnters DEF s, end, left, uc, sc, k
    <3> QED BY <1>1, <2>2, <3>3
  <2>4. CASE ~new
    <3> DEFINE e == NewContext(None, NextTerm(sc.cursor), uc, generation)
    <3>1. LeavesTop(jobs', SeenLeft(left) \o <<e>>)
      <4>1. Leave(left, <<e>>)
        BY <1>1, <1>11, <2>4 DEF Continue
      <4> QED BY <4>1, LeavesWith
    <3>2. Entering(s, e, lv, uc)
      <4>1. CurrentGoal(Visited(Top)).op = "not" \/ db[Tried1].body = <<>>
        BY <1>1, <1>11, <2>4 DEF g, sc, k, body
      <4> QED BY <1>2, <1>6, <4>1, EntersNothing DEF s, sc
    <3> HIDE DEF e
    <3>3. Reached(jobs', db, generation, recorded, outs, lv)
      BY <1>2, <1>4, <1>7, <2>1, <3>1, <3>2, TriedEnters DEF s, end, left, uc, sc, k
    <3> QED BY <1>1, <2>2, <3>3
  <2> QED BY <2>3, <2>4
<1> QED BY <1>5, <1>9, <1>10, <1>11

\* What the reference makes of the goals of a job.
Answers(goals, st, y) == Gives(Whole(At(goals, 1), 1, <<>>, st), y)

\* A job that starts does what the reference does with its goals.
LEMMA RunsStarted ==
  ASSUME NEW list, NEW gen, ListInv(list, gen), NEW lv, LevelMap(lv), NEW goals \in Seq(Goals),
         NEW part \in Nat, lv[part] = 1, NEW gen0, NEW st, st.live = Live(list), NEW y,
         Answers(goals, st, y)
  PROVE  Runs(list, gen, NewJob(goals, part, gen0).stack, lv, st, Clear(y))
<1> DEFINE cursor == Normalize(<<[part |-> part, rest |-> goals]>>)
           d == NewContext(part, cursor, <<>>, gen0)
           e == NewContext(part, cursor, <<>>, gen)
           stack == <<d>>
           b == [search |-> Whole(At(goals, 1), 1, <<>>, st), end |-> y]
           A == [k \in 1..1 |-> b]
<1>1. NewJob(goals, part, gen0).stack = stack
  BY DEF NewJob
<1>2. Spells(cursor, lv, At(goals, 1))
  BY SpellsQuery DEF LevelMap
<1>3. /\ d.visits = 0 /\ d.cursor = cursor /\ d.uc = <<>> /\ d.part = part
      /\ e.it = NewIterator(gen) /\ e.cursor = cursor /\ e.uc = <<>> /\ e.part = part
  BY DEF NewContext
<1>4. b.search.depth = 1 /\ b.search.from = st /\ b.end = y
  BY DEF Whole, Rest
<1>5. Starts(list, lv, e, b)
  <2> DEFINE gs == At(goals, 1)
             depth == 1
             path == <<>>
  <2>1. Gives(Whole(gs, depth, path, st), y) /\ e.uc = path /\ Spells(e.cursor, lv, gs)
        /\ (e.part # None => lv[e.part] = depth)
    BY <1>2, <1>3 DEF Answers
  <2>2. b = [search |-> Whole(gs, depth, path, st), end |-> y]
    OBVIOUS
  <2> HIDE DEF gs, depth, path, e, b
  <2>3. Starts(list, lv, e, [search |-> Whole(gs, depth, path, st), end |-> y])
    BY <1>3, <2>1, StartsWhole
  <2> QED BY <2>2, <2>3
<1>6. Len(stack) = 1 /\ stack # <<>> /\ stack[1] = d
  OBVIOUS
<1> HIDE DEF d, e, b, cursor, stack
<1>7. Tells(list, e.it, e, b, lv) /\ Gives(b.search, b.end) /\ b.search.choices # <<>>
      /\ b \in Accounts /\ b.search.from.cut = 0
  BY <1>5, GivesOpened DEF Starts, Tells, Proper
<1>8. IteratorOf(stack, 1, gen) = e.it
  BY <1>3, <1>6 DEF IteratorOf
<1>9. Tells(list, IteratorOf(stack, 1, gen), stack[1], A[1], lv)
  BY <1>3, <1>6, <1>7, <1>8 DEF Tells
<1>10. Account(list, gen, stack, A, lv)
  BY <1>4, <1>6, <1>7, <1>9 DEF Account
<1>11. Ends(b.search, b.end)
  BY <1>7 DEF Ends
<1> QED BY <1>1, <1>4, <1>6, <1>10, <1>11 DEF Runs

\* What the search of a findall() leaves, with or without the level of a cut.
LEMMA BackCleared ==
  ASSUME NEW s \in Searches, NEW sub \in States
  PROVE  /\ Back(s, Clear(sub)) = Back(s, sub)
         /\ \A y : Collects(s, sub, y) => Collects(s, Clear(sub), y)
<1> DEFINE c == Clear(sub)
           v == s.from.solutions
<1>1. /\ c \in States /\ c.live = sub.live /\ c.total = sub.total /\ c.errors = sub.errors
      /\ c.solutions = sub.solutions /\ c.ended = sub.ended
  BY Cleared
<1>2. v \in Seq(Seq(Nat))
  BY SearchTyped, StateFields
<1> HIDE DEF c, v
<1>3. ASSUME NEW x \in States
      PROVE  LET u == Back(s, x)
             IN  /\ u \in States /\ u.live = x.live /\ u.total = x.total /\ u.errors = x.errors
                 /\ u.solutions = v /\ u.cut = 0 /\ u.ended = x.ended
  <2> DEFINE w == [x EXCEPT !.solutions = v]
             u == [w EXCEPT !.cut = 0]
  <2>1. /\ w \in States /\ w.live = x.live /\ w.total = x.total /\ w.errors = x.errors
        /\ w.solutions = v /\ w.ended = x.ended
    BY <1>2, StateExcept
  <2>2. Back(s, x) = u
    BY DEF Back, v
  <2> HIDE DEF w
  <2>3. \A n \in Nat : LET y == [w EXCEPT !.cut = n]
          IN  /\ y \in States /\ y.cut = n /\ y.live = w.live /\ y.total = w.total
              /\ y.errors = w.errors /\ y.solutions = w.solutions /\ y.ended = w.ended
    BY <2>1, StateExcept
  <2>4. 0 \in Nat
    OBVIOUS
  <2>5. /\ u \in States /\ u.cut = 0 /\ u.live = w.live /\ u.total = w.total
        /\ u.errors = w.errors /\ u.solutions = w.solutions /\ u.ended = w.ended
    BY <2>3, <2>4
  <2> HIDE DEF u
  <2> QED BY <2>1, <2>2, <2>5
<1>4. Back(s, c) = Back(s, sub)
  <2> DEFINE u == Back(s, c)
             w == Back(s, sub)
  <2>1. /\ u \in States /\ w \in States /\ u.live = w.live /\ u.total = w.total
        /\ u.solutions = w.solutions /\ u.errors = w.errors /\ u.cut = w.cut /\ u.ended = w.ended
    BY <1>1, <1>3
  <2> HIDE DEF u, w
  <2>2. u = w
    BY <2>1, SameState
  <2> QED BY <2>2 DEF u, w
<1>5. \A y : Collects(s, sub, y) => Collects(s, c, y)
  BY <1>1, <1>4 DEF Collects
<1> QED BY <1>4, <1>5 DEF c

\* What a findall() leaves is the database and the errors of its search.
LEMMA BackState ==
  ASSUME NEW s \in Searches, NEW list, Stored(list), NEW found \in Seq(Seq(Nat)), NEW errs \in Nat
  PROVE  Back(s, State(list, found, errs)) = State(list, s.from.solutions, errs)
<1> DEFINE v == s.from.solutions
           x == State(list, found, errs)
           y == State(list, v, errs)
<1>1. v \in Seq(Seq(Nat))
  BY SearchTyped, StateFields
<1> HIDE DEF v
<1>2. y = [x EXCEPT !.solutions = v] /\ x \in States /\ y \in States
  BY <1>1, OtherSolutions, StateTyped
<1>3. y.cut = 0
  BY DEF State
<1>4. Clear(y) = y
  <2> HIDE DEF y
  <2> QED BY <1>2, <1>3, Cleared
<1>5. Back(s, x) = Clear([x EXCEPT !.solutions = v])
  BY DEF Back, Clear, v
<1> QED BY <1>2, <1>4, <1>5 DEF v

\* What is left to a context that called findall(), when its search is done.
LEMMA WaitingReturns ==
  ASSUME NEW list, NEW gen, ListInv(list, gen), NEW lv, LevelMap(lv),
         NEW t \in Seq(Contexts), t # <<>>, t[Len(t)].it.pos >= 1, t[Len(t)].cursor # <<>>,
         NEW ss, NEW found \in Seq(Seq(Nat)), NEW errs \in Nat, NEW out,
         Waiting(list, gen, t, lv, ss, State(list, found, errs), out)
  PROVE  LET sc == t[Len(t)]
             u == SubSeq(t, 1, Len(t) - 1) \o <<Invalidated(sc)>>
             st == State(list, ss, errs)
         IN  IF CurrentGoal(sc).out \in {None, Len(found)}
               THEN Runs(list, gen, u \o Continue(sc, Append(sc.uc, 0), gen), lv, st, out)
               ELSE Runs(list, gen, u, lv, st, out)
<1> DEFINE l == Len(t)
           sc == t[l]
           c == Invalidated(sc)
           u == SubSeq(t, 1, Len(t) - 1) \o <<c>>
           st == State(list, ss, errs)
           sub == State(list, found, errs)
<1>1. PICK A : /\ t[1].visits # 0
               /\ Account(list, gen, t, A, lv)
               /\ out = Clear(A[1].end)
               /\ Awaits(A[l], ss, sub)
  BY DEF Waiting
<1> DEFINE a == A[l]
           s == a.search
           end == a.end
           x == Again(a, <<>>, end)
           B == Swapped(A, l, x)
<1>2. /\ l \in 1..l /\ l \in Nat /\ sc \in Contexts /\ Stored(list) /\ gen \in Nat
      /\ A \in [1..l -> Accounts] /\ a \in Accounts /\ A[1] \in Accounts
      /\ Tells(list, sc.it, sc, a, lv)
  BY <1>1, AccountOfTop DEF ListInv
<1>3. /\ s \in Searches /\ end \in States /\ s.goals # <<>> /\ Head(s.goals).goal.op = "findall"
      /\ s.from.solutions = ss /\ s.path = sc.uc /\ Spells(sc.cursor, lv, s.goals)
      /\ Collects(s, sub, end)
  BY <1>1, <1>2 DEF Awaits, Tells, Accounts
<1>4. /\ Head(s.goals).goal = CurrentGoal(sc)
      /\ Spells(NextTerm(sc.cursor), lv, Tail(s.goals))
  <2> DEFINE gs == s.goals
             cs == sc.cursor
  <2>1. cs \in Seq(Frames) /\ cs # <<>> /\ lv \in [Nat -> Nat] /\ Spells(cs, lv, gs)
    BY <1>2, <1>3 DEF Contexts, LevelMap
  <2> HIDE DEF gs, cs
  <2>2. Head(gs) = [goal |-> Head(cs[1].rest), level |-> lv[cs[1].part]]
        /\ Spells(NextTerm(cs), lv, Tail(gs))
    BY <2>1, SpellsFrames
  <2>3. Head(gs).goal = Head(cs[1].rest)
    BY <2>2
  <2> QED BY <2>2, <2>3 DEF CurrentGoal, gs, cs
<1>5. Back(s, sub) = st
  <2> HIDE DEF s
  <2> QED BY <1>2, <1>3, BackState
<1>6. /\ c \in Contexts /\ c.part = sc.part /\ c.cursor = sc.cursor /\ c.uc = sc.uc
      /\ c.it.pos >= 1 /\ c.it.invalidated = TRUE /\ (l = 1 => c.visits # 0)
  <2>1. sc.it.pos >= 1
    OBVIOUS
  <2>2. l = 1 => sc.visits # 0
    BY <1>1
  <2> HIDE DEF sc, l
  <2>3. /\ c \in Contexts /\ c.part = sc.part /\ c.cursor = sc.cursor /\ c.uc = sc.uc
        /\ c.it.pos = sc.it.pos /\ c.it.invalidated = TRUE /\ c.visits = sc.visits
    BY <1>2 DEF Invalidated, Contexts, Iterators
  <2> QED BY <2>1, <2>2, <2>3
<1>7. Remaining(list, c.it) = <<>>
  BY <1>6 DEF Remaining
<1>8. u \in Seq(Contexts) /\ Len(u) = l /\ u[l] = c /\ \A k \in 1..(l - 1) : u[k] = t[k]
  <2> HIDE DEF c
  <2> QED BY <1>6, LastReplaced
<1>9. /\ x \in Accounts /\ x.end = end /\ x.search.goals = s.goals /\ x.search.depth = s.depth
      /\ x.search.choices = <<>> /\ x.search.from = end /\ (Calls(x.search) <=> Calls(s))
  <2> DEFINE none == <<>>
  <2>1. none \in Seq(Placed)
    OBVIOUS
  <2>2. end \in States /\ a \in Accounts
    BY <1>2, <1>3
  <2> HIDE DEF a, end, none
  <2>3. LET b == Again(a, none, end)
        IN  /\ b \in Accounts /\ b.end = a.end /\ b.search.goals = a.search.goals
            /\ b.search.depth = a.search.depth
            /\ b.search.choices = none /\ b.search.from = end
            /\ Calls(a.search) <=> Calls(b.search)
    BY <2>1, <2>2, AgainTyped
  <2> QED BY <2>3 DEF none, end
<1>10. ~Calls(s)
  BY <1>3 DEF Calls, Special
<1> HIDE DEF l, c, u, sub, a, s, end, x, sc, st, B
<1>11. Leaves(t, c, u)
  BY <1>2, <1>6, <1>8 DEF Leaves, sc, l
<1>12. Account(list, gen, u, B, lv) /\ u[1].visits # 0
  <2>1. LET b == Again(A[Len(t)], Remaining(list, c.it), end)
        IN  Account(list, gen, u, Swapped(A, Len(t), b), lv) /\ u[1].visits # 0
    BY <1>1, <1>2, <1>3, <1>11, AccountLeft
  <2> QED BY <1>7, <2>1 DEF B, x, a, l
<1>13. B[l] = x /\ B[1].end = A[1].end
  <2>1. 1 \in 1..l
    BY <1>2
  <2>2. l = 1 => A[1].end = x.end
    BY <1>9 DEF a, end
  <2> QED BY <1>2, <2>1, <2>2 DEF B, Swapped
<1>14. Ends(x.search, x.end)
  BY <1>3, <1>9, <1>10 DEF Ends
<1>15. Seen(list, gen, u, B, lv, end, out)
  <2>1. u # <<>>
    BY <1>2, <1>8
  <2> QED BY <1>1, <1>8, <1>9, <1>12, <1>13, <1>14, <2>1 DEF Seen
<1>16. CASE CurrentGoal(sc).out \notin {None, Len(found)}
  <2>1. end = st
    <3>1. Len(sub.solutions) = Len(found)
      BY DEF sub, State
    <3> QED BY <1>3, <1>4, <1>5, <1>16, <3>1 DEF Collects
  <2>2. Runs(list, gen, u, lv, st, out)
    BY <1>15, <2>1, SeenRuns
  <2> QED BY <1>16, <2>2 DEF sc, st, u, c, l
<1>17. CASE CurrentGoal(sc).out \in {None, Len(found)}
  <2> DEFINE path == Append(s.path, 0)
             d == NewContext(None, NextTerm(sc.cursor), path, gen)
             b == [search |-> Following(s, path, st), end |-> end]
             w == u \o <<d>>
  <2>1. Gives(Following(s, path, st), end)
    <3>1. Len(sub.solutions) = Len(found)
      BY DEF sub, State
    <3> QED BY <1>3, <1>4, <1>5, <1>17, <3>1 DEF Collects
  <2>2. path \in Seq(Nat) /\ NextTerm(sc.cursor) \in Seq(Frames)
    <3>1. s.path \in Seq(Nat) /\ sc.cursor \in Seq(Frames) /\ sc.cursor # <<>>
      BY <1>2, <1>3, SearchTyped DEF Contexts, sc, l
    <3> QED BY <3>1, NextTermTyped
  <2>3. /\ d \in Contexts /\ d.part = None /\ d.cursor = NextTerm(sc.cursor) /\ d.uc = path
        /\ d.it = NewIterator(gen)
    <3> HIDE DEF path
    <3> QED BY <1>2, <2>2 DEF NewContext, NewIterator, Contexts, Iterators
  <2>4. b.end = end /\ b.search = Following(s, path, st)
    OBVIOUS
  <2>5. b.search.depth = s.depth /\ b.search.from = st /\ s.depth \in Nat
    BY <1>3, <2>4, SearchTyped DEF Following, Whole, Rest
  <2>6. Starts(list, lv, d, b)
    <3> DEFINE goals == Tail(s.goals)
               depth == s.depth
    <3>1. Gives(Whole(goals, depth, path, st), end)
      BY <2>1 DEF Following
    <3>2. b = [search |-> Whole(goals, depth, path, st), end |-> end]
      BY DEF Following
    <3>3. Spells(d.cursor, lv, goals) /\ st.live = Live(list)
      BY <1>4, <2>3 DEF st, State
    <3> HIDE DEF goals, depth, b, d, path
    <3>4. Starts(list, lv, d, [search |-> Whole(goals, depth, path, st), end |-> end])
      BY <2>3, <3>1, <3>3, StartsWhole
    <3> QED BY <3>2, <3>4
  <2> HIDE DEF b, d, path
  <2>7. Within(x, b, d.part)
    <3>1. ~Calls(x.search)
      BY <1>9, <1>10
    <3> QED BY <1>3, <1>9, <1>14, <2>3, <2>4, <2>5, <3>1 DEF Within
  <2>8. Again(B[Len(u)], Remaining(list, c.it), b.end) = x
    <3>1. Again(x, <<>>, end) = x
      <4>1. x.search = Rest(<<>>, a.search.goals, a.search.depth, a.search.path, end)
        BY DEF x, Again
      <4>2. /\ x.search.goals = a.search.goals /\ x.search.depth = a.search.depth
            /\ x.search.path = a.search.path
        BY <4>1 DEF Rest
      <4> QED BY <4>1, <4>2 DEF Again, x
    <3> QED BY <1>7, <1>8, <1>13, <2>4, <3>1
  <2>9. Turned(list, gen, u, B, lv, end, out, c, u)
    <3>1. Leaves(u, c, u)
      BY <1>2, <1>6, <1>8 DEF Leaves
    <3> QED BY <1>2, <1>15, <3>1 DEF Turned
  <2>10. Pushes(u, d, w)
    BY <1>8, <2>3, OneMore DEF Pushes
  <2>11. Within(Again(B[Len(u)], Remaining(list, c.it), b.end), b, d.part)
    BY <2>7, <2>8
  <2> HIDE DEF w
  <2>12. Runs(list, gen, w, lv, b.search.from, out)
    BY <2>6, <2>9, <2>10, <2>11, RunsPushed
  <2>13. w = u \o Continue(sc, Append(sc.uc, 0), gen)
    BY <1>3 DEF w, d, path, Continue
  <2>14. Runs(list, gen, u \o Continue(sc, Append(sc.uc, 0), gen), lv, st, out)
    BY <2>5, <2>12, <2>13
  <2> QED BY <1>17, <2>14 DEF sc, st, u, c, l
<1> QED BY <1>16, <1>17 DEF sc, st, u, c, l

\* One more job, and the state that it leaves.
MoreOuts(outs, n, out) == [k \in 1..n |-> IF k = n THEN out ELSE outs[k]]

\* A findall() starts a job for the search that the reference has for it.
LEMMA CallFindallAgrees ==
  ASSUME IInv, NEW outs, NEW lv, Agreed(outs, lv), CallFindall
  PROVE  \E outs2, lv2 : Reached(jobs', db', generation', recorded', outs2, lv2)
<1> DEFINE sc == Visited(Top)
           g == CurrentGoal(sc)
           n == Len(jobs)
           t == SeenStack
           goals == <<[op |-> "call", atom |-> g.atom]>>
           new == NewJob(goals, nextPart, generation)
           ks == [jobs EXCEPT ![n].stack = Front(@) \o <<sc>>]
           ss == Top.solutions
<1>1. /\ AtGoal(sc) /\ IsValid(sc.it) /\ g.op = "findall" /\ recorded' = recorded
      /\ db' = db /\ generation' = generation /\ jobs' = Append(ks, new)
  BY DEF CallFindall, AtSpecial, dbVars
<1>2. PICK A : /\ SeenBy(A, outs, lv)
               /\ AtItsGoal(TopAccount(A).search, TopAccount(A).end, lv)
               /\ TopAccount(A) \in Accounts
  BY <1>1, GoalSeen
<1> DEFINE s == TopAccount(A).search
           end == TopAccount(A).end
           lv2 == [lv EXCEPT ![nextPart] = 1]
<1>3. /\ Gives(s, end) /\ s.goals # <<>> /\ Head(s.goals).goal = g /\ s.from = NowState
      /\ s \in Searches
  BY <1>1, <1>2 DEF AtItsGoal, OnTop
<1>4. PICK sub \in States : Gives(Sub(s), sub) /\ Collects(s, sub, end)
  <2> HIDE DEF s, end, g
  <2>1. Head(s.goals).goal.op = "findall"
    BY <1>1, <1>3
  <2> QED BY <1>3, <2>1, GivesFindall
<1> DEFINE out == Clear(sub)
           outs2 == MoreOuts(outs, n + 1, out)
<1>5. Top.stack # <<>>
  BY <1>1 DEF AtGoal, InLoop
<1>6. /\ ss \in Seq(Seq(Nat)) /\ ListInv(db, generation) /\ LevelMap(lv) /\ sc \in Contexts
      /\ recorded \in Nat /\ Stored(db) /\ HasBuiltin(db) /\ SameWalks(db, db, generation)
      /\ jobs \in Seq(SearchJobs) /\ jobs # <<>> /\ JobsInv(jobs, nextPart, generation, Len(db))
      /\ Len(db) \in Nat /\ Top = jobs[n] /\ nextPart \in Nat
      /\ StackOf(t, nextPart, generation, Len(db)) /\ NowState.cut = 0
  BY <1>5, TurnSeen, SameWorld DEF IInv, SliceInv
<1>7. LevelMap(lv2) /\ lv2[nextPart] = 1 /\ SameLevels(lv, lv2, nextPart)
  <2>1. lv \in [Nat -> Nat] /\ 1 \in Nat
    BY <1>6 DEF LevelMap
  <2>2. lv2 \in [Nat -> Nat] /\ lv2[nextPart] = 1 /\ \A p \in Nat : p # nextPart => lv2[p] = lv[p]
    BY <1>6, <2>1
  <2>3. \A p \in Nat : p < nextPart => p # nextPart
    BY <1>6
  <2> QED BY <2>2, <2>3 DEF LevelMap, SameLevels
<1>8. TopOnly(jobs, ks) /\ ks[n].stack = t /\ ks[n].solutions = ss
  <2>1. LeavesTop(ks, t)
    BY <1>6 DEF LeavesTop, SeenStack
  <2> HIDE DEF ks, t
  <2> QED BY <2>1, JobLeft
<1>9. goals \in Seq(Goals) /\ Sub(s) = Whole(At(goals, 1), 1, <<>>, State(db, <<>>, recorded))
  <2>1. g \in Goals
    BY <1>1, GoalTyped
  <2>2. Subgoal(g.atom) = [op |-> "call", atom |-> g.atom]
    BY DEF Subgoal
  <2>3. Subgoal(g.atom) \in Goals
    <3> HIDE DEF g
    <3>1. g \in CaseGoals \/ \E h \in CaseGoals : g = [op |-> "call", atom |-> h.atom]
      BY <2>1 DEF Goals
    <3> QED BY <2>1, <2>2, <3>1 DEF Goals
  <2>4. [NowState EXCEPT !.solutions = <<>>] = State(db, <<>>, recorded)
    <3> HIDE DEF ss
    <3> DEFINE tt == <<>>
    <3>1. tt \in Seq(Seq(Nat))
      OBVIOUS
    <3> HIDE DEF tt
    <3>2. State(db, tt, recorded) = [State(db, ss, recorded) EXCEPT !.solutions = tt]
      BY <1>6, <3>1, OtherSolutions
    <3> QED BY <3>2 DEF NowState, ss, tt
  <2>5. goals = <<Subgoal(g.atom)>>
    BY <2>2
  <2> HIDE DEF goals, s, g
  <2>6. goals \in Seq(Goals)
    BY <2>3, <2>5
  <2> QED BY <1>3, <2>4, <2>5, <2>6 DEF Sub
<1> HIDE DEF g, goals, ks, s, end, lv2, sc, t
<1>10. Runs(db, generation, new.stack, lv2, State(db, <<>>, recorded), out)
  <2> DEFINE st == State(db, <<>>, recorded)
  <2>1. Answers(goals, st, sub) /\ st.live = Live(db)
    BY <1>4, <1>9 DEF State, Answers
  <2> HIDE DEF st
  <2> DEFINE list == db
             gen == generation
             part == nextPart
             y == sub
  <2>2. /\ ListInv(list, gen) /\ LevelMap(lv2) /\ goals \in Seq(Goals) /\ part \in Nat
        /\ lv2[part] = 1 /\ st.live = Live(list) /\ Answers(goals, st, y)
    BY <1>6, <1>7, <1>9, <2>1
  <2> HIDE DEF list, gen, part, y
  <2>3. Runs(list, gen, NewJob(goals, part, gen).stack, lv2, st, Clear(y))
    BY <2>2, RunsStarted
  <2> QED BY <2>3 DEF list, gen, part, y, st
<1>11. Waiting(db, generation, t, lv2, ss, out, outs[n])
  <2> DEFINE o == outs[n]
             st == NowState
  <2>1. Seen(db, generation, t, A, lv, st, o)
    BY <1>2 DEF SeenBy, t
  <2> HIDE DEF o, st
  <2>2. Seen(db, generation, t, A, lv2, st, o)
    BY <1>6, <1>7, <2>1, SeenAside
  <2> HIDE DEF out
  <2>3. Awaits(A[Len(t)], ss, out)
    <3>1. Collects(s, out, end)
      BY <1>3, <1>4, BackCleared DEF out
    <3>2. Head(s.goals).goal.op = "findall"
      BY <1>1, <1>3
    <3>3. s.from.cut = 0 /\ s.from.solutions = ss
      BY <1>3, <1>6 DEF NowState, State
    <3> QED BY <1>3, <3>1, <3>2, <3>3 DEF Awaits, s, end, TopAccount, t
  <2>4. Waiting(db, generation, t, lv2, ss, out, o)
    BY <2>2, <2>3 DEF Seen, Waiting
  <2> QED BY <2>4 DEF o
<1>12. /\ Len(jobs') = n + 1 /\ jobs'[n + 1] = new /\ n \in Nat /\ n >= 1
       /\ \A k \in 1..(n - 1) : jobs'[k] = jobs[k]
       /\ jobs'[n].stack = t /\ jobs'[n].solutions = ss
  <2> HIDE DEF new, ss
  <2>1. ks # <<>> /\ Len(ks) = n /\ \A k \in 1..(n - 1) : ks[k] = jobs[k]
    BY <1>8 DEF TopOnly
  <2>2. jobs # <<>> /\ jobs \in Seq(SearchJobs)
    BY <1>6
  <2>3. n \in Nat /\ n >= 1
    BY <2>2
  <2>4. DOMAIN ks = 1..n
    BY <2>2 DEF ks
  <2> HIDE DEF n
  <2>5. Len(jobs') = n + 1 /\ jobs'[n + 1] = new /\ \A k \in 1..n : jobs'[k] = ks[k]
    <3> DEFINE S == {ks[k] : k \in 1..n}
    <3>1. ks = [k \in 1..n |-> ks[k]]
      BY <2>4 DEF ks
    <3>2. \A k \in 1..n : ks[k] \in S
      OBVIOUS
    <3> HIDE DEF S, ks
    <3>3. ks \in [1..n -> S]
      BY <3>1, <3>2
    <3>4. ks \in Seq(S)
      BY <2>3, <3>3
    <3> QED BY <1>1, <2>1, <3>4
  <2> QED BY <1>8, <2>1, <2>3, <2>5
<1>13. new.solutions = <<>>
  BY DEF NewJob
<1>14. /\ outs2[n + 1] = out /\ \A k \in 1..n : outs2[k] = outs[k]
  BY <1>12 DEF MoreOuts
<1>15. /\ outs[1] = Clear(Meaning[given])
       /\ \A k \in 1..(n - 1) :
            Waiting(db, generation, jobs[k].stack, lv2, jobs[k].solutions, outs[k + 1], outs[k])
  <2> DEFINE m == Meaning[given]
  <2>1. Accounted(jobs, db, generation, recorded, outs, lv, m)
    BY DEF Agreed, Reached
  <2> HIDE DEF m
  <2> QED BY <1>6, <1>7, <2>1, JobsAside DEF Accounted, m
<1> HIDE DEF new, out, outs2, ss
<1>16. ASSUME NEW k \in 1..(Len(jobs') - 1)
       PROVE  Waiting(db, generation, jobs'[k].stack, lv2, jobs'[k].solutions, outs2[k + 1], outs2[k])
  <2>1. k \in 1..n /\ (k = n \/ (k \in 1..(n - 1) /\ k + 1 \in 1..n))
    BY <1>12
  <2>2. CASE k = n
    BY <1>11, <1>12, <1>14, <2>1, <2>2
  <2>3. CASE k \in 1..(n - 1)
    BY <1>12, <1>14, <1>15, <2>1, <2>3
  <2> QED BY <2>1, <2>2, <2>3
<1>17. Runs(db, generation, jobs'[Len(jobs')].stack, lv2, State(db, jobs'[Len(jobs')].solutions, recorded), outs2[Len(jobs')])
  BY <1>10, <1>12, <1>13, <1>14
<1>18. outs2[1] = Clear(Meaning[given])
  <2>1. 1 \in 1..n
    BY <1>12
  <2> QED BY <1>14, <1>15, <2>1
<1>19. Accounted(jobs', db, generation, recorded, outs2, lv2, Meaning[given])
  BY <1>7, <1>16, <1>17, <1>18 DEF Accounted
<1> QED BY <1>1, <1>6, <1>19 DEF Reached

\* The return from it goes on as the reference does.
LEMMA ReturnFindallAgrees ==
  ASSUME IInv, NEW outs, NEW lv, Agreed(outs, lv), ReturnFindall
  PROVE  Reached(jobs', db', generation', recorded', outs, lv)
<1> DEFINE n == Len(jobs) - 1
           ks == SubSeq(jobs, 1, n)
           job == jobs[n]
           t == job.stack
           sc == Last(t)
           found == Top.solutions
           children == IF CurrentGoal(sc).out \in {None, Len(found)}
                         THEN Continue(sc, Append(sc.uc, 0), generation) ELSE <<>>
           u == SubSeq(t, 1, Len(t) - 1) \o <<Invalidated(sc)>>
           ss == job.solutions
           out == outs[n]
<1>1. /\ n > 0 /\ recorded' = recorded /\ db' = db /\ generation' = generation
      /\ Top.stack = <<>>
      /\ jobs' = [ks EXCEPT ![n].stack = Front(@) \o <<Invalidated(sc)>> \o children]
  BY DEF ReturnFindall, dbVars
<1>2. /\ jobs \in Seq(SearchJobs) /\ jobs # <<>> /\ Len(jobs) \in Nat /\ Len(db) \in Nat
      /\ JobsInv(jobs, nextPart, generation, Len(db)) /\ Top = jobs[n + 1] /\ n + 1 = Len(jobs)
  BY DEF IInv, DbInv, JobsInv, Top, Last
<1>3. JobsInv(ks, nextPart, generation, Len(db)) /\ Len(ks) = n /\ Waits(ks[n])
  <2>1. Len(jobs) > 1
    BY <1>1, <1>2
  <2> QED BY <1>2, <2>1, JobDropped
<1>4. /\ \A k \in 1..n : ks[k] = jobs[k]
      /\ n \in 1..n /\ n \in Nat /\ ks \in Seq(SearchJobs) /\ ks # <<>> /\ n \in 1..(Len(jobs) - 1)
  <2>1. ks \in Seq(SearchJobs) /\ Len(ks) = n /\ \A k \in 1..n : ks[k] = jobs[k]
    BY <1>2, AllButLast
  <2>2. n \in 1..n /\ n \in Nat /\ n \in 1..(Len(jobs) - 1)
    BY <1>1, <1>2
  <2> QED BY <1>3, <2>1, <2>2 DEF JobsInv
<1>5. /\ ListInv(db, generation) /\ LevelMap(lv) /\ recorded \in Nat /\ Stored(db) /\ HasBuiltin(db)
      /\ Accounted(jobs, db, generation, recorded, outs, lv, Meaning[given])
  BY SameWorld DEF IInv, DbInv, ListInv, Agreed, Reached
<1> HIDE DEF ks, n
<1>6. /\ t \in Seq(Contexts) /\ t # <<>> /\ sc.cursor # <<>> /\ sc = t[Len(t)] /\ Len(t) \in 1..Len(t)
      /\ InList(sc, generation, Len(db)) /\ ss \in Seq(Seq(Nat))
  <2>1. JobInv(job, nextPart, generation, Len(db)) /\ Waits(job)
    BY <1>3, <1>4 DEF JobsInv
  <2> HIDE DEF job
  <2>2. t \in Seq(Contexts) /\ t # <<>> /\ sc.cursor # <<>> /\ ss \in Seq(Seq(Nat))
    BY <2>1 DEF JobInv, SearchJobs, Waits
  <2>3. sc = t[Len(t)] /\ Len(t) \in 1..Len(t)
    BY <2>2 DEF Last
  <2> QED BY <2>1, <2>2, <2>3 DEF JobInv
<1>7. found \in Seq(Seq(Nat))
  <2>1. Top \in SearchJobs
    BY <1>1, <1>2 DEF n
  <2> QED BY <2>1 DEF SearchJobs
<1>8. outs[n + 1] = State(db, found, recorded)
  <2> DEFINE m == Meaning[given]
  <2>1. Accounted(jobs, db, generation, recorded, outs, lv, m)
    BY <1>5
  <2> HIDE DEF m
  <2>2. Runs(db, generation, <<>>, lv, State(db, found, recorded), outs[n + 1])
    BY <1>1, <1>2, <2>1 DEF Accounted
  <2> QED BY <2>2 DEF Runs
<1>9. Waiting(db, generation, t, lv, ss, State(db, found, recorded), out)
  <2> DEFINE m == Meaning[given]
  <2>1. Accounted(jobs, db, generation, recorded, outs, lv, m)
    BY <1>5
  <2> HIDE DEF m
  <2>2. Waiting(db, generation, jobs[n].stack, lv, jobs[n].solutions, outs[n + 1], outs[n])
    BY <1>4, <2>1 DEF Accounted
  <2> QED BY <1>8, <2>2
<1>10. sc.it.pos >= 1
  BY <1>6 DEF InList
<1> HIDE DEF job
<1>11. IF CurrentGoal(sc).out \in {None, Len(found)}
         THEN Runs(db, generation, u \o Continue(sc, Append(sc.uc, 0), generation), lv,
                   State(db, ss, recorded), out)
         ELSE Runs(db, generation, u, lv, State(db, ss, recorded), out)
  <2> DEFINE list == db
             gen == generation
             errs == recorded
             w == t
  <2>1. /\ ListInv(list, gen) /\ LevelMap(lv) /\ w \in Seq(Contexts) /\ w # <<>>
        /\ w[Len(w)].it.pos >= 1 /\ w[Len(w)].cursor # <<>> /\ found \in Seq(Seq(Nat))
        /\ errs \in Nat /\ Waiting(list, gen, w, lv, ss, State(list, found, errs), out)
    BY <1>5, <1>6, <1>7, <1>9, <1>10
  <2> HIDE DEF list, gen, errs, w, ss, out, found
  <2>2. LET cc == w[Len(w)]
            v == SubSeq(w, 1, Len(w) - 1) \o <<Invalidated(cc)>>
            st == State(list, ss, errs)
        IN  IF CurrentGoal(cc).out \in {None, Len(found)}
              THEN Runs(list, gen, v \o Continue(cc, Append(cc.uc, 0), gen), lv, st, out)
              ELSE Runs(list, gen, v, lv, st, out)
    BY <2>1, WaitingReturns
  <2> QED BY <1>6, <2>2 DEF list, gen, errs, w, ss, out, found
<1>12. Runs(db, generation, u \o children, lv, State(db, ss, recorded), out)
  <2>1. Invalidated(sc) \in Contexts
    BY <1>6, OtherIterator
  <2>2. u \in Seq(Contexts)
    <3> HIDE DEF t, sc
    <3> QED BY <1>6, <2>1, LastReplaced
  <2> HIDE DEF u
  <2>3. u \o <<>> = u
    BY <2>2, ConcatEmptySeq
  <2> HIDE DEF sc, found, ss, out, t
  <2> QED BY <1>11, <2>3
<1>13. LastLeft(ks, jobs', u \o children)
  <2>1. ks[n].stack = t
    BY <1>4 DEF job
  <2> HIDE DEF children, t, sc
  <2>2. jobs' = [ks EXCEPT ![n].stack = Front(t) \o <<Invalidated(sc)>> \o children]
    BY <1>1, <2>1
  <2> QED BY <1>3, <2>2 DEF LastLeft, Front
<1> HIDE DEF u, children
<1>14. TopOnly(ks, jobs') /\ jobs'[n].stack = u \o children /\ jobs'[n].solutions = ss
  <2>1. TopOnly(ks, jobs') /\ jobs'[Len(ks)].stack = u \o children
        /\ jobs'[Len(ks)].solutions = ks[Len(ks)].solutions
    BY <1>4, <1>13, LastJobLeft
  <2> QED BY <1>3, <1>4, <2>1 DEF job
<1>15. Accounted(jobs', db, generation, recorded, outs, lv, Meaning[given])
  <2> DEFINE m == Meaning[given]
  <2>1. /\ LevelMap(lv) /\ outs[1] = Clear(m)
        /\ \A k \in 1..(Len(jobs) - 1) :
             Waiting(db, generation, jobs[k].stack, lv, jobs[k].solutions, outs[k + 1], outs[k])
    BY <1>5 DEF Accounted
  <2> HIDE DEF m
  <2>2. Len(jobs') = n /\ \A k \in 1..(n - 1) : jobs'[k] = ks[k]
    BY <1>3, <1>14 DEF TopOnly
  <2>3. \A k \in 1..(n - 1) : k \in 1..n /\ k \in 1..(Len(jobs) - 1)
    BY <1>2, <1>4
  <2>4. \A k \in 1..(Len(jobs') - 1) :
          Waiting(db, generation, jobs'[k].stack, lv, jobs'[k].solutions, outs[k + 1], outs[k])
    BY <1>4, <2>1, <2>2, <2>3
  <2>5. Runs(db, generation, jobs'[Len(jobs')].stack, lv,
             State(db, jobs'[Len(jobs')].solutions, recorded), outs[Len(jobs')])
    BY <1>12, <1>14, <2>2
  <2> QED BY <2>1, <2>4, <2>5 DEF Accounted, m
<1> QED BY <1>1, <1>5, <1>15 DEF Reached

\* A state, but for the level of a cut.
Like(u, st, cut) ==
  /\ u \in States /\ u.live = st.live /\ u.total = st.total /\ u.solutions = st.solutions
  /\ u.errors = st.errors /\ u.ended = st.ended /\ u.cut = cut

\* States that are alike but for the level, and have it in common, are the same.
LEMMA LikeSame ==
  ASSUME NEW u, NEW v, NEW st, NEW cut, Like(u, st, cut), Like(v, st, cut)
  PROVE  u = v
BY SameState DEF Like

\* With another level they are still alike.
LEMMA LikeExcept ==
  ASSUME NEW st, NEW u, NEW c, Like(u, st, c), NEW d \in Nat
  PROVE  Like([u EXCEPT !.cut = d], st, d)
<1>1. u \in States
  BY DEF Like
<1>2. \A n \in Nat : LET y == [u EXCEPT !.cut = n]
        IN  /\ y \in States /\ y.cut = n /\ y.live = u.live /\ y.total = u.total
            /\ y.errors = u.errors /\ y.solutions = u.solutions /\ y.ended = u.ended
  BY <1>1, StateExcept
<1> DEFINE y == [u EXCEPT !.cut = d]
<1>3. /\ y \in States /\ y.cut = d /\ y.live = u.live /\ y.total = u.total
      /\ y.errors = u.errors /\ y.solutions = u.solutions /\ y.ended = u.ended
  BY <1>2
<1> HIDE DEF y
<1>4. Like(y, st, d)
  BY <1>3 DEF Like
<1> QED BY <1>4 DEF y

\* The state of a search, seen at a depth that its cut may not reach.
Upto(st, depth) == [st EXCEPT !.cut = IF @ <= depth THEN @ ELSE 0]

\* The levels that the operators on states leave.
LEMMA LikeCuts ==
  ASSUME NEW st \in States
  PROVE  /\ Like(st, st, st.cut) /\ st.cut \in Nat
         /\ Like(Clear(st), st, 0)
         /\ \A d \in Nat : Like(Upto(st, d), st, IF st.cut <= d THEN st.cut ELSE 0)
         /\ \A l \in Nat : Like(CutTo(l, st), st, IF st.cut # 0 /\ st.cut < l THEN st.cut ELSE l)
<1>1. Like(st, st, st.cut) /\ st.cut \in Nat
  BY StateFields DEF Like
<1>2. Like(Clear(st), st, 0)
  <2>1. 0 \in Nat
    OBVIOUS
  <2> QED BY <1>1, <2>1, LikeExcept DEF Clear
<1>3. ASSUME NEW d \in Nat
      PROVE  Like(Upto(st, d), st, IF st.cut <= d THEN st.cut ELSE 0)
  <2> DEFINE c == IF st.cut <= d THEN st.cut ELSE 0
  <2>1. c \in Nat /\ Upto(st, d) = [st EXCEPT !.cut = c]
    BY <1>1 DEF Upto
  <2> HIDE DEF c
  <2>2. Like(Upto(st, d), st, c)
    BY <1>1, <2>1, LikeExcept
  <2> QED BY <2>2 DEF c
<1>4. ASSUME NEW l \in Nat
      PROVE  Like(CutTo(l, st), st, IF st.cut # 0 /\ st.cut < l THEN st.cut ELSE l)
  <2> DEFINE c == IF st.cut # 0 /\ st.cut < l THEN st.cut ELSE l
  <2>1. c \in Nat /\ CutTo(l, st) = [st EXCEPT !.cut = c]
    BY <1>1 DEF CutTo
  <2> HIDE DEF c
  <2>2. Like(CutTo(l, st), st, c)
    BY <1>1, <2>1, LikeExcept
  <2> QED BY <2>2 DEF c
<1> QED BY <1>1, <1>2, <1>3, <1>4

\* A return changes the level only.
LEMMA LikeReturned ==
  ASSUME NEW u, NEW st, NEW c \in Nat, Like(u, st, c), NEW d
  PROVE  Like(Returned(u, d), st, IF c = d THEN 0 ELSE c)
<1> DEFINE e == IF c = d THEN 0 ELSE c
<1>1. u.cut = c
  BY DEF Like
<1>2. e \in Nat /\ Returned(u, d) = [u EXCEPT !.cut = e]
  BY <1>1 DEF Returned
<1> HIDE DEF e
<1>3. Like(Returned(u, d), st, e)
  BY <1>2, LikeExcept
<1> QED BY <1>3 DEF e

\* Alike states are the same once nothing is abandoned.
LEMMA LikeCleared ==
  ASSUME NEW u, NEW st \in States, NEW c, Like(u, st, c)
  PROVE  Clear(u) = Clear(st)
<1>1. 0 \in Nat
  OBVIOUS
<1>2. Like(Clear(u), st, 0)
  BY <1>1, LikeExcept DEF Clear
<1> QED BY <1>2, LikeCuts, LikeSame

\* What a call makes of a cut that comes back from its child.
LEMMA UptoReturned ==
  ASSUME NEW st \in States, NEW d \in Nat
  PROVE  /\ Returned(Upto(st, d + 1), d + 1) = Upto(st, d)
         /\ st.cut <= d => Upto(st, d) = st
         /\ Upto(st, d).cut <= d /\ Upto(st, d) \in States
<1> DEFINE c == IF st.cut <= d + 1 THEN st.cut ELSE 0
           e == IF st.cut <= d THEN st.cut ELSE 0
           f == IF c = d + 1 THEN 0 ELSE c
           u == Upto(st, d + 1)
<1>1. d + 1 \in Nat /\ st.cut \in Nat
  BY LikeCuts
<1>2. Like(u, st, c) /\ Like(Upto(st, d), st, e) /\ Like(st, st, st.cut) /\ c \in Nat
  BY <1>1, LikeCuts
<1>3. e = f /\ e <= d /\ (st.cut <= d => e = st.cut)
  BY <1>1
<1> HIDE DEF c, u
<1>4. Like(Returned(u, d + 1), st, f)
  BY <1>2, LikeReturned
<1> HIDE DEF e, f
<1>5. Returned(u, d + 1) = Upto(st, d)
  BY <1>2, <1>3, <1>4, LikeSame
<1>6. st.cut <= d => Upto(st, d) = st
  BY <1>2, <1>3, LikeSame
<1> QED BY <1>2, <1>3, <1>5, <1>6 DEF u, Like

\* A cut passes the returns of the calls above its level, and ends at its own.
LEMMA CutReturned ==
  ASSUME NEW st \in States, NEW level \in Nat, level >= 1, NEW d \in Nat
  PROVE  LET u == CutTo(level, st)
         IN  /\ u.cut # 0 /\ u \in States /\ Clear(u) = Clear(st)
             /\ level <= d => Returned(u, d + 1) = u
             /\ level = d + 1 => Returned(u, d + 1) = Upto(st, d)
<1> DEFINE u == CutTo(level, st)
           c == IF st.cut # 0 /\ st.cut < level THEN st.cut ELSE level
           e == IF st.cut <= d THEN st.cut ELSE 0
           f == IF c = d + 1 THEN 0 ELSE c
<1>1. st.cut \in Nat /\ c \in Nat /\ c # 0
  BY LikeCuts
<1>2. Like(u, st, c) /\ Like(Upto(st, d), st, e)
  BY LikeCuts
<1>3. level <= d => f = c
  BY <1>1
<1>4. level = d + 1 => f = e
  BY <1>1
<1> HIDE DEF c, u, e
<1>5. Like(Returned(u, d + 1), st, f)
  BY <1>1, <1>2, LikeReturned
<1> HIDE DEF f
<1>6. Clear(u) = Clear(st)
  BY <1>2, LikeCleared
<1>7. level <= d => Returned(u, d + 1) = u
  BY <1>2, <1>3, <1>5, LikeSame
<1>8. level = d + 1 => Returned(u, d + 1) = Upto(st, d)
  BY <1>2, <1>4, <1>5, LikeSame
<1> QED BY <1>1, <1>2, <1>6, <1>7, <1>8 DEF u, Like

\* A search without choices leaves what its child leaves.
LEMMA EndsUpto ==
  ASSUME NEW s, s.choices = <<>>, s.goals # <<>>, NEW st \in States, NEW d \in Nat, s.depth = d,
         s.from = IF Calls(s) THEN Upto(st, d + 1) ELSE Upto(st, d)
  PROVE  Ends(s, Upto(st, d))
<1>1. CASE Calls(s)
  <2>1. s.from.cut = 0 => s.from = Upto(st, d)
    <3> DEFINE c == IF st.cut <= d + 1 THEN st.cut ELSE 0
               e == IF st.cut <= d THEN st.cut ELSE 0
    <3>1. d + 1 \in Nat /\ st.cut \in Nat
      BY LikeCuts
    <3>2. Like(Upto(st, d + 1), st, c) /\ Like(Upto(st, d), st, e)
      BY <3>1, LikeCuts
    <3>3. c = 0 => e = c
      BY <3>1
    <3> HIDE DEF c, e
    <3>4. Upto(st, d + 1).cut = c
      BY <3>2 DEF Like
    <3>5. c = 0 => Upto(st, d + 1) = Upto(st, d)
      BY <3>2, <3>3, LikeSame
    <3> QED BY <1>1, <3>4, <3>5
  <2>2. Returned(s.from, d + 1) = Upto(st, d)
    BY <1>1, UptoReturned
  <2> QED BY <1>1, <2>1, <2>2 DEF Ends
<1>2. CASE ~Calls(s)
  BY <1>2 DEF Ends
<1> QED BY <1>1, <1>2

-----------------------------------------------------------------------------
(* Cut.                                                                    *)

\* A cut on top of the stack t, whose goal part the context at owner entered;
\* what follows it leaves end.
Cutting(list, gen, t, A, lv, st, out, owner, end) ==
  /\ Stored(list) /\ t \in Seq(Contexts) /\ Seen(list, gen, t, A, lv, st, out)
  /\ \A k \in 1..Len(t) : t[k].it.pos >= 1
  /\ owner \in 1..Len(t) /\ t[owner].part # None
  /\ A[Len(t)].search.goals # <<>> /\ ~Calls(A[Len(t)].search)
  /\ end \in States /\ end.cut <= A[Len(t)].search.depth
  /\ A[Len(t)].end = CutTo(A[owner].search.depth, end)

\* The depth of calls of a context.
Depth(A, k) == A[k].search.depth

\* A context is not less deep than the ones below it.
LEMMA DepthsGrow ==
  ASSUME NEW list, NEW gen, NEW t \in Seq(Contexts), NEW A, NEW lv, Account(list, gen, t, A, lv)
  PROVE  /\ \A k \in 1..Len(t) : Depth(A, k) \in Nat /\ A[k] \in Accounts /\ Levels(A[k].search)
         /\ \A j, k \in 1..Len(t) : j <= k => Depth(A, j) <= Depth(A, k)
<1> DEFINE l == Len(t)
<1>1. l \in Nat
  OBVIOUS
<1> HIDE DEF l
<1>2. \A k \in 1..l : A[k] \in Accounts /\ Levels(A[k].search)
  BY DEF Account, Tells, l
<1>3. \A k \in 1..l : Depth(A, k) \in Nat
  <2> SUFFICES ASSUME NEW k \in 1..l PROVE Depth(A, k) \in Nat
    OBVIOUS
  <2>1. A[k].search \in Searches
    BY <1>2 DEF Accounts
  <2> QED BY <2>1, SearchTyped DEF Depth
<1>4. \A k \in 1..(l - 1) : Depth(A, k) <= Depth(A, k + 1)
  <2> SUFFICES ASSUME NEW k \in 1..(l - 1) PROVE Depth(A, k) <= Depth(A, k + 1)
    OBVIOUS
  <2>1. Within(A[k], A[k + 1], t[k + 1].part)
    BY DEF Account, l
  <2>2. Depth(A, k) \in Nat
    BY <1>1, <1>3
  <2>3. Depth(A, k + 1) = Depth(A, k) + (IF Calls(A[k].search) THEN 1 ELSE 0)
    BY <2>1 DEF Within, Depth
  <2> QED BY <2>2, <2>3
<1>5. ASSUME NEW j \in 1..l, NEW k \in 1..l, j <= k, ~(Depth(A, j) <= Depth(A, k)) PROVE FALSE
  <2> DEFINE T == {i \in 1..l : i >= j /\ Depth(A, i) < Depth(A, j)}
  <2>1. k \in T
    BY <1>3, <1>5
  <2>2. T \in SUBSET (1..l) /\ T # {}
    BY <2>1
  <2>3. \A i : i \in T <=> i \in 1..l /\ i >= j /\ Depth(A, i) < Depth(A, j)
    OBVIOUS
  <2> HIDE DEF T
  <2>4. PICK n \in T : \A i \in T : n <= i
    BY <1>1, <2>2, LeastNumber
  <2>5. n \in 1..l /\ n >= j /\ Depth(A, n) < Depth(A, j)
    BY <2>3, <2>4
  <2>6. n # j
    BY <1>3, <2>5
  <2>7. n - 1 \in 1..l /\ n - 1 >= j /\ n - 1 \in 1..(l - 1) /\ (n - 1) + 1 = n /\ ~(n <= n - 1)
    BY <1>1, <2>5, <2>6
  <2>8. n - 1 \notin T
    BY <2>4, <2>7
  <2>9. ~(Depth(A, n - 1) < Depth(A, j))
    BY <2>3, <2>7, <2>8
  <2>10. Depth(A, n - 1) <= Depth(A, n)
    BY <1>4, <2>7
  <2> QED BY <1>3, <2>5, <2>7, <2>9, <2>10
<1> QED BY <1>2, <1>3, <1>5 DEF l

\* The cut is handed down to the context that entered its goal part.
LEMMA CutHandedDown ==
  ASSUME NEW list, NEW gen, NEW t, NEW A, NEW lv, NEW st, NEW out, NEW owner, NEW end,
         Cutting(list, gen, t, A, lv, st, out, owner, end)
  PROVE  \A k \in 1..Len(t) : k >= owner => A[k].end = CutTo(Depth(A, owner), end)
<1> DEFINE l == Len(t)
           level == Depth(A, owner)
           y == CutTo(level, end)
<1>1. /\ t \in Seq(Contexts) /\ t # <<>> /\ Account(list, gen, t, A, lv) /\ end \in States
      /\ owner \in 1..l /\ A[l].end = y
  BY DEF Cutting, Seen, Depth
<1>2. l \in Nat /\ l \in 1..l
  BY <1>1
<1>3. /\ \A k \in 1..l : Depth(A, k) \in Nat /\ A[k] \in Accounts /\ Levels(A[k].search)
      /\ \A j, k \in 1..l : j <= k => Depth(A, j) <= Depth(A, k)
  BY <1>1, DepthsGrow
<1>4. level \in Nat /\ level >= 1
  BY <1>1, <1>3 DEF Levels, Depth
<1> HIDE DEF l, level, y
<1>5. \A d \in Nat : y.cut # 0 /\ (level <= d => Returned(y, d + 1) = y)
  BY <1>1, <1>4, CutReturned DEF y
<1>6. ASSUME NEW k \in 1..l, k >= owner, A[k].end # y PROVE FALSE
  <2> DEFINE T == {i \in 1..l : i >= owner /\ A[i].end # y}
  <2>1. k \in T
    BY <1>6
  <2>2. T \in SUBSET (1..l) /\ T # {}
    BY <2>1
  <2>3. \A i : i \in T <=> i \in 1..l /\ i >= owner /\ A[i].end # y
    OBVIOUS
  <2> HIDE DEF T
  <2>4. PICK n \in T : \A i \in T : n >= i
    BY <1>2, <2>2, GreatestNumber
  <2>5. n \in 1..l /\ n >= owner /\ A[n].end # y
    BY <2>3, <2>4
  <2>6. n # l
    BY <1>1, <2>5
  <2>7. n + 1 \in 1..l /\ n + 1 >= owner /\ n \in 1..(l - 1) /\ ~(n >= n + 1)
    BY <1>1, <1>2, <2>5, <2>6
  <2>8. A[n + 1].end = y
    BY <2>3, <2>4, <2>7
  <2>9. Within(A[n], A[n + 1], t[n + 1].part)
    BY <1>1, <2>7 DEF Account, l
  <2>10. A[n].search.from = y /\ Ends(A[n].search, A[n].end)
    BY <2>8, <2>9 DEF Within
  <2>11. Depth(A, n) \in Nat /\ level <= Depth(A, n)
    BY <1>1, <1>3, <2>5 DEF level
  <2>12. Returned(y, Depth(A, n) + 1) = y /\ y.cut # 0
    BY <1>5, <2>11
  <2>13. A[n].end = y
    BY <2>10, <2>12 DEF Ends, Depth
  <2> QED BY <2>5, <2>13
<1> QED BY <1>6 DEF l, y, level

\* The context below that one, which chose the clause, is the last one to stop.
LEMMA CutArrives ==
  ASSUME NEW list, NEW gen, NEW t, NEW A, NEW lv, NEW st, NEW out, NEW owner, NEW end,
         Cutting(list, gen, t, A, lv, st, out, owner, end)
  PROVE  LET entry == IF owner = 1 THEN 1 ELSE owner - 1
         IN  /\ entry \in 1..Len(t) /\ entry <= owner
             /\ entry > 1 => A[entry].end = Upto(end, Depth(A, entry))
             /\ entry = 1 => out = Clear(Upto(end, Depth(A, 1)))
<1> DEFINE l == Len(t)
           entry == IF owner = 1 THEN 1 ELSE owner - 1
           level == Depth(A, owner)
           y == CutTo(level, end)
<1>1. /\ t \in Seq(Contexts) /\ t # <<>> /\ Account(list, gen, t, A, lv) /\ end \in States
      /\ owner \in 1..l /\ out = Clear(A[1].end) /\ t[owner].part # None
  BY DEF Cutting, Seen
<1>2. l \in Nat /\ entry \in 1..l /\ entry <= owner /\ (owner = 1 => entry = 1)
      /\ (owner # 1 => entry = owner - 1 /\ entry \in 1..(l - 1) /\ entry + 1 = owner)
      /\ owner >= owner
  BY <1>1
<1>3. \A k \in 1..l : Depth(A, k) \in Nat /\ A[k] \in Accounts /\ Levels(A[k].search)
  BY <1>1, DepthsGrow
<1>4. A[owner].end = y
  BY <1>1, <1>2, CutHandedDown
<1>5. level \in Nat /\ level >= 1
  BY <1>1, <1>3 DEF Levels, Depth
<1> HIDE DEF l, entry, level, y
<1>6. CASE owner = 1
  <2>1. y = CutTo(level, end) /\ Clear(y) = Clear(end)
    BY <1>1, <1>5, CutReturned DEF y
  <2>2. Depth(A, 1) \in Nat
    BY <1>1, <1>3, <1>6
  <2>3. \E c : Like(Upto(end, Depth(A, 1)), end, c)
    BY <1>1, <2>2, LikeCuts
  <2>4. Clear(Upto(end, Depth(A, 1))) = Clear(end)
    BY <1>1, <2>3, LikeCleared
  <2> QED BY <1>1, <1>2, <1>4, <1>6, <2>1, <2>4 DEF l, entry
<1>7. CASE owner # 1
  <2> DEFINE d == Depth(A, entry)
  <2>1. Within(A[entry], A[entry + 1], t[entry + 1].part)
    BY <1>1, <1>2, <1>7 DEF Account, l
  <2>2. Within(A[entry], A[owner], t[owner].part)
    BY <1>2, <1>7, <2>1
  <2>3. Calls(A[entry].search) /\ A[entry].search.from = y /\ Ends(A[entry].search, A[entry].end)
        /\ level = d + 1
    BY <1>1, <1>4, <2>2 DEF Within, Depth, level
  <2>4. d \in Nat
    BY <1>2, <1>3
  <2>5. y.cut # 0 /\ Returned(y, d + 1) = Upto(end, d)
    <3> HIDE DEF d
    <3> QED BY <1>1, <1>5, <2>3, <2>4, CutReturned DEF y
  <2>6. A[entry].end = Upto(end, d)
    BY <2>3, <2>5 DEF Ends, Depth
  <2> QED BY <1>1, <1>2, <2>6 DEF l, entry
<1> QED BY <1>6, <1>7

\* What is left to a context that the cut has pruned: to hand down the state
\* that what follows the cut leaves.
Pruned(A, l, end, k) ==
  [search |-> Rest(<<>>, A[k].search.goals, Depth(A, k), A[k].search.path,
                   IF k = l THEN end ELSE Upto(end, Depth(A, k + 1))),
   end |-> Upto(end, Depth(A, k))]

PrunedFrom(A, l, end, entry) ==
  [k \in 1..l |-> IF k < entry THEN A[k] ELSE Pruned(A, l, end, k)]

PrunedStack(t, entry) == [k \in 1..Len(t) |-> IF k < entry THEN t[k] ELSE Invalidated(t[k])]

\* The account of a context that a cut has pruned.
LEMMA PrunedTyped ==
  ASSUME NEW A, NEW l \in Nat, NEW end \in States, NEW k \in 1..l,
         \A i \in 1..l : Depth(A, i) \in Nat /\ A[i] \in Accounts /\ Levels(A[i].search)
  PROVE  LET b == Pruned(A, l, end, k)
         IN  /\ b \in Accounts /\ b.end = Upto(end, Depth(A, k))
             /\ b.search.goals = A[k].search.goals /\ b.search.depth = Depth(A, k)
             /\ b.search.path = A[k].search.path /\ b.search.choices = <<>>
             /\ b.search.from = IF k = l THEN end ELSE Upto(end, Depth(A, k + 1))
             /\ Levels(b.search) /\ (Calls(b.search) <=> Calls(A[k].search))
<1> DEFINE from == IF k = l THEN end ELSE Upto(end, Depth(A, k + 1))
           none == <<>>
           d == Depth(A, k)
           s == A[k].search
           e == Upto(end, d)
           r == Rest(none, s.goals, d, s.path, from)
           b == [search |-> r, end |-> e]
<1>1. s \in Searches /\ d = s.depth /\ d \in Nat /\ Levels(s)
  BY DEF Accounts, Depth
<1>2. s.goals \in Seq(Levelled) /\ s.path \in Seq(Nat)
  BY <1>1, SearchTyped
<1>3. e \in States
  BY <1>1, UptoReturned
<1>4. from \in States
  <2>1. k # l => k + 1 \in 1..l
    OBVIOUS
  <2>2. k # l => Depth(A, k + 1) \in Nat
    BY <2>1
  <2>3. k # l => Upto(end, Depth(A, k + 1)) \in States
    BY <2>2, UptoReturned
  <2> QED BY <2>3
<1>5. none \in Seq(Placed)
  OBVIOUS
<1>6. Pruned(A, l, end, k) = b
  BY DEF Pruned
<1> HIDE DEF from, none, d, s, e
<1>7. r \in Searches
  BY <1>1, <1>2, <1>4, <1>5, RestTyped
<1>8. /\ r.goals = s.goals /\ r.depth = d /\ r.path = s.path /\ r.choices = none /\ r.from = from
  BY DEF Rest
<1> HIDE DEF r
<1>9. b \in Accounts /\ b.search = r /\ b.end = e
  BY <1>3, <1>7 DEF Accounts
<1> HIDE DEF b
<1>10. Levels(r) /\ (Calls(r) <=> Calls(s))
  BY <1>1, <1>8 DEF Levels, Calls
<1> QED BY <1>6, <1>8, <1>9, <1>10 DEF from, none, d, s, e

\* The cut is made, and nothing follows it yet.
LEMMA CutSeen ==
  ASSUME NEW list, NEW gen, NEW t, NEW A, NEW lv, NEW st, NEW out, NEW owner, NEW end,
         Cutting(list, gen, t, A, lv, st, out, owner, end)
  PROVE  LET l == Len(t)
             entry == IF owner = 1 THEN 1 ELSE owner - 1
             u == PrunedStack(t, entry)
             B == PrunedFrom(A, l, end, entry)
         IN  /\ Seen(list, gen, u, B, lv, end, out)
             /\ u \in Seq(Contexts) /\ Len(u) = l /\ u[l] = Invalidated(t[l])
             /\ B[l].search.goals = A[l].search.goals /\ B[l].search.depth = Depth(A, l)
             /\ B[l].search.choices = <<>> /\ B[l].search.from = end /\ B[l].end = end
             /\ B[l] \in Accounts /\ ~Calls(B[l].search)
<1> DEFINE l == Len(t)
           entry == IF owner = 1 THEN 1 ELSE owner - 1
           u == PrunedStack(t, entry)
           B == PrunedFrom(A, l, end, entry)
<1>1. /\ t \in Seq(Contexts) /\ t # <<>> /\ Account(list, gen, t, A, lv) /\ end \in States
      /\ owner \in 1..l /\ out = Clear(A[1].end) /\ t[1].visits # 0
      /\ A[l].search.goals # <<>> /\ ~Calls(A[l].search) /\ end.cut <= Depth(A, l)
      /\ \A k \in 1..l : t[k].it.pos >= 1
  BY DEF Cutting, Seen, Depth
<1>2. /\ entry \in 1..l /\ entry <= owner
      /\ entry > 1 => A[entry].end = Upto(end, Depth(A, entry))
      /\ entry = 1 => out = Clear(Upto(end, Depth(A, 1)))
  BY CutArrives
<1>3. l \in Nat /\ l \in 1..l /\ 1 \in 1..l
  BY <1>1
<1>4. \A k \in 1..l : Depth(A, k) \in Nat /\ A[k] \in Accounts /\ Levels(A[k].search)
  BY <1>1, DepthsGrow
<1> HIDE DEF l, entry
<1>5. \A k \in 1..l : t[k] \in Contexts
  BY <1>1 DEF l
<1>6. ASSUME NEW k \in 1..l
      PROVE  LET c == Invalidated(t[k])
             IN  /\ c \in Contexts /\ c.part = t[k].part /\ c.cursor = t[k].cursor /\ c.uc = t[k].uc
                 /\ c.visits = t[k].visits /\ c.it.invalidated = TRUE
  <2> DEFINE sc == t[k]
  <2>1. sc \in Contexts
    BY <1>5
  <2> HIDE DEF sc
  <2> QED BY <2>1 DEF Invalidated, Contexts, Iterators, sc
<1>7. Len(u) = l /\ \A k \in 1..l : u[k] = IF k < entry THEN t[k] ELSE Invalidated(t[k])
  BY <1>3 DEF PrunedStack, l
<1>8. \A k \in 1..l : /\ u[k] \in Contexts /\ u[k].part = t[k].part /\ u[k].cursor = t[k].cursor
                      /\ u[k].uc = t[k].uc /\ u[k].visits = t[k].visits
                      /\ k < entry => u[k].it = t[k].it
                      /\ ~(k < entry) => u[k].it.invalidated = TRUE
  <2> SUFFICES ASSUME NEW k \in 1..l
               PROVE  /\ u[k] \in Contexts /\ u[k].part = t[k].part /\ u[k].cursor = t[k].cursor
                      /\ u[k].uc = t[k].uc /\ u[k].visits = t[k].visits
                      /\ k < entry => u[k].it = t[k].it
                      /\ ~(k < entry) => u[k].it.invalidated = TRUE
    OBVIOUS
  <2>1. u[k] = IF k < entry THEN t[k] ELSE Invalidated(t[k])
    BY <1>7
  <2> HIDE DEF u
  <2>2. CASE k < entry
    BY <1>5, <2>1, <2>2
  <2>3. CASE ~(k < entry)
    BY <1>6, <2>1, <2>3
  <2> QED BY <2>2, <2>3
<1>9. u \in Seq(Contexts)
  <2>1. u = [k \in 1..l |-> u[k]]
    BY DEF PrunedStack, l
  <2> HIDE DEF u
  <2>2. u \in [1..l -> Contexts]
    BY <1>8, <2>1
  <2> QED BY <1>3, <2>2
<1>10. B = [k \in 1..l |-> IF k < entry THEN A[k] ELSE Pruned(A, l, end, k)]
  BY DEF PrunedFrom
<1> HIDE DEF u, B
<1>11. \A k \in 1..l : B[k] = IF k < entry THEN A[k] ELSE Pruned(A, l, end, k)
  BY <1>10
<1>12. ASSUME NEW k \in 1..l, ~(k < entry)
       PROVE  /\ B[k] \in Accounts /\ B[k].end = Upto(end, Depth(A, k))
              /\ B[k].search.goals = A[k].search.goals /\ B[k].search.depth = Depth(A, k)
              /\ B[k].search.path = A[k].search.path /\ B[k].search.choices = <<>>
              /\ B[k].search.from = IF k = l THEN end ELSE Upto(end, Depth(A, k + 1))
              /\ Levels(B[k].search) /\ (Calls(B[k].search) <=> Calls(A[k].search))
  <2> DEFINE b == Pruned(A, l, end, k)
  <2>1. B[k] = b
    BY <1>11, <1>12
  <2>2. /\ b \in Accounts /\ b.end = Upto(end, Depth(A, k))
        /\ b.search.goals = A[k].search.goals /\ b.search.depth = Depth(A, k)
        /\ b.search.path = A[k].search.path /\ b.search.choices = <<>>
        /\ b.search.from = IF k = l THEN end ELSE Upto(end, Depth(A, k + 1))
        /\ Levels(b.search) /\ (Calls(b.search) <=> Calls(A[k].search))
    BY <1>1, <1>3, <1>4, PrunedTyped
  <2> HIDE DEF b
  <2> QED BY <2>1, <2>2
<1>13. \A k \in 1..l : B[k].search.depth = Depth(A, k) /\ B[k] \in Accounts
  <2> SUFFICES ASSUME NEW k \in 1..l PROVE B[k].search.depth = Depth(A, k) /\ B[k] \in Accounts
    OBVIOUS
  <2>1. CASE k < entry
    BY <1>4, <1>11, <2>1 DEF Depth
  <2>2. CASE ~(k < entry)
    BY <1>12, <2>2
  <2> QED BY <2>1, <2>2
<1>14. B \in [1..l -> Accounts]
  BY <1>10, <1>13
<1>15. u # <<>> /\ u[1].visits # 0
  BY <1>1, <1>3, <1>7, <1>8
<1>16. ASSUME NEW k \in 1..l PROVE Tells(list, IteratorOf(u, k, gen), u[k], B[k], lv)
  <2>1. IteratorOf(u, k, gen) = u[k].it /\ IteratorOf(t, k, gen) = t[k].it
    BY <1>1, <1>15 DEF IteratorOf
  <2>2. Tells(list, t[k].it, t[k], A[k], lv)
    BY <1>1, <2>1 DEF Account, l
  <2>3. u[k].part = t[k].part /\ u[k].cursor = t[k].cursor /\ u[k].uc = t[k].uc
    BY <1>8
  <2>4. CASE k < entry
    <3>1. B[k] = A[k] /\ u[k].it = t[k].it
      BY <1>8, <1>11, <2>4
    <3> QED BY <2>1, <2>2, <2>3, <3>1 DEF Tells
  <2>5. CASE ~(k < entry)
    <3>1. Remaining(list, u[k].it) = <<>>
      BY <1>8, <2>5 DEF Remaining
    <3>2. /\ Spells(t[k].cursor, lv, A[k].search.goals) /\ A[k].search.path = t[k].uc
          /\ t[k].part # None => lv[t[k].part] = Depth(A, k)
      BY <2>2 DEF Tells, Depth
    <3> QED BY <1>12, <2>1, <2>3, <2>5, <3>1, <3>2 DEF Tells
  <2> QED BY <2>4, <2>5
<1>17. ASSUME NEW k \in 1..(l - 1) PROVE Within(B[k], B[k + 1], u[k + 1].part)
  <2>1. k \in 1..l /\ k + 1 \in 1..l /\ k # l
    BY <1>3
  <2>2. Within(A[k], A[k + 1], t[k + 1].part)
    BY <1>1 DEF Account, l
  <2>3. u[k + 1].part = t[k + 1].part
    BY <1>8, <2>1
  <2>4. B[k + 1].search.depth = Depth(A, k + 1) /\ B[k].search.depth = Depth(A, k)
    BY <1>13, <2>1
  <2>5. Depth(A, k) \in Nat /\ Depth(A, k + 1) = Depth(A, k) + (IF Calls(A[k].search) THEN 1 ELSE 0)
    BY <1>4, <2>1, <2>2 DEF Within, Depth
  <2>6. CASE k < entry
    <3>1. B[k] = A[k]
      BY <1>11, <2>1, <2>6
    <3>2. B[k + 1].end = A[k + 1].end
      <4>1. CASE k + 1 < entry
        BY <1>11, <2>1, <4>1
      <4>2. CASE ~(k + 1 < entry)
        <5>1. k + 1 = entry /\ entry > 1
          BY <1>2, <2>6, <4>2
        <5>2. B[entry].end = Upto(end, Depth(A, entry))
          BY <1>2, <1>12, <5>1
        <5> QED BY <1>2, <5>1, <5>2
      <4> QED BY <4>1, <4>2
    <3> QED BY <2>2, <2>3, <2>4, <3>1, <3>2 DEF Within, Depth
  <2>7. CASE ~(k < entry)
    <3>1. ~(k + 1 < entry)
      BY <1>2, <2>7
    <3>2. B[k + 1].end = Upto(end, Depth(A, k + 1))
      BY <1>12, <2>1, <3>1
    <3> DEFINE s == B[k].search
               d == Depth(A, k)
    <3>3. /\ s.goals # <<>> /\ s.choices = <<>> /\ s.depth = d /\ B[k].end = Upto(end, d)
          /\ s.from = Upto(end, Depth(A, k + 1)) /\ (Calls(s) <=> Calls(A[k].search))
      BY <1>12, <2>1, <2>2, <2>7 DEF Within
    <3>4. s.from = IF Calls(s) THEN Upto(end, d + 1) ELSE Upto(end, d)
      <4>1. ~Calls(s) => Depth(A, k + 1) = d
        BY <2>5, <3>3
      <4>2. Calls(s) => Depth(A, k + 1) = d + 1
        BY <2>5, <3>3
      <4> HIDE DEF d, s
      <4> QED BY <3>3, <4>1, <4>2
    <3> HIDE DEF s, d
    <3>5. Ends(s, Upto(end, d))
      BY <1>1, <2>5, <3>3, <3>4, EndsUpto DEF d
    <3>6. t[k + 1].part # None => Calls(s)
      BY <2>2, <3>3 DEF Within
    <3>7. B[k + 1].search.depth = s.depth + (IF Calls(s) THEN 1 ELSE 0)
      BY <2>4, <2>5, <3>3 DEF d
    <3>8. s = B[k].search
      BY DEF s
    <3> QED BY <2>3, <3>2, <3>3, <3>5, <3>6, <3>7, <3>8 DEF Within
  <2> QED BY <2>6, <2>7
<1>18. B[1].search.depth = 1
  BY <1>1, <1>3, <1>13 DEF Account, Depth
<1>19. Account(list, gen, u, B, lv)
  BY <1>7, <1>14, <1>15, <1>16, <1>17, <1>18 DEF Account
<1>20. /\ B[l].search.goals = A[l].search.goals /\ B[l].search.depth = Depth(A, l)
       /\ B[l].search.choices = <<>> /\ B[l].search.from = end /\ B[l].end = Upto(end, Depth(A, l))
       /\ B[l] \in Accounts /\ ~Calls(B[l].search)
  <2>1. ~(l < entry)
    BY <1>2, <1>3
  <2> QED BY <1>1, <1>3, <1>12, <2>1
<1>21. Upto(end, Depth(A, l)) = end
  BY <1>1, <1>3, <1>4, UptoReturned
<1>22. Ends(B[l].search, B[l].end)
  <2> DEFINE s == B[l].search
             d == Depth(A, l)
  <2>1. s.choices = <<>> /\ s.goals # <<>> /\ d \in Nat /\ s.depth = d
    BY <1>1, <1>3, <1>4, <1>20
  <2>2. s.from = IF Calls(s) THEN Upto(end, d + 1) ELSE Upto(end, d)
    BY <1>20, <1>21
  <2>3. B[l].end = Upto(end, d)
    BY <1>20
  <2> HIDE DEF s, d
  <2>4. Ends(s, Upto(end, d))
    BY <1>1, <2>1, <2>2, EndsUpto
  <2> QED BY <2>3, <2>4 DEF s
<1>23. out = Clear(B[1].end)
  <2>1. CASE entry = 1
    <3>1. B[1].end = Upto(end, Depth(A, 1))
      BY <1>3, <1>12, <2>1
    <3> QED BY <1>2, <2>1, <3>1
  <2>2. CASE entry # 1
    <3>1. 1 < entry
      BY <1>2, <1>3, <2>2
    <3> QED BY <1>1, <1>3, <1>11, <3>1
  <2> QED BY <2>1, <2>2
<1>24. Seen(list, gen, u, B, lv, end, out)
  BY <1>7, <1>15, <1>19, <1>20, <1>22, <1>23 DEF Seen
<1>25. u[l] = Invalidated(t[l])
  BY <1>2, <1>3, <1>7
<1> QED BY <1>7, <1>9, <1>20, <1>21, <1>24, <1>25 DEF l, entry, u, B

\* What follows a cut is searched on top of the contexts that it has pruned.
LEMMA CutRuns ==
  ASSUME NEW list, NEW gen, ListInv(list, gen), NEW lv, LevelMap(lv),
         NEW t, NEW A, NEW st, st.live = Live(list), NEW out, NEW owner, NEW end,
         Cutting(list, gen, t, A, lv, st, out, owner, end),
         NEW path, NEW d \in Contexts, d.part = None, d.it = NewIterator(gen), d.uc = path,
         Spells(d.cursor, lv, Tail(A[Len(t)].search.goals)),
         Gives(Following(A[Len(t)].search, path, st), end)
  PROVE  LET entry == IF owner = 1 THEN 1 ELSE owner - 1
         IN  Runs(list, gen, PrunedStack(t, entry) \o <<d>>, lv, st, out)
<1> DEFINE l == Len(t)
           entry == IF owner = 1 THEN 1 ELSE owner - 1
           u == PrunedStack(t, entry)
           B == PrunedFrom(A, l, end, entry)
           x == B[l]
           s == A[l].search
           c == Invalidated(t[l])
           goals == Tail(s.goals)
           b == [search |-> Following(s, path, st), end |-> end]
           w == u \o <<d>>
<1>1. /\ Seen(list, gen, u, B, lv, end, out)
      /\ u \in Seq(Contexts) /\ Len(u) = l /\ u[l] = c
      /\ x.search.goals = s.goals /\ x.search.depth = s.depth
      /\ x.search.choices = <<>> /\ x.search.from = end /\ x.end = end
      /\ x \in Accounts /\ ~Calls(x.search)
  BY CutSeen DEF Depth
<1>2. /\ t \in Seq(Contexts) /\ t # <<>> /\ Stored(list) /\ gen \in Nat /\ end \in States
      /\ t[l].it.pos >= 1 /\ s.goals # <<>> /\ t[1].visits # 0 /\ l \in 1..l /\ l \in Nat
  <2>1. t \in Seq(Contexts) /\ t # <<>>
    BY DEF Cutting, Seen
  <2>2. l \in 1..l /\ l \in Nat
    BY <2>1
  <2> QED BY <2>1, <2>2 DEF Cutting, Seen, ListInv
<1>3. /\ c \in Contexts /\ c.part = t[l].part /\ c.cursor = t[l].cursor /\ c.uc = t[l].uc
      /\ c.it.pos = t[l].it.pos /\ c.it.invalidated = TRUE /\ c.visits = t[l].visits
  <2> DEFINE sc == t[l]
  <2>1. sc \in Contexts
    BY <1>2
  <2> HIDE DEF sc
  <2> QED BY <2>1 DEF Invalidated, Contexts, Iterators, sc
<1>4. Remaining(list, c.it) = <<>>
  BY <1>3 DEF Remaining
<1>5. b.end = end /\ b.search = Following(s, path, st)
  OBVIOUS
<1>6. b.search.depth = s.depth /\ b.search.from = st /\ s.depth \in Nat
  <2>1. b.search \in Searches
    BY <1>5, GivesOpened
  <2> QED BY <1>5, <2>1, SearchTyped DEF Following, Whole, Rest
<1>7. Starts(list, lv, d, b)
  <2> DEFINE depth == s.depth
  <2>1. Gives(Whole(goals, depth, path, st), end)
    BY DEF Following
  <2>2. b = [search |-> Whole(goals, depth, path, st), end |-> end]
    BY DEF Following
  <2> HIDE DEF goals, depth, b
  <2>3. Starts(list, lv, d, [search |-> Whole(goals, depth, path, st), end |-> end])
    BY <2>1, StartsWhole DEF goals
  <2> QED BY <2>2, <2>3
<1> HIDE DEF l, entry, u, B, x, s, c, b, goals
<1>8. Ends(x.search, x.end)
  BY <1>1, <1>2 DEF Ends
<1>9. Within(x, b, d.part)
  BY <1>1, <1>2, <1>5, <1>6, <1>8 DEF Within
<1>10. Again(B[Len(u)], Remaining(list, c.it), b.end) = x
  <2> DEFINE r == x.search
  <2>1. r \in Searches /\ x = [search |-> r, end |-> end]
    BY <1>1 DEF Accounts
  <2>2. Rest(<<>>, r.goals, r.depth, r.path, end) = r
    BY <1>1, <2>1 DEF Rest, Searches
  <2> HIDE DEF r
  <2>3. B[Len(u)] = x /\ x.search = r /\ x.end = end
    BY <1>1, <2>1 DEF x, r
  <2> QED BY <1>4, <1>5, <2>1, <2>2, <2>3 DEF Again
<1>11. Leaves(u, c, u)
  <2>1. l = 1 => c.visits # 0
    BY <1>2, <1>3
  <2>2. u # <<>>
    BY <1>1, <1>2
  <2> QED BY <1>1, <1>2, <1>3, <2>1, <2>2 DEF Leaves
<1>12. Turned(list, gen, u, B, lv, end, out, c, u)
  BY <1>1, <1>2, <1>11 DEF Turned
<1>13. Pushes(u, d, w)
  BY <1>1, OneMore DEF Pushes
<1>14. Within(Again(B[Len(u)], Remaining(list, c.it), b.end), b, d.part)
  BY <1>9, <1>10
<1> HIDE DEF w
<1>15. Runs(list, gen, w, lv, b.search.from, out)
  BY <1>7, <1>12, <1>13, <1>14, RunsPushed
<1> QED BY <1>6, <1>15 DEF w, u, entry

\* The context of a stack that entered a goal part.
Owns(t, part, owner) == owner = CHOOSE k \in 1..Len(t) : t[k].part = part

\* The goal part of a cut was entered, at the level of the cut.
LEMMA OwnerFound ==
  ASSUME NEW list, NEW gen, NEW next, NEW len, NEW t, NEW A, NEW lv, NEW st, NEW out,
         StackOf(t, next, gen, len), Seen(list, gen, t, A, lv, st, out), t[Len(t)].cursor # <<>>,
         NEW part, part = t[Len(t)].cursor[1].part, NEW owner, Owns(t, part, owner)
  PROVE  /\ owner \in 1..Len(t) /\ t[owner].part # None
         /\ lv[part] = A[owner].search.depth
<1> DEFINE l == Len(t)
<1>1. /\ t \in Seq(Contexts) /\ StackInv(t, next) /\ t # <<>> /\ Account(list, gen, t, A, lv)
  BY DEF Seen, StackOf
<1>2. l \in 1..l /\ l \in Nat
  BY <1>1
<1>3. part # None /\ 1 \in 1..Len(t[l].cursor)
  <2> DEFINE cs == t[l].cursor
  <2>1. t[l] \in Contexts
    BY <1>1, <1>2
  <2>2. cs \in Seq(Frames) /\ cs # <<>>
    BY <2>1 DEF Contexts
  <2> HIDE DEF cs
  <2>3. cs[1] \in Frames /\ 1 \in 1..Len(cs)
    BY <2>2
  <2>4. cs[1].part \in Nat
    BY <2>3 DEF Frames
  <2> QED BY <2>3, <2>4, SolverAssumption DEF cs
<1>4. PICK m \in 1..l : t[m].part = part
  BY <1>1, <1>2, <1>3 DEF StackInv
<1>5. m \in 1..Len(t)
  BY <1>4
<1>6. owner \in 1..Len(t) /\ t[owner].part = part
  BY <1>4, <1>5 DEF Owns
<1> HIDE DEF l
<1>7. Tells(list, IteratorOf(t, owner, gen), t[owner], A[owner], lv)
  BY <1>1, <1>6 DEF Account
<1>8. lv[part] = A[owner].search.depth
  BY <1>3, <1>6, <1>7 DEF Tells
<1> QED BY <1>3, <1>6, <1>8

\* A cut prunes what the reference abandons.
LEMMA CallCutAgrees ==
  ASSUME IInv, NEW outs, NEW lv, Agreed(outs, lv), CallCut
  PROVE  Reached(jobs', db', generation', recorded', outs, lv)
<1> DEFINE sc == Visited(Top)
           t == SeenStack
           out == outs[Len(jobs)]
           st == NowState
           part == sc.cursor[1].part
           owner == CHOOSE k \in 1..Len(t) : t[k].part = part
           entry == IF owner = 1 THEN 1 ELSE owner - 1
           d == NewContext(None, NextTerm(sc.cursor), sc.uc, generation)
           w == PrunedStack(t, entry) \o <<d>>
<1>1. AtGoal(sc) /\ IsValid(sc.it) /\ CurrentGoal(sc).op = "cut"
  BY DEF CallCut, AtSpecial
<1>2. Top.stack # <<>> /\ sc.cursor # <<>>
  BY <1>1 DEF AtGoal, InLoop
<1>3. /\ StackOf(t, nextPart, generation, Len(db)) /\ t # <<>> /\ t[Len(t)] = sc
      /\ sc \in Contexts /\ LevelMap(lv) /\ ListInv(db, generation)
      /\ st.live = Live(db) /\ generation \in Nat
  BY <1>2, TurnSeen DEF ListInv
<1>4. /\ jobs' = [jobs EXCEPT ![Len(jobs)].stack = w]
      /\ db' = db /\ generation' = generation /\ recorded' = recorded
  BY <1>3 DEF CallCut, SeenStack, PrunedStack, Continue, dbVars
<1>5. PICK A : /\ SeenBy(A, outs, lv)
               /\ AtItsGoal(TopAccount(A).search, TopAccount(A).end, lv)
               /\ TopAccount(A) \in Accounts
  BY <1>1, GoalSeen
<1> DEFINE a == A[Len(t)]
           s == a.search
<1>6. /\ Gives(s, a.end) /\ s.goals # <<>> /\ Head(s.goals).goal.op = "cut" /\ s.from = st
      /\ s.path = sc.uc /\ Head(s.goals).level = lv[part]
      /\ Spells(NextTerm(sc.cursor), lv, Tail(s.goals))
  BY <1>1, <1>3, <1>5 DEF AtItsGoal, OnTop, TopAccount
<1>7. Seen(db, generation, t, A, lv, st, out)
  BY <1>5 DEF SeenBy
<1>8. /\ owner \in 1..Len(t) /\ t[owner].part # None
      /\ lv[part] = A[owner].search.depth
  <2>1. t[Len(t)].cursor # <<>> /\ part = t[Len(t)].cursor[1].part
    BY <1>2, <1>3
  <2>3. Owns(t, part, owner)
    BY DEF Owns
  <2> HIDE DEF t, st, out, sc, part, owner
  <2> DEFINE list == db
             gen == generation
             next == nextPart
             len == Len(db)
  <2>2. StackOf(t, next, gen, len) /\ Seen(list, gen, t, A, lv, st, out)
    BY <1>3, <1>7
  <2> HIDE DEF list, gen, next, len
  <2> QED BY <2>1, <2>2, <2>3, OwnerFound
<1>9. PICK end : Gives(Following(s, s.path, s.from), end) /\ a.end = CutTo(Head(s.goals).level, end)
  <2> HIDE DEF s
  <2> QED BY <1>6, GivesCut
<1>10. end \in States /\ end.cut <= s.depth
  <2> DEFINE f == Following(s, s.path, s.from)
  <2>1. f.depth = s.depth
    BY DEF Following, Whole, Rest
  <2> HIDE DEF f
  <2>2. end \in States /\ end.cut \in 0..f.depth
    BY <1>9, GivesOpened DEF f, Sound
  <2> QED BY <2>1, <2>2
<1>11. Cutting(db, generation, t, A, lv, st, out, owner, end)
  <2>1. \A k \in 1..Len(t) : t[k].it.pos >= 1
    BY <1>3 DEF StackOf, InList
  <2>2. ~Calls(s)
    BY <1>6 DEF Calls, Special
  <2>3. t \in Seq(Contexts) /\ Stored(db)
    BY <1>3 DEF StackOf, ListInv
  <2>4. a.end = CutTo(A[owner].search.depth, end)
    BY <1>6, <1>8, <1>9
  <2> HIDE DEF t, st, out, owner
  <2> QED BY <1>6, <1>7, <1>8, <1>10, <2>1, <2>2, <2>3, <2>4 DEF Cutting
<1>12. d \in Contexts /\ d.part = None /\ d.it = NewIterator(generation) /\ d.uc = sc.uc
       /\ d.cursor = NextTerm(sc.cursor)
  <2> HIDE DEF sc
  <2>1. NextTerm(sc.cursor) \in Seq(Frames)
    BY <1>2, <1>3, NextTermTyped DEF Contexts
  <2> QED BY <1>3, <2>1 DEF NewContext, NewIterator, Contexts, Iterators
<1>13. Gives(Following(s, sc.uc, st), end)
  BY <1>6, <1>9
<1> HIDE DEF t, st, out, owner, d, sc, s
<1>14. Runs(db, generation, w, lv, st, out)
  <2> DEFINE list == db
             gen == generation
             path == sc.uc
  <2>1. Cutting(list, gen, t, A, lv, st, out, owner, end) /\ ListInv(list, gen)
        /\ st.live = Live(list) /\ d.it = NewIterator(gen) /\ d.uc = path
        /\ Gives(Following(A[Len(t)].search, path, st), end)
        /\ Spells(d.cursor, lv, Tail(A[Len(t)].search.goals))
    BY <1>3, <1>6, <1>11, <1>12, <1>13 DEF s
  <2> HIDE DEF list, gen, path, entry
  <2>2. LET e == IF owner = 1 THEN 1 ELSE owner - 1
        IN  Runs(list, gen, PrunedStack(t, e) \o <<d>>, lv, st, out)
    BY <1>3, <1>12, <2>1, CutRuns
  <2> QED BY <2>2 DEF list, gen, entry
<1> HIDE DEF w
<1>15. /\ TopOnly(jobs, jobs') /\ jobs'[Len(jobs)].stack = w
       /\ jobs'[Len(jobs)].solutions = Top.solutions
  <2>1. LeavesTop(jobs', w)
    BY <1>4 DEF LeavesTop
  <2> QED BY <2>1, JobLeft
<1>16. Runs(db, generation, w, lv, State(db, Top.solutions, recorded), outs[Len(jobs)])
  BY <1>14 DEF st, NowState, out
<1>17. Reached(jobs', db, generation, recorded, outs, lv)
  BY <1>15, <1>16, TurnStep, SameWorld
<1> QED BY <1>4, <1>17

\* A turn that changes none of this.
LEMMA StillAgreed ==
  ASSUME NEW outs, NEW lv, Agreed(outs, lv), UNCHANGED <<dbVars, jobs, recorded>>
  PROVE  Reached(jobs', db', generation', recorded', outs, lv)
<1>1. jobs' = jobs /\ db' = db /\ generation' = generation /\ recorded' = recorded
  BY DEF dbVars
<1> QED BY <1>1 DEF Agreed

\* The case that was chosen stays.
LEMMA GivenStays == ASSUME [Next]_vars PROVE given' = given
<1>1. CASE UNCHANGED vars
  BY <1>1 DEF vars
<1>2. CASE \E t \in given.targets : BeginSlice(t)
  BY <1>2 DEF BeginSlice
<1>3. CASE Turn
  BY <1>3 DEF Turn, EmitSolution, DebugHalt, DebugStop, Exhausted, CallCut, CallFindall,
              ReturnFindall, CallAssert, CallRetract, TryClause, FinishJob
<1> QED BY <1>1, <1>2, <1>3 DEF Next

\* Every step agrees, ...
LEMMA StepAgrees ==
  ASSUME IInv, NEW outs, NEW lv, Agreed(outs, lv), [Next]_vars
  PROVE  \E outs2, lv2 : Reached(jobs', db', generation', recorded', outs2, lv2)
<1>1. CASE EmitSolution
  <2>1. db' = db /\ generation' = generation /\ recorded' = recorded
    BY <1>1 DEF EmitSolution, dbVars
  <2> QED BY <1>1, <2>1, EmitSolutionAgrees
<1>2. CASE DebugHalt
  <2>1. /\ db' = db /\ generation' = generation /\ recorded' = recorded
        /\ Top.stack # <<>> /\ Leave(Visited(Top), <<>>)
    BY <1>2 DEF DebugHalt, dbVars, InLoop
  <2> QED BY <2>1, VisitAgrees
<1>3. CASE DebugStop
  <2>1. /\ db' = db /\ generation' = generation /\ recorded' = recorded
        /\ Top.stack # <<>> /\ Leave(Visited(Top), <<>>)
    BY <1>3 DEF DebugStop, dbVars, InLoop
  <2> QED BY <2>1, VisitAgrees
<1>4. CASE Exhausted
  <2>1. db' = db /\ generation' = generation /\ recorded' = recorded
    BY <1>4 DEF Exhausted, dbVars
  <2> QED BY <1>4, <2>1, ExhaustedAgrees
<1>5. CASE CallCut
  BY <1>5, CallCutAgrees
<1>6. CASE CallFindall
  BY <1>6, CallFindallAgrees
<1>7. CASE ReturnFindall
  BY <1>7, ReturnFindallAgrees
<1>8. CASE CallAssert
  BY <1>8, CallAssertAgrees
<1>9. CASE CallRetract
  BY <1>9, CallRetractAgrees
<1>10. CASE TryClause
  BY <1>10, TryClauseAgrees
<1>11. CASE FinishJob
  BY <1>11, StillAgreed DEF FinishJob
<1>12. CASE \E t \in given.targets : BeginSlice(t)
  BY <1>12, StillAgreed DEF BeginSlice
<1>13. CASE UNCHANGED vars
  BY <1>13, StillAgreed DEF vars
<1> QED BY <1>1, <1>2, <1>3, <1>4, <1>5, <1>6, <1>7, <1>8, <1>9, <1>10, <1>11, <1>12, <1>13
        DEF Next, Turn

\* ... so the invariant is kept.
LEMMA AgreesKept == ASSUME IInv, Agrees, [Next]_vars PROVE Agrees'
<1> SUFFICES ASSUME Meaning[given'].ended PROVE \E outs, lv : Agreed(outs, lv)'
  BY DEF Agrees
<1>1. given' = given
  BY GivenStays
<1>2. PICK outs, lv : Agreed(outs, lv)
  BY <1>1 DEF Agrees
<1>3. PICK outs2, lv2 : Reached(jobs', db', generation', recorded', outs2, lv2)
  BY <1>2, StepAgrees
<1>4. Agreed(outs2, lv2)'
  BY <1>1, <1>3 DEF Agreed, Reached
<1> QED BY <1>4

\* The meaning of a query is what the reference leaves of it.
LEMMA MeaningAnswers ==
  ASSUME NEW c \in Cases
  PROVE  /\ Stored(c.db) /\ HasBuiltin(c.db) /\ c.query \in Seq(Goals)
         /\ Meaning[c].ended => Answers(c.query, State(c.db, <<>>, 0), Meaning[c])
<1> DEFINE goals == c.query
           list == c.db
           y == Meaning[c]
           st == State(list, <<>>, 0)
           s == Whole(At(goals, 1), 1, <<>>, st)
           T == [head : CaseHeads, body : Seq(CaseGoals), builtin : BOOLEAN,
                 appendGen : Nat, retireGen : Nat]
<1>1. goals \in Seq(CaseGoals) /\ list \in Seq(T)
  BY SolverAssumption
<1>2. MaxSteps \in Nat /\ HasBuiltin(list)
  BY ReferenceAssumption DEF HasBuiltin
<1>3. goals \in Seq(Goals)
  BY <1>1, SeqMonotonic DEF Goals
<1>4. Stored(list)
  <2>1. Seq(CaseGoals) \subseteq Seq(Goals) /\ CaseHeads \subseteq Heads
    BY SeqMonotonic DEF Goals, Heads
  <2>2. T \subseteq Clauses
    BY <2>1 DEF Clauses
  <2> HIDE DEF T, list
  <2>3. list \in Seq(Clauses)
    BY <1>1, <2>2, SeqMonotonic
  <2>4. ASSUME NEW k \in 1..Len(list) PROVE Plain(list[k]) \in PlainClauses
    <3> DEFINE x == list[k]
    <3>1. x \in T
      BY <1>1
    <3> HIDE DEF x
    <3>2. Plain(x) \in PlainClauses
      BY <3>1 DEF Plain, PlainClauses, T
    <3> QED BY <3>2 DEF x
  <2> QED BY <2>3, <2>4 DEF Stored
<1>5. /\ At(goals, 1) \in Seq(Levelled) /\ Len(At(goals, 1)) = Len(goals)
      /\ \A k \in 1..Len(goals) : At(goals, 1)[k].level = 1
  <2> DEFINE S == CaseGoals \cup {Subgoal(a) : a \in Atoms}
             one == 1
  <2>1. one \in Nat /\ Levelled = [goal : S, level : Nat]
    BY DEF Levelled
  <2>2. CaseGoals \subseteq S
    OBVIOUS
  <2> HIDE DEF S, goals, one
  <2>3. goals \in Seq(S)
    BY <1>1, <2>2, SeqMonotonic
  <2>4. /\ At(goals, one) \in Seq(Levelled) /\ Len(At(goals, one)) = Len(goals)
        /\ \A k \in 1..Len(goals) : At(goals, one)[k] = [goal |-> goals[k], level |-> one]
    BY <2>1, <2>3, AtTyped
  <2> DEFINE gs == At(goals, one)
  <2>5. gs = At(goals, 1) /\ one = 1
    BY DEF one
  <2> HIDE DEF gs
  <2>6. ASSUME NEW k \in 1..Len(goals) PROVE gs[k].level = one
    <3>1. gs[k] = [goal |-> goals[k], level |-> one]
      BY <2>4 DEF gs
    <3> QED BY <3>1
  <2>7. gs \in Seq(Levelled) /\ Len(gs) = Len(goals)
    BY <2>4 DEF gs
  <2> QED BY <2>5, <2>6, <2>7
<1>6. st \in States /\ st.cut = 0
  <2> DEFINE ss == <<>>
             errs == 0
  <2>1. ss \in Seq(Seq(Nat)) /\ errs \in Nat
    OBVIOUS
  <2> HIDE DEF ss, errs, list
  <2>2. State(list, ss, errs) \in States
    BY <1>4, <2>1, StateTyped
  <2> QED BY <2>2 DEF State, ss, errs
<1>7. ASSUME y.ended PROVE Answers(goals, st, y)
  <2> DEFINE gs == At(goals, 1)
  <2>1. y = Search[MaxSteps][s]
    BY DEF Meaning
  <2> HIDE DEF goals, st, gs
  <2>2. s \in Searches
    <3> DEFINE one == 1
               path == <<>>
    <3>1. gs \in Seq(Levelled) /\ one \in Nat /\ path \in Seq(Nat)
      BY <1>5 DEF gs
    <3> HIDE DEF one, path
    <3>2. Whole(gs, one, path, st) \in Searches
      BY <1>6, <3>1, WholeTyped
    <3> QED BY <3>2 DEF gs, one, path
  <2>3. s.from = st /\ s.depth = 1 /\ s.goals = gs
    BY DEF Whole, Rest, gs
  <2>4. Proper(s)
    BY <1>5, <1>6, <2>3 DEF Proper, gs
  <2> HIDE DEF s, y
  <2>5. Gives(s, y)
    BY <1>2, <1>7, <2>1, <2>2, <2>4 DEF Gives
  <2> QED BY <2>5 DEF Answers, s, gs
<1> QED BY <1>2, <1>3, <1>4, <1>7

\* A meaning that ends is a state.
LEMMA MeaningTyped == ASSUME NEW c \in Cases, Meaning[c].ended PROVE Meaning[c] \in States
<1> DEFINE y == Meaning[c]
           st == State(c.db, <<>>, 0)
<1>1. Answers(c.query, st, y)
  BY MeaningAnswers
<1> HIDE DEF y, st
<1>2. y \in States
  BY <1>1, GivesOpened DEF Answers
<1> QED BY <1>2 DEF y

\* The first state is the start of the search that gives the meaning.
LEMMA FirstAgrees == ASSUME Init PROVE Agrees
<1> SUFFICES ASSUME Meaning[given].ended PROVE \E outs, lv : Agreed(outs, lv)
  BY DEF Agrees
<1> DEFINE goals == given.query
           y == Meaning[given]
           st == State(db, <<>>, 0)
           lv == [p \in Nat |-> 1]
           outs == [n \in Nat |-> Clear(y)]
<1>1. /\ given \in Cases /\ db = given.db /\ recorded = 0
      /\ \E gen \in 0..generation : jobs = <<NewJob(goals, 0, gen)>>
  BY DEF Init
<1>2. generation \in Nat /\ WellStamped(db, generation)
  BY InitInv DEF IInv, DbInv
<1>3. Stored(db) /\ HasBuiltin(db) /\ goals \in Seq(Goals) /\ Answers(goals, st, y)
  BY <1>1, MeaningAnswers
<1>4. ListInv(db, generation)
  BY <1>2, <1>3 DEF ListInv
<1>5. st.live = Live(db)
  BY DEF State
<1>6. LevelMap(lv) /\ lv[0] = 1 /\ 0 \in Nat
  BY DEF LevelMap
<1>7. PICK gen \in 0..generation : jobs = <<NewJob(goals, 0, gen)>>
  BY <1>1
<1> DEFINE job == NewJob(goals, 0, gen)
<1>8. /\ job.solutions = <<>> /\ Len(jobs) = 1 /\ jobs[1] = job
  BY <1>7 DEF NewJob
<1> HIDE DEF goals, y, st, lv
<1>9. Runs(db, generation, job.stack, lv, st, Clear(y))
  <2> DEFINE list == db
             g == generation
             part == 0
  <2>1. ListInv(list, g) /\ part \in Nat /\ lv[part] = 1 /\ st.live = Live(list)
    BY <1>4, <1>5, <1>6
  <2> HIDE DEF list, g, part
  <2>2. Runs(list, g, NewJob(goals, part, gen).stack, lv, st, Clear(y))
    BY <1>3, <1>6, <2>1, RunsStarted
  <2> QED BY <2>2 DEF list, g, part
<1>10. outs[1] = Clear(y)
  OBVIOUS
<1> HIDE DEF outs, job
<1>11. Runs(db, generation, jobs[Len(jobs)].stack, lv,
            State(db, jobs[Len(jobs)].solutions, recorded), outs[Len(jobs)])
  BY <1>1, <1>8, <1>9, <1>10 DEF st
<1>12. 1..(Len(jobs) - 1) = {}
  BY <1>8
<1>13. Accounted(jobs, db, generation, recorded, outs, lv, y)
  BY <1>6, <1>10, <1>11, <1>12 DEF Accounted
<1>14. Agreed(outs, lv)
  BY <1>1, <1>3, <1>13 DEF Agreed, Reached, y
<1> QED BY <1>14

\* The invariant holds.
LEMMA AlwaysAgrees == Spec => [](IInv /\ Agrees)
<1>1. Init => IInv /\ Agrees
  BY InitInv, FirstAgrees
<1>2. IInv /\ Agrees /\ [Next]_vars => (IInv /\ Agrees)'
  BY NextKeeps, AgreesKept
<1> QED BY <1>1, <1>2, PTL DEF Spec

-----------------------------------------------------------------------------
(* What the invariant says of the solutions.                               *)

\* A search that goes on keeps the solutions it starts from.
LEMMA EndsSound ==
  ASSUME NEW s \in Searches, NEW y \in States, Ends(s, y)
  PROVE  IsPrefix(s.from.solutions, y.solutions)
<1> DEFINE f == s.from
<1>1. f \in States /\ s.depth \in Nat
  BY SearchTyped
<1>2. f.solutions \in Seq(Seq(Nat)) /\ f.cut \in Nat
  BY <1>1, StateFields
<1> HIDE DEF f
<1>3. CASE f.cut # 0
  <2>1. \E c : Like(Returned(f, s.depth + 1), f, c)
    <3>1. Like(f, f, f.cut)
      BY <1>1, LikeCuts
    <3> QED BY <1>2, <3>1, LikeReturned
  <2>2. y.solutions = f.solutions
    BY <1>3, <2>1 DEF Ends, Like, f
  <2> QED BY <1>2, <2>2, PrefixItself DEF f
<1>4. CASE f.cut = 0 /\ s.choices = <<>> /\ s.goals # <<>>
  <2>1. y = f
    BY <1>4 DEF Ends, f
  <2> QED BY <1>2, <2>1, PrefixItself DEF f
<1>5. CASE f.cut = 0 /\ ~(s.choices = <<>> /\ s.goals # <<>>)
  <2>1. Gives(s, y)
    BY <1>5 DEF Ends, f
  <2> QED BY <2>1, GivesOpened DEF Sound
<1> QED BY <1>3, <1>4, <1>5

\* So does a stack, down to its root.
LEMMA StackSound ==
  ASSUME NEW list, NEW gen, NEW t \in Seq(Contexts), t # <<>>, NEW A, NEW lv,
         Account(list, gen, t, A, lv), NEW ss \in Seq(Seq(Nat)),
         IsPrefix(ss, A[Len(t)].end.solutions)
  PROVE  IsPrefix(ss, A[1].end.solutions)
<1> DEFINE l == Len(t)
           T == {i \in 1..l : ~IsPrefix(ss, A[i].end.solutions)}
<1>1. l \in Nat /\ 1 \in 1..l
  OBVIOUS
<1> HIDE DEF l
<1>2. \A k \in 1..l : A[k] \in Accounts
  BY DEF Account, l
<1> SUFFICES ASSUME ~IsPrefix(ss, A[1].end.solutions) PROVE FALSE
  OBVIOUS
<1>3. T \in SUBSET (1..l) /\ T # {}
  BY <1>1
<1>4. \A i : i \in T <=> i \in 1..l /\ ~IsPrefix(ss, A[i].end.solutions)
  OBVIOUS
<1> HIDE DEF T
<1>5. PICK n \in T : \A i \in T : n >= i
  BY <1>1, <1>3, GreatestNumber
<1>6. n \in 1..l /\ ~IsPrefix(ss, A[n].end.solutions)
  BY <1>4, <1>5
<1>7. n # l
  BY <1>6 DEF l
<1>8. n + 1 \in 1..l /\ n \in 1..(l - 1) /\ ~(n >= n + 1)
  BY <1>1, <1>6, <1>7
<1>9. IsPrefix(ss, A[n + 1].end.solutions)
  BY <1>4, <1>5, <1>8
<1>10. Within(A[n], A[n + 1], t[n + 1].part)
  BY <1>8 DEF Account, l
<1> DEFINE s == A[n].search
           y == A[n].end
<1>11. s \in Searches /\ y \in States /\ s.from = A[n + 1].end /\ Ends(s, y) /\ s.from \in States
  BY <1>2, <1>6, <1>8, <1>10 DEF Within, Accounts
<1> HIDE DEF s, y
<1>12. IsPrefix(s.from.solutions, y.solutions)
  BY <1>11, EndsSound
<1>13. s.from.solutions \in Seq(Seq(Nat)) /\ y.solutions \in Seq(Seq(Nat))
  BY <1>11, StateFields
<1>14. IsPrefix(ss, s.from.solutions)
  BY <1>9, <1>11
<1>15. IsPrefix(ss, y.solutions)
  <2> DEFINE S == Seq(Nat)
  <2>1. ss \in Seq(S) /\ s.from.solutions \in Seq(S) /\ y.solutions \in Seq(S)
    BY <1>13
  <2> HIDE DEF S
  <2> QED BY <1>12, <1>14, <2>1, PrefixOfPrefix
<1> QED BY <1>6, <1>15 DEF y

\* What a job leaves is a state that has the solutions it has found.
LEMMA RunsSound ==
  ASSUME NEW list, NEW gen, NEW t \in Seq(Contexts), NEW lv, NEW st \in States, NEW out,
         Runs(list, gen, t, lv, st, out)
  PROVE  out \in States /\ IsPrefix(st.solutions, out.solutions)
<1>0. st.solutions \in Seq(Seq(Nat))
  BY StateFields
<1>1. PICK A : /\ Account(list, gen, t, A, lv)
               /\ t = <<>> => out = st
               /\ t # <<>> => /\ out = Clear(A[1].end)
                              /\ A[Len(t)].search.from = st
                              /\ Ends(A[Len(t)].search, A[Len(t)].end)
  BY DEF Runs
<1>2. CASE t = <<>>
  BY <1>0, <1>1, <1>2, PrefixItself
<1>3. CASE t # <<>>
  <2>1. 1 \in 1..Len(t) /\ Len(t) \in 1..Len(t)
    BY <1>3
  <2>2. A[1] \in Accounts /\ A[Len(t)] \in Accounts
    BY <1>1, <2>1 DEF Account
  <2> DEFINE s == A[Len(t)].search
             y == A[Len(t)].end
             e == A[1].end
  <2>3. s \in Searches /\ y \in States /\ e \in States /\ s.from = st /\ Ends(s, y) /\ out = Clear(e)
    BY <1>1, <1>3, <2>2 DEF Accounts
  <2> HIDE DEF s, y, e
  <2>4. IsPrefix(st.solutions, y.solutions)
    BY <2>3, EndsSound
  <2>5. IsPrefix(st.solutions, e.solutions)
    BY <1>0, <1>1, <1>3, <2>4, StackSound DEF y, e
  <2> QED BY <2>3, <2>5, Cleared
<1> QED BY <1>2, <1>3

\* So does one that waits for a findall().
LEMMA WaitingSound ==
  ASSUME NEW list, NEW gen, NEW t \in Seq(Contexts), NEW lv, NEW ss \in Seq(Seq(Nat)),
         NEW sub \in States, NEW out, Waiting(list, gen, t, lv, ss, sub, out)
  PROVE  out \in States /\ IsPrefix(ss, out.solutions)
<1>1. PICK A : /\ t # <<>> /\ Account(list, gen, t, A, lv)
               /\ out = Clear(A[1].end)
               /\ Awaits(A[Len(t)], ss, sub)
  BY DEF Waiting
<1>2. 1 \in 1..Len(t) /\ Len(t) \in 1..Len(t)
  BY <1>1
<1>3. A[1] \in Accounts /\ A[Len(t)] \in Accounts
  BY <1>1, <1>2 DEF Account
<1> DEFINE s == A[Len(t)].search
           y == A[Len(t)].end
           e == A[1].end
           b == Back(s, sub)
<1>4. s \in Searches /\ y \in States /\ e \in States /\ s.from.solutions = ss /\ out = Clear(e)
      /\ Collects(s, sub, y)
  BY <1>1, <1>3 DEF Accounts, Awaits
<1> HIDE DEF s, y, e
<1>5. b.solutions = ss
  <2> DEFINE x == [sub EXCEPT !.solutions = ss]
  <2>1. x \in States /\ x.solutions = ss
    BY StateExcept
  <2>2. b = Clear(x)
    BY <1>4 DEF Back, Clear
  <2> HIDE DEF x, b
  <2> QED BY <2>1, <2>2, Cleared
<1> HIDE DEF b
<1>6. IsPrefix(ss, y.solutions)
  <2>1. CASE y = b
    BY <1>5, <2>1, PrefixItself
  <2>2. CASE Gives(Following(s, Append(s.path, 0), b), y)
    <3> DEFINE w == Following(s, Append(s.path, 0), b)
    <3>1. w.from = b
      BY DEF Following, Whole, Rest
    <3> HIDE DEF w
    <3>2. IsPrefix(w.from.solutions, y.solutions)
      BY <2>2, GivesOpened DEF Sound, w
    <3> QED BY <1>5, <3>1, <3>2
  <2> QED BY <1>4, <2>1, <2>2 DEF Collects, b
<1>7. IsPrefix(ss, e.solutions)
  BY <1>1, <1>6, StackSound DEF y, e
<1> QED BY <1>4, <1>7, Cleared

\* The states that all jobs leave.
LEMMA OutsSound ==
  ASSUME IInv, NEW outs, NEW lv, Agreed(outs, lv)
  PROVE  \A n \in 1..Len(jobs) : outs[n] \in States /\ IsPrefix(jobs[n].solutions, outs[n].solutions)
<1> DEFINE l == Len(jobs)
           m == Meaning[given]
           Good(n) == outs[n] \in States /\ IsPrefix(jobs[n].solutions, outs[n].solutions)
           T == {i \in 1..l : ~Good(i)}
<1>1. /\ Stored(db) /\ recorded \in Nat
      /\ Accounted(jobs, db, generation, recorded, outs, lv, m)
  BY DEF Agreed, Reached
<1>2. /\ jobs \in Seq(SearchJobs) /\ jobs # <<>> /\ l \in Nat /\ l \in 1..l
  <2>1. jobs \in Seq(SearchJobs) /\ jobs # <<>>
    BY DEF IInv, JobsInv
  <2> QED BY <2>1
<1> HIDE DEF m
<1>3. \A n \in 1..l : jobs[n].stack \in Seq(Contexts) /\ jobs[n].solutions \in Seq(Seq(Nat))
  <2> SUFFICES ASSUME NEW n \in 1..l
               PROVE  jobs[n].stack \in Seq(Contexts) /\ jobs[n].solutions \in Seq(Seq(Nat))
    OBVIOUS
  <2>1. jobs[n] \in SearchJobs
    BY <1>2
  <2> QED BY <2>1 DEF SearchJobs
<1>4. Good(l)
  <2> DEFINE ss == jobs[l].solutions
             st == State(db, ss, recorded)
             t == jobs[l].stack
             out == outs[l]
  <2>1. ss \in Seq(Seq(Nat)) /\ t \in Seq(Contexts)
    BY <1>2, <1>3
  <2>2. Runs(db, generation, t, lv, st, out)
    BY <1>1 DEF Accounted
  <2>3. st.solutions = ss
    BY DEF State
  <2> HIDE DEF t, out, ss
  <2>4. st \in States
    BY <1>1, <2>1, StateTyped
  <2> HIDE DEF st
  <2>5. out \in States /\ IsPrefix(ss, out.solutions)
    BY <2>1, <2>2, <2>3, <2>4, RunsSound
  <2> QED BY <2>5 DEF out, ss
<1>5. ASSUME NEW n \in 1..(l - 1), Good(n + 1) PROVE Good(n)
  <2> DEFINE ss == jobs[n].solutions
             sub == outs[n + 1]
             t == jobs[n].stack
             out == outs[n]
  <2>1. n \in 1..l
    BY <1>2
  <2>2. ss \in Seq(Seq(Nat)) /\ t \in Seq(Contexts) /\ sub \in States
    BY <1>3, <1>5, <2>1
  <2>3. Waiting(db, generation, t, lv, ss, sub, out)
    BY <1>1 DEF Accounted
  <2> HIDE DEF t, out, ss, sub
  <2>4. out \in States /\ IsPrefix(ss, out.solutions)
    BY <2>2, <2>3, WaitingSound
  <2> QED BY <2>4 DEF out, ss
<1> HIDE DEF l
<1> SUFFICES ASSUME NEW k \in 1..l, ~Good(k) PROVE FALSE
  BY DEF l
<1> HIDE DEF Good
<1>6. T \in SUBSET (1..l) /\ T # {}
  OBVIOUS
<1>7. \A i : i \in T <=> i \in 1..l /\ ~Good(i)
  OBVIOUS
<1> HIDE DEF T
<1>8. PICK n \in T : \A i \in T : n >= i
  BY <1>2, <1>6, GreatestNumber
<1>9. n \in 1..l /\ ~Good(n) /\ n # l
  BY <1>4, <1>7, <1>8
<1>10. n + 1 \in 1..l /\ n \in 1..(l - 1) /\ ~(n >= n + 1)
  BY <1>2, <1>9
<1>11. Good(n + 1)
  BY <1>7, <1>8, <1>10
<1> QED BY <1>5, <1>9, <1>10, <1>11

\* And it implies what is to be shown.
LEMMA AgreesSolves == ASSUME IInv, Agrees PROVE SolvesLikeReference
<1> DEFINE m == Meaning[given]
<1> SUFFICES ASSUME m.ended
             PROVE  /\ IsPrefix(jobs[1].solutions, m.solutions)
                    /\ Finished /\ jobs[1].stack = <<>> =>
                         /\ jobs[1].solutions = m.solutions
                         /\ recorded = m.errors
                         /\ Live(db) = m.live
  BY DEF SolvesLikeReference
<1>1. PICK outs, lv : Agreed(outs, lv)
  BY DEF Agrees
<1>2. m \in States
  BY MeaningTyped DEF IInv, SliceInv
<1>3. /\ Accounted(jobs, db, generation, recorded, outs, lv, m)
  BY <1>1 DEF Agreed, Reached
<1>4. jobs \in Seq(SearchJobs) /\ 1 \in 1..Len(jobs) /\ Len(jobs) \in Nat
  <2>1. jobs \in Seq(SearchJobs) /\ jobs # <<>>
    BY DEF IInv, JobsInv
  <2> QED BY <2>1
<1> HIDE DEF m
<1>5. outs[1] = Clear(m)
  BY <1>3 DEF Accounted
<1>6. /\ Clear(m).solutions = m.solutions /\ Clear(m).errors = m.errors
      /\ Clear(m).live = m.live
  BY <1>2, Cleared
<1>7. IsPrefix(jobs[1].solutions, m.solutions)
  <2>1. IsPrefix(jobs[1].solutions, outs[1].solutions)
    BY <1>1, <1>4, OutsSound
  <2> QED BY <1>5, <1>6, <2>1
<1>8. ASSUME jobs[1].stack = <<>>
      PROVE  jobs[1].solutions = m.solutions /\ recorded = m.errors /\ Live(db) = m.live
  <2>1. Len(jobs) = 1
    <3>1. Len(jobs) > 1 => 1 \in 1..(Len(jobs) - 1)
      BY <1>4
    <3>2. 1 \in 1..(Len(jobs) - 1) => jobs[1].stack # <<>>
      BY DEF IInv, JobsInv, Waits
    <3>3. ~(Len(jobs) > 1)
      BY <1>8, <3>1, <3>2
    <3> DEFINE n == Len(jobs)
    <3>4. n \in Nat /\ 1 \in 1..n /\ ~(n > 1)
      BY <1>4, <3>3
    <3> HIDE DEF n
    <3>5. n = 1
      BY <3>4
    <3> QED BY <3>5 DEF n
  <2>2. Runs(db, generation, jobs[1].stack, lv, State(db, jobs[1].solutions, recorded), outs[1])
    BY <1>3, <2>1 DEF Accounted
  <2>3. outs[1] = State(db, jobs[1].solutions, recorded)
    BY <1>8, <2>2 DEF Runs
  <2>4. /\ outs[1].solutions = jobs[1].solutions /\ outs[1].errors = recorded
        /\ outs[1].live = Live(db)
    BY <2>3 DEF State
  <2> QED BY <1>5, <1>6, <2>4
<1> QED BY <1>7, <1>8

\* performSlice() solves every query as the recursive reading of the program
\* does: it finds those solutions, on those paths and in that order, and its
\* stack runs empty with that database and as many errors.
THEOREM SolvesAsItMeans == Spec => []SolvesLikeReference
<1>1. IInv /\ Agrees => SolvesLikeReference
  BY AgreesSolves
<1> QED BY <1>1, AlwaysAgrees, PTL

=============================================================================
