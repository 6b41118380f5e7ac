------------------------------ MODULE MCSolver ------------------------------
(***************************************************************************)
(* Families of small programs for Solver.  Every family is all programs of *)
(* a shape: two rules for p, with every body of up to two goals from a     *)
(* set, before the facts they work on.  In the family with nested searches *)
(* the second rule has one goal less.  No rule of a family is recursive.   *)
(***************************************************************************)
EXTENDS SolverReference

P == <<"p", 1>>
Q1 == <<"q", 1>>
Q2 == <<"q", 2>>
R == <<"r", 1>>
Free == <<"q", 0>>      \* an atom whose argument is an unbound variable
Bad == <<"div", 0>>     \* a builtin call with a unification error
Good == <<"div", 1>>

Calling(a) == [op |-> "call", atom |-> a]
Negating(a) == [op |-> "not", atom |-> a]
Cut == [op |-> "cut"]
Asserting(a) == [op |-> "assert", atom |-> a]
Retracting(a) == [op |-> "retract", atom |-> a]
Collecting(a, out) == [op |-> "findall", atom |-> a, out |-> out]

MCGround == {P, Q1, Q2, R, Bad, Good}
MCOutcome ==
  [a \in {P, Q1, Q2, R, Free, Bad, Good} |->
     IF a = Good THEN "last" ELSE IF a = Bad THEN "error" ELSE "not"]

Clause(head, body) == [head |-> head, body |-> body, builtin |-> FALSE]
Builtin == [head |-> Good, body |-> <<>>, builtin |-> TRUE]

\* The list the parser builds: the builtin, then the program, each clause with
\* its generation.
Listing(program) ==
  LET cs == <<Builtin>> \o program IN
  [k \in 1..Len(cs) |->
     [head |-> cs[k].head, body |-> cs[k].body, builtin |-> cs[k].builtin,
      appendGen |-> k, retireGen |-> 0]]

\* An earlier job has retracted the clause at a place of a list.
Retracted(list, k) == [list EXCEPT ![k].retireGen = Len(list) + 1]

Bodies(goals) ==
  {<<>>} \cup {<<g>> : g \in goals} \cup {<<g, h>> : g, h \in goals}

Rules(head, bodies) == {<<Clause(head, b1), Clause(head, b2)>> : b1, b2 \in bodies}

\* The second rule has at most one goal.
ShortRules(head, bodies) == {ps \in Rules(head, bodies) : Len(ps[2].body) < 2}

\* Programs that change the facts they search.
UpdateGoals == {Calling(Q1), Negating(Q1), Cut, Asserting(Q1), Retracting(Q1)}
UpdateDatabases ==
  {Listing(ps \o <<Clause(Q1, <<>>), Clause(Q1, <<>>)>>) :
     ps \in Rules(P, Bodies(UpdateGoals))}

\* Programs that cut at two levels, and nested searches.
CutDatabases ==
  {Listing(ps \o qs \o <<Clause(R, <<>>), Clause(R, <<>>)>>) :
     ps \in Rules(P, Bodies({Calling(Q1), Cut})),
     qs \in Rules(Q1, {<<Calling(R)>>, <<Calling(R), Cut>>, <<Cut, Calling(R)>>})}

\* Programs with nested searches and errors.
FindallGoals ==
  {Collecting(Q1, None), Collecting(Q1, 2), Calling(Q1), Cut, Asserting(Q1), Calling(Bad),
   Asserting(Free)}
FindallDatabases ==
  {Retracted(Listing(ps \o <<Clause(Q1, <<>>), Clause(Q1, <<>>), Clause(Q2, <<>>)>>), 4) :
     ps \in ShortRules(P, Bodies(FindallGoals))}
FindallQueries == {<<Collecting(P, None), Calling(Q1)>>}
CallQuery == <<Calling(P), Calling(Q1)>>
CutQuery == <<Calling(R), Cut, Calling(P)>>

\* A few programs, for the debugger.
DebugDatabases ==
  {Listing(<<Clause(P, <<Calling(Q1), g>>), Clause(P, <<Asserting(Q1)>>),
             Clause(Q1, <<>>), Clause(Q1, <<>>)>>) : g \in UpdateGoals}
DebugQueries == {CallQuery, <<Collecting(P, None), Retracting(Q1)>>}

Runs(databases, queries, targets) ==
  {[db |-> d, query |-> q, targets |-> targets] : d \in databases, q \in queries}

\* Each family with the queries that work on it, without a debugger; and the
\* few programs with one.
MCCases ==
  Runs(UpdateDatabases \cup FindallDatabases, FindallQueries \cup {CallQuery}, {"REGULAR"})
    \cup Runs(CutDatabases, FindallQueries \cup {CallQuery, CutQuery}, {"REGULAR"})
    \cup Runs(DebugDatabases, DebugQueries, {"REGULAR", "START", "STEP_INTO", "STOP"})
MCFindallCases == Runs(FindallDatabases, FindallQueries, {"REGULAR"})

\* No case runs into the bound of the reference, so each is compared to its end.
ASSUME MCCasesEnd == \A c \in Cases : Meaning[c].ended

=============================================================================
