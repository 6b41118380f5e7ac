------------------------- MODULE LogicalUpdateView -------------------------
(***************************************************************************)
(* What the clause database promises a program, with no generation, stamp, *)
(* tombstone or list position: a sequence of live clauses, and searches    *)
(* that each walk the sequence that was live when they started.            *)
(***************************************************************************)
EXTENDS Sequences, Naturals, Selections

CONSTANTS Clauses, Initial, Searches

VARIABLES
  live,       \* the clauses a search that starts now would walk, in order
  started,    \* the searches that have started
  rest        \* what each search still has to be offered

vars == <<live, started, rest>>

Init ==
  /\ live = Initial
  /\ started = {}
  /\ rest = [s \in Searches |-> <<>>]

\* A clause is added at the end; no search in progress learns of it.
Assert(c) ==
  /\ live' = Append(live, c)
  /\ UNCHANGED <<started, rest>>

\* A clause is taken out; a search in progress that still had it keeps it.
Retract(c) ==
  /\ \E k \in 1..Len(live) : live[k] = c /\ live' = Without(live, k)
  /\ UNCHANGED <<started, rest>>

Start(s) ==
  /\ s \notin started
  /\ started' = started \cup {s}
  /\ rest' = [rest EXCEPT ![s] = live]
  /\ UNCHANGED live

Take(s) ==
  /\ rest[s] # <<>>
  /\ rest' = [rest EXCEPT ![s] = Tail(@)]
  /\ UNCHANGED <<live, started>>

\* The search is cut: nothing more is offered.
Abandon(s) ==
  /\ rest' = [rest EXCEPT ![s] = <<>>]
  /\ UNCHANGED <<live, started>>

Next ==
  \/ \E c \in Clauses : Assert(c) \/ Retract(c)
  \/ \E s \in Searches : Start(s) \/ Take(s) \/ Abandon(s)

Spec == Init /\ [][Next]_vars
=============================================================================
