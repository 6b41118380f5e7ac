-------------------------- MODULE BindingsReference --------------------------
(***************************************************************************)
(* What unification means: the equations of a branch, closed under         *)
(* equality of the arguments of equal terms.  Only values are used here,   *)
(* never the contexts, ids and instances of the code.                      *)
(***************************************************************************)
EXTENDS Bindings, SequencesExt

RECURSIVE Below(_)
Below(t) == {t} \cup UNION {Below(<<t[1], Term[t[2]].args[i]>>) : i \in DOMAIN Term[t[2]].args}

\* Every scoped term that the equations speak of.
Values == UNION {Below(e[1]) \cup Below(e[2]) : e \in Equations}

(***************************************************************************)
(* The least equivalence that holds of the equations and of the arguments  *)
(* of equal compounds, as a choice of one representative per class.        *)
(***************************************************************************)
Union(rep, e) == [t \in DOMAIN rep |-> IF rep[t] = rep[e[1]] THEN rep[e[2]] ELSE rep[t]]

RECURSIVE Close(_, _)
Close(rep, eqs) ==
    IF eqs = {} THEN
        LET implied == {p \in UNION {Range(Arguments(q[1], q[2])) :
                                       q \in {r \in (DOMAIN rep) \X (DOMAIN rep) :
                                                /\ rep[r[1]] = rep[r[2]]
                                                /\ Compound(r[1]) /\ Compound(r[2])
                                                /\ SameShape(r[1][2], r[2][2])}} :
                           rep[p[1]] /= rep[p[2]]}
        IN  IF implied = {} THEN rep ELSE Close(rep, implied)
    ELSE LET e == CHOOSE e \in eqs : TRUE IN Close(Union(rep, e), eqs \ {e})

Solution == Close([t \in Values |-> t], Equations)

Conflict(rep) ==
    \E a, b \in DOMAIN rep : /\ rep[a] = rep[b]
                             /\ Compound(a) /\ Compound(b)
                             /\ ~SameShape(a[2], b[2])

(***************************************************************************)
(* resolveTermGrounded() and toContextString(): what a term reads as.      *)
(***************************************************************************)
RECURSIVE Grounded(_)
Grounded(t) ==
    LET bound == BoundTerm(chain, t)
    IN  IF bound = <<>> THEN <<>>
        ELSE LET b == bound[1] IN
             <<Term[b[2]].kind, Term[b[2]].name,
               [i \in DOMAIN Term[b[2]].args |-> Grounded(<<b[1], Term[b[2]].args[i]>>)]>>

(***************************************************************************)
(* Whenever no unification is under way, and no group of variables was     *)
(* split and no occurrence taken for its copy in another scope, the chain  *)
(* holds exactly the most general solution of its equations: there is one, *)
(* two variables are bound to equal terms or share an id where it says so  *)
(* and only there, and a variable without a value has none in it.  What    *)
(* was unified reads the same on both sides (print, assert, findall and    *)
(* the solution list read it so).                                          *)
(***************************************************************************)
SolvesEquations ==
    ~unifying /\ ~Lossy =>
        LET rep == Solution
            V == {t \in DOMAIN rep : ~Compound(t)}
        IN  /\ ~Conflict(rep)
            /\ \A v \in V :
                 IF Instance(chain, v) = <<>>
                 THEN /\ \A t \in DOMAIN rep : rep[t] = rep[v] => ~Compound(t)
                      /\ \A w \in V \ {v} :
                           rep[w] = rep[v] <=> /\ FindBinding(chain, w) = FindBinding(chain, v)
                                               /\ FindBinding(chain, v) /= 0
                 ELSE rep[Instance(chain, v)[1]] = rep[v]
            /\ \A e \in Equations : Grounded(e[1]) = Grounded(e[2])

(***************************************************************************)
(* A clash is reported only of equations that have no solution: a          *)
(* candidate is never lost, not even by a step that loses a join.          *)
(***************************************************************************)
FailsOnlyWithoutSolution ==
    [][Clash => Conflict(Solution)]_vars

(***************************************************************************)
(* The comment on ConsTerm::unifyConsTerm() (vault-unify-term-cons.cpp:56) *)
(* and SPEC.md 10: taking one object on both sides for equal loses         *)
(* nothing, since it cannot be needed in two scopes.                       *)
(***************************************************************************)
SucceedsOnlyWithSolution == ~unifying => ~Conflict(Solution)

=============================================================================
