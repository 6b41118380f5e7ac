------------------------------ MODULE Bindings ------------------------------
(***************************************************************************)
(* The bindings of one branch of a search (vault-unify-unifycontext.cpp,   *)
(* vault-unify-term-*.cpp).  A branch is a chain of unify contexts.  Each  *)
(* candidate clause is tried in a new context on top of the chain; only    *)
(* that context is written while two terms are unified, and it is dropped  *)
(* when they do not unify or when the search backtracks.                   *)
(*                                                                         *)
(* A term is an object: one occurrence in the source text, read in the     *)
(* scope of the context that introduced it.  A variable is known by        *)
(* <<scope, occurrence>> (AssignmentId); a context maps it to an instance  *)
(* id, and an instance id to an instance, which is again a term in a       *)
(* scope.  What a context does not know is looked up in its parents.       *)
(***************************************************************************)
EXTENDS Naturals, Sequences, FiniteSets

CONSTANTS
    Occurrences,   \* term objects of the program
    Term,          \* [kind, name, args] of each; a map's name is its keys
    Branches,      \* branches: for each depth, the goals and candidates to try
    MaxContexts    \* bound on the contexts made

Vars == {o \in Occurrences : Term[o].kind = "var"}
Candidates == [left : Occurrences, right : Occurrences, scope : Nat \ {0}, head : BOOLEAN]

ASSUME BindingsAssumption ==
    /\ \A o \in Occurrences : /\ Term[o].kind \in {"var", "cons", "map", "array"}
                              /\ Term[o].args \in Seq(Occurrences)
    /\ \A b \in Branches : b \in Seq(SUBSET Candidates)
    /\ MaxContexts \in Nat

VARIABLES
    branch,    \* the branch searched
    chain,     \* the unify contexts, the root first
    todo,      \* pairs of scoped terms still to unify, the next one first
    unifying,  \* whether a candidate is being unified
    uidLast,   \* uidNextUnifyContext
    iidLast    \* UnifyContext::m_iidLast
vars == <<branch, chain, todo, unifying, uidLast, iidLast>>

(***************************************************************************)
(* A unify context.  candidate is what it was made for; lossy is a history *)
(* of the two steps below that lose what they were asked to join.          *)
(***************************************************************************)
Context(id, c) == [id |-> id, binding |-> <<>>, instance |-> <<>>,
                   candidate |-> c, lossy |-> FALSE]
Bind(f, x, y) == [z \in DOMAIN f \cup {x} |-> IF z = x THEN y ELSE f[z]]

Latest(holders) == CHOOSE i \in holders : \A j \in holders : j <= i

\* findVarBinding(): the instance id of a variable, 0 if it has none.
FindBinding(ch, aid) ==
    LET holders == {i \in DOMAIN ch : aid \in DOMAIN ch[i].binding}
    IN  IF holders = {} THEN 0 ELSE ch[Latest(holders)].binding[aid]

\* findVarInstance(): the instance of an id as a sequence, empty if it has none.
FindInstance(ch, iid) ==
    LET holders == {i \in DOMAIN ch : iid \in DOMAIN ch[i].instance}
    IN  IF holders = {} THEN <<>> ELSE <<ch[Latest(holders)].instance[iid]>>

Instance(ch, aid) == FindInstance(ch, FindBinding(ch, aid))

\* getBoundTerm(): a term that is no variable, or the instance, if any.
BoundTerm(ch, t) == IF t[2] \in Vars THEN Instance(ch, t) ELSE <<t>>

Top == chain[Len(chain)]

\* bindVarBindingUsing( aid, iid ) and bindVarInstance( iid, t ) on the top.
WithBinding(uc, aid, iid) == [uc EXCEPT !.binding = Bind(uc.binding, aid, iid)]
WithInstance(uc, iid, t) == [uc EXCEPT !.instance = Bind(uc.instance, iid, t)]
OnTop(uc) == [chain EXCEPT ![Len(chain)] = uc]

Init ==
    /\ branch \in Branches
    /\ chain = <<Context(1, [left |-> 0])>>
    /\ todo = <<>>
    /\ unifying = FALSE
    /\ uidLast = 1
    /\ iidLast = 1

-----------------------------------------------------------------------------
(* The search: try a candidate, backtrack.                                 *)

\* The scope a goal's terms are read in: the query's own part has none.
Origin(c) == IF c.scope = 1 THEN 0 ELSE chain[c.scope].id

(***************************************************************************)
(* A candidate for the next goal.  A clause's head is read in the new      *)
(* context (StandardClause), the arguments of unify() both in the scope of *)
(* the goal (UnifyBuiltinClause).                                          *)
(***************************************************************************)
Try(c) ==
    /\ ~unifying
    /\ uidLast < MaxContexts
    /\ Len(chain) <= Len(branch)
    /\ c \in branch[Len(chain)]
    /\ c.scope \in DOMAIN chain
    /\ uidLast' = uidLast + 1
    /\ chain' = Append(chain, Context(uidLast + 1, c))
    /\ todo' = << << <<Origin(c), c.left>>,
                     <<IF c.head THEN uidLast + 1 ELSE Origin(c), c.right>> >> >>
    /\ unifying' = TRUE
    /\ UNCHANGED <<branch, iidLast>>

\* unificationDone( UnifyLast ): the context stays and carries the branch on.
Unified ==
    /\ unifying
    /\ todo = <<>>
    /\ unifying' = FALSE
    /\ UNCHANGED <<branch, chain, todo, uidLast, iidLast>>

DropTop == chain' = SubSeq(chain, 1, Len(chain) - 1)

\* The next candidate of a goal below: contexts above it are left behind.
Backtrack ==
    /\ ~unifying
    /\ Len(chain) > 1
    /\ DropTop
    /\ UNCHANGED <<branch, todo, unifying, uidLast, iidLast>>

-----------------------------------------------------------------------------
(* One call of unifyTerm(), on the next pair: the double dispatch.         *)

Left == todo[1][1]
Right == todo[1][2]
NextPair == unifying /\ todo /= <<>>

Compound(t) == t[2] \notin Vars

\* bindVarBindingUsing(), bindVarInstance(): the call changes the top context.
Write(uc) ==
    /\ chain' = OnTop(uc)
    /\ todo' = Tail(todo)
    /\ UNCHANGED <<branch, unifying, uidLast>>

\* The call goes on with other terms.
Recurse(pairs) ==
    /\ todo' = pairs \o Tail(todo)
    /\ UNCHANGED <<branch, chain, unifying, uidLast, iidLast>>

\* The variables whose lookup ends at an instance id.
Group(iid) ==
    {a \in UNION {DOMAIN chain[i].binding : i \in DOMAIN chain} : FindBinding(chain, a) = iid}

\* A slip: the scopes of two variables are not compared, only the objects.
SameVariableScopeBlind(a, b) == a[2] = b[2]

\* The very same variable in the very same scope.
SameVariable(a, b) == a = b

\* A slip: a variable without a value is bound to the other variable.
UnifyVarVarByValue ==
    /\ NextPair
    /\ ~Compound(Left)
    /\ ~Compound(Right)
    /\ \/ /\ Instance(chain, Left) /= <<>>
          /\ Recurse(<< <<Instance(chain, Left)[1], Right>> >>)
       \/ /\ Instance(chain, Left) = <<>>
          /\ iidLast' = iidLast + 1
          /\ Write(WithInstance(WithBinding(Top, Left, iidLast'), iidLast', Right))

(***************************************************************************)
(* VarTerm::unifyVarTerm(), called on the right one.  Where both have an   *)
(* instance id and no instance, only the left variable moves to the id of  *)
(* the right one; those that shared its id stay behind.                    *)
(***************************************************************************)
UnifyVarVar ==
    /\ NextPair
    /\ ~Compound(Left)
    /\ ~Compound(Right)
    /\ LET m == FindBinding(chain, Right)
           o == FindBinding(chain, Left)
           im == FindInstance(chain, m)
           io == FindInstance(chain, o)
           new == iidLast + 1
       IN  \/ /\ SameVariable(Right, Left) \/ (m = o /\ m /= 0)
              /\ Recurse(<<>>)
           \/ /\ ~SameVariable(Right, Left) /\ (m /= o \/ m = 0)
              /\ \/ /\ m = 0 /\ o = 0
                    /\ Write(WithBinding(WithBinding(Top, Right, new), Left, new))
                    /\ iidLast' = new
                 \/ /\ m = 0 /\ o /= 0
                    /\ Write(WithBinding(Top, Right, o))
                    /\ UNCHANGED iidLast
                 \/ /\ m /= 0 /\ o = 0
                    /\ Write(WithBinding(Top, Left, m))
                    /\ UNCHANGED iidLast
                 \/ /\ m /= 0 /\ o /= 0 /\ im = <<>> /\ io = <<>>
                    /\ Write([WithBinding(Top, Left, m) EXCEPT
                                 !.lossy = @ \/ Group(o) /= {Left}])
                    /\ UNCHANGED iidLast
                 \/ /\ m /= 0 /\ o /= 0 /\ im = <<>> /\ io /= <<>>
                    /\ Write(WithInstance(Top, m, io[1]))
                    /\ UNCHANGED iidLast
                 \/ /\ m /= 0 /\ o /= 0 /\ im /= <<>> /\ io = <<>>
                    /\ Write(WithInstance(Top, o, im[1]))
                    /\ UNCHANGED iidLast
                 \/ /\ m /= 0 /\ o /= 0 /\ im /= <<>> /\ io /= <<>>
                    /\ Recurse(IF im = io THEN <<>> ELSE << <<im[1], io[1]>> >>)

\* A slip: the bindings are written where the variable was introduced, if that
\* context is on the chain, and outlive the context that made them.
UnifyVarKnownInScope ==
    /\ NextPair
    /\ Compound(Left) /= Compound(Right)
    /\ LET v == IF Compound(Left) THEN Right ELSE Left
           t == IF Compound(Left) THEN Left ELSE Right
           iid == FindBinding(chain, v)
           old == FindInstance(chain, iid)
           new == IF iid = 0 THEN iidLast + 1 ELSE iid
           at == CHOOSE i \in DOMAIN chain :
                     \/ chain[i].id = v[1]
                     \/ i = 1 /\ \A j \in DOMAIN chain : chain[j].id /= v[1]
       IN  \/ /\ old /= <<>>
              /\ Recurse(<< <<old[1], t>> >>)
           \/ /\ old = <<>>
              /\ chain' = [chain EXCEPT ![at] = WithInstance(WithBinding(@, v, new), new, t)]
              /\ todo' = Tail(todo)
              /\ iidLast' = IF iid = 0 THEN new ELSE iidLast
              /\ UNCHANGED <<branch, unifying, uidLast>>

\* A slip: the pair is put back although the variable has a value.
UnifyVarKnownAgain ==
    /\ NextPair
    /\ Compound(Left) /= Compound(Right)
    /\ LET v == IF Compound(Left) THEN Right ELSE Left
           t == IF Compound(Left) THEN Left ELSE Right
           iid == FindBinding(chain, v)
           old == FindInstance(chain, iid)
           new == iidLast + 1
       IN  \/ old /= <<>> /\ Recurse(<< <<v, t>> >>)
           \/ /\ old = <<>>
              /\ Write(WithInstance(WithBinding(Top, v, new), new, t))
              /\ iidLast' = new

(***************************************************************************)
(* UnifyContext::genericUnifyVarWithKnown(): a variable and a term that is *)
(* none.  A value there is unified with the term; there is no occurs check. *)
(***************************************************************************)
UnifyVarKnown ==
    /\ NextPair
    /\ Compound(Left) /= Compound(Right)
    /\ LET v == IF Compound(Left) THEN Right ELSE Left
           t == IF Compound(Left) THEN Left ELSE Right
           iid == FindBinding(chain, v)
           old == FindInstance(chain, iid)
           new == iidLast + 1
       IN  \/ /\ old /= <<>>
              /\ Recurse(<< <<old[1], t>> >>)
           \/ /\ iid /= 0 /\ old = <<>>
              /\ Write(WithInstance(Top, iid, t))
              /\ UNCHANGED iidLast
           \/ /\ iid = 0
              /\ Write(WithInstance(WithBinding(Top, v, new), new, t))
              /\ iidLast' = new

(***************************************************************************)
(* Two terms that are no variables: the same kind, the same name or keys,  *)
(* and as many arguments, which are then unified in order, sides changed.  *)
(***************************************************************************)
SameShape(a, b) ==
    /\ Term[a].kind = Term[b].kind
    /\ Term[a].name = Term[b].name
    /\ Len(Term[a].args) = Len(Term[b].args)

Arguments(a, b) ==
    [i \in 1..Len(Term[a[2]].args) |-> << <<a[1], Term[a[2]].args[i]>>,
                                          <<b[1], Term[b[2]].args[i]>> >>]

\* The same object on both sides is taken to be equal, whatever the scopes.
UnifyIdentical ==
    /\ NextPair
    /\ Compound(Left)
    /\ Left[2] = Right[2]
    /\ Write([Top EXCEPT !.lossy = @ \/ (Left[1] /= Right[1] /\ Term[Left[2]].args /= <<>>)])
    /\ UNCHANGED iidLast

Descend(kind) ==
    /\ NextPair
    /\ Compound(Left)
    /\ Compound(Right)
    /\ Left[2] /= Right[2]
    /\ Term[Left[2]].kind = kind
    /\ SameShape(Left[2], Right[2])
    /\ Recurse(Arguments(Right, Left))

UnifyCons == Descend("cons")      \* name and arity agree
UnifyMap == Descend("map")        \* exactly the same keys; values in key order
UnifyArray == Descend("array")    \* the same length

\* UnifyNot: the candidate's context is left behind with what it has bound.
Clash ==
    /\ NextPair
    /\ Compound(Left)
    /\ Compound(Right)
    /\ Left[2] /= Right[2]
    /\ ~SameShape(Left[2], Right[2])
    /\ DropTop
    /\ todo' = <<>>
    /\ unifying' = FALSE
    /\ UNCHANGED <<branch, uidLast, iidLast>>

-----------------------------------------------------------------------------
UnifyStep ==
    \/ UnifyVarVar \/ UnifyVarKnown \/ UnifyIdentical
    \/ UnifyCons \/ UnifyMap \/ UnifyArray \/ Clash

Next == (\E i \in DOMAIN branch : \E c \in branch[i] : Try(c)) \/ Unified \/ Backtrack \/ UnifyStep

Spec == Init /\ [][Next]_vars

\* A unification is one call: it runs to its end.
FairSpec == Spec /\ WF_vars(UnifyStep \/ Unified)

-----------------------------------------------------------------------------
\* The two scoped terms that the context at a position was made to unify.
Equation(i) ==
    LET c == chain[i].candidate
    IN  << <<Origin(c), c.left>>, <<IF c.head THEN chain[i].id ELSE Origin(c), c.right>> >>
Equations == {Equation(i) : i \in 2..Len(chain)}

\* A join was lost: some variables, or the same object in two scopes.
Lossy == \E i \in DOMAIN chain : chain[i].lossy

TypeOK ==
    /\ branch \in Branches
    /\ chain /= <<>>
    /\ uidLast \in Nat
    /\ iidLast \in Nat
    /\ unifying \in BOOLEAN
    /\ todo \in Seq((Nat \X Occurrences) \X (Nat \X Occurrences))
    /\ \A i \in DOMAIN chain :
          /\ chain[i].id \in 1..uidLast
          /\ chain[i].lossy \in BOOLEAN
          /\ DOMAIN chain[i].binding \subseteq Nat \X Vars
          /\ \A a \in DOMAIN chain[i].binding : chain[i].binding[a] \in 2..iidLast

(***************************************************************************)
(* What a variable is bound to is never a variable, and is read in a scope *)
(* that exists: getBoundTerm() looks one step far only, and print, assert  *)
(* and findall rely on it.                                                 *)
(***************************************************************************)
OneStepLookup ==
    \A i \in DOMAIN chain : \A iid \in DOMAIN chain[i].instance :
        /\ iid \in 2..iidLast
        /\ chain[i].instance[iid] \in (0..uidLast) \X (Occurrences \ Vars)

\* A unification that was begun comes to an end: without an occurs check this
\* rests on the program building no cyclic term (vault-unify-term-var.cpp:338).
UnificationEnds == unifying ~> ~unifying
=============================================================================
