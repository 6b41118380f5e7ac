------------------------------- MODULE MCLoops ------------------------------
(***************************************************************************)
(* Families of queries for Loops: something bound before the loop, a loop  *)
(* over each kind of range, array and bound, with bodies of one or two     *)
(* statements from a set that holds nested loops, and something after it.  *)
(***************************************************************************)
EXTENDS LoopsReference

X == <<"x", 0>>
Y == <<"y", 0>>
Z == <<"z", 0>>
W == <<"w", 0>>
I == <<"i", 0>>
J == <<"j", 0>>
K == <<"k", 0>>
M == <<"m", 0>>

MCFacts ==
  <<[pred |-> "q", args |-> <<Num(1)>>], [pred |-> "q", args |-> <<Num(2)>>],
    [pred |-> "r", args |-> <<Num(1), Num(3)>>], [pred |-> "r", args |-> <<Num(2), Num(2)>>],
    [pred |-> "r", args |-> <<Num(2), Num(1)>>]>>

Show(t) == Call("print", <<t>>)
Plus(a, b) == Arith("+", a, b)

\* What a body does with the variable of its loop.
Statements(v) ==
  {Show(Var(v)), Call("r", <<Var(v), Var(Z)>>), Show(Var(Z)),
   Equate(Var(Z), Plus(Var(v), Var(Y))), Equate(Var(Y), Var(v)),
   Compare("<", Var(v), Num(2)),
   If(Call("q", <<Var(v)>>), <<Show(Num(0))>>),
   ForEach(K, RangeOf(Num(1), Var(v)), <<Show(Var(K))>>),
   For(J, Var(v), Compare("<", Var(J), Num(3)), Plus(Var(J), Num(1)),
       <<Call("q", <<Var(W)>>), Show(Var(W))>>)}

Single(v) == {<<s>> : s \in Statements(v)}
Double(v) == {b \in Statements(v) \X Statements(v) : b[1] # b[2]}

Known == {<<>>, <<Equate(Var(Y), Num(2))>>, <<Call("q", <<Var(Y)>>)>>}
Lists ==
  <<Equate(Var(M), MapOf([few |-> Arr(<<Num(2), Num(1)>>), one |-> Num(1)])),
    Call("q", <<Var(Y)>>)>>

\* Ranges that are literal, dynamic, empty and too long; arrays and members.
Short == {RangeOf(Num(1), Num(2)), RangeOf(Num(1), Var(Y)), Arr(<<Num(2), Num(1)>>)}
AnyArray == Short \cup
  {RangeOf(Num(2), Num(1)), RangeOf(Num(-1), Num(4)), RangeOf(Num(1), Plus(Var(Y), Num(2))),
   RangeOf(Var(Y), Arith("/", Num(-5), Num(3))), RangeOf(Arith("/", Var(Y), Num(0)), Num(2)),
   Deref(Var(M), "few"), Deref(Var(M), "one"), Deref(Var(M), "none")}

Conditions ==
  {Compare("<=", Var(I), Num(2)), Compare("<", Var(I), Var(Y)), Call("r", <<Var(I), Var(W)>>)}

Steps == {Plus(Var(I), Num(1)), Arith("*", Var(I), Num(3)), Plus(Var(I), Var(Y))}

\* It has no value in the second iteration, where it divides by zero.
StepFails == Arith("/", Num(2), Arith("-", Num(2), Var(I)))

\* It passes the smallest integer.
StepDown == Arith("-", Var(I), Num(3))

Loop(x, a, body) == <<ForEach(x, a, body), Show(Num(9))>>
Counting(from, cond, step, body) == <<For(I, from, cond, step, body), Show(Num(9))>>

MCQueries ==
  UNION {
    {b \o Loop(X, a, body) : b \in Known, a \in Short, body \in Double(X)},
    {Lists \o Loop(X, a, body) : a \in AnyArray, body \in Single(X)},
    {b \o Counting(Num(1), Compare("<=", Var(I), Num(2)), Plus(Var(I), Num(1)), body) :
       b \in Known, body \in Double(I)},
    {Lists \o Counting(f, c, s, body) :
       f \in {Num(1), Var(Y)}, c \in Conditions, s \in Steps \cup {StepFails},
       body \in Single(I)},
    {Lists \o Counting(Num(1), Compare("<=", Var(I), Num(2)), StepDown, <<Show(Var(I))>>)}}

\* A second loop with the variable of the first.
MCReusing ==
  {Loop(X, a, <<Show(Var(X))>>) \o Loop(X, b, <<Show(Var(X))>>) : a, b \in Short}


=============================================================================
