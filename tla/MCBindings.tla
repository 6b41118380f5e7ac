----------------------------- MODULE MCBindings -----------------------------
(***************************************************************************)
(* Small programs for Bindings.  The query has variables X, Y, Z and P; the *)
(* facts are eq(V, V) and make(V, f(V)); terms are f(a), f(b), f(X), maps  *)
(* and arrays of one element.                                              *)
(***************************************************************************)
EXTENDS BindingsReference, TLC

V(n) == [kind |-> "var", name |-> n, args |-> <<>>]
C(n, args) == [kind |-> "cons", name |-> n, args |-> args]

Term0 ==
    [X |-> V("X"), Y |-> V("Y"), Z |-> V("Z"), P |-> V("P"),
     a |-> C("a", <<>>), b |-> C("b", <<>>), a2 |-> C("a", <<>>),
     fP |-> C("f", <<"P">>), fa |-> C("f", <<"a">>),
     mP |-> [kind |-> "map", name |-> "k", args |-> <<"P">>],
     ma |-> [kind |-> "map", name |-> "k", args |-> <<"a2">>],
     rP |-> [kind |-> "array", name |-> "", args |-> <<"P">>],
     rb |-> [kind |-> "array", name |-> "", args |-> <<"b">>],
     \* the fact eq(V, V) and goals that call it
     V |-> V("V"), hEq |-> C("eq", <<"V", "V">>),
     gXY |-> C("eq", <<"X", "Y">>), gfZ |-> C("eq", <<"fP", "Z">>),
     gVb |-> C("eq", <<"V", "b">>), gbV |-> C("eq", <<"b", "V">>),
     \* the fact make(U, f(U)) and goals that call it
     U |-> V("U"), fU |-> C("f", <<"U">>), hMake |-> C("make", <<"U", "fU">>),
     gaX |-> C("make", <<"a", "X">>), gbY |-> C("make", <<"b", "Y">>), gPZ |-> C("make", <<"P", "Z">>)]
Occurrences0 == DOMAIN Term0

Is(l, r) == [left |-> l, right |-> r, scope |-> 1, head |-> FALSE]
Calls(g, h) == [left |-> g, right |-> h, scope |-> 1, head |-> TRUE]
Within(c, scope) == [c EXCEPT !.scope = scope]

Joins == {Is("X", "Y"), Is("Y", "Z"), Is("Z", "X")}
Known == {Is("X", "fa"), Is("fP", "Y"), Is("P", "b"), Is("X", "mP"), Is("Y", "ma"),
          Is("Z", "rP"), Is("rb", "Y")}
Heads == {Calls("gXY", "hEq"), Calls("gfZ", "hEq"),
          Calls("gaX", "hMake"), Calls("gbY", "hMake"), Calls("gPZ", "hMake")}

Goals == Joins \cup Known \cup Heads

\* As if eq(V, V) called itself: the goals of its body are read in its scope.
Recursive == {Within(Calls("gVb", "hEq"), 2), Within(Calls("gbV", "hEq"), 2), Within(Is("V", "b"), 2)}

\* Two groups of variables that are joined, and a value.
Pairs == {Is("X", "Y"), Is("Z", "P"), Is("Y", "Z"), Is("P", "a")}

Branches0 ==
    {<<Goals, Goals, Goals>>,
     <<{Calls("gXY", "hEq")}, Recursive, Recursive \cup Known>>,
     <<Pairs, Pairs, Pairs, Pairs>>}
Branches1 == {<<{Calls("gaX", "hMake")}, {Calls("gbY", "hMake"), Calls("gaX", "hMake")}, Joins>>}
=============================================================================
