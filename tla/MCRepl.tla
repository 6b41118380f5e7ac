------------------------------- MODULE MCRepl -------------------------------
(***************************************************************************)
(* Lines that can be put together to items of every kind, cut anywhere,    *)
(* with terminators and brackets in strings and comments, and lines that   *)
(* fit nothing.                                                            *)
(***************************************************************************)
EXTENDS ReplReference

MCWords == {"a", "query", "import", "if", "for", "foreach", "quit", "load", "f", "g"}

Q == "quote"

MCFiles == [f |-> <<"a", "{", "newline", "a", ";", "}", "a", ";", "a", "(">>]

MCLines ==
  {<<>>,
   <<"a", ";">>,
   <<"a", "(", "a", ",", Q, "a", Q>>,
   <<")", ";", "/", "/", "{">>,
   <<"query", "{", "a", ";">>,
   <<"}">>,
   <<"a", ";", " ", "a", "{", "if", "(", "a", ")", "{", "a", ";", "}">>,
   <<"/", "*", "(", "*", "/", "a", "{", "/", "*", " ", ";">>,
   <<"*", "/", "a", "->", "a", ";", "}">>,
   <<"import", Q, ")", ";", "backslash", Q>>,
   <<";", Q, ";">>,
   <<"?", " ", "a", ";", "a", ";">>,
   <<"/", "*", "a">>,
   <<":", "load", " ", "f">>,
   <<" ", ":", "a">>,
   <<":", "quit">>}
=============================================================================
