----------------------------- MODULE MCRuntime -----------------------------
(***************************************************************************)
(* Small instances of Runtime for TLC: a program of a few events and two   *)
(* files it can import, which can import each other and the program.       *)
(***************************************************************************)
EXTENDS RuntimeReference, TLC

Clause(c) == [kind |-> "clause", clause |-> c]
Import(f) == [kind |-> "import", file |-> f]
Quietly(c) == [kind |-> "query", query |-> [asserts |-> <<c>>, errors |-> 0]]
Badly == [kind |-> "query", query |-> [asserts |-> <<>>, errors |-> 1]]
NoEvent == [kind |-> "error"]

\* What a program is made of, and what the files it imports may hold.
Events == {Clause("c"), Quietly("x"), Badly, Import("a"), Import("nowhere"), NoEvent}

Programs3 == UNION {[1..n -> Events] : n \in 0..3}

Libraries ==
  { <<Clause("d"), Import("main"), Clause("e")>>,
    <<Import("b"), Quietly("y")>>,
    <<Import("a"), Clause("d")>>,
    <<NoEvent, Clause("d")>> }

BatchCorpora ==
  {("main" :> m @@ "a" :> a @@ "b" :> <<Import("a"), Clause("f")>>)
     : m \in Programs3, a \in Libraries}

\* Short items, one after the other, and files to :load.
SessionCorpora ==
  {("t1" :> <<e>> @@ "t2" :> <<f, g>> @@ "a" :> a @@ "b" :> <<Import("a"), Clause("f")>>
      @@ "main" :> <<Badly, Import("a")>>)
     : e, f, g \in Events, a \in Libraries}

AllCorpora == BatchCorpora \cup SessionCorpora

\* A program that imports itself through another file, and has an error.
CircularProgram ==
  {"main" :> <<Import("a"), Clause("c"), NoEvent, Clause("d")>>
     @@ "a" :> <<Import("main"), Clause("e")>>}

=============================================================================
