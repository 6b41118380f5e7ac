------------------------------ MODULE JobQueue ------------------------------
(***************************************************************************)
(* What one worker thread promises to those who submit jobs: first in,     *)
(* first out, each job once.  Workers, signals, debuggers and job states   *)
(* are not visible here.                                                   *)
(***************************************************************************)
EXTENDS Sequences

CONSTANT Jobs

VARIABLES
  pending,    \* the jobs queued and not finished, the running one in front
  done        \* the jobs finished, in that order

vars == <<pending, done>>

Init ==
  /\ pending = <<>>
  /\ done = <<>>

Add(j) ==
  /\ pending' = Append(pending, j)
  /\ UNCHANGED done

Finish ==
  /\ pending # <<>>
  /\ pending' = Tail(pending)
  /\ done' = Append(done, Head(pending))

Next == Finish \/ \E j \in Jobs : Add(j)

Spec == Init /\ [][Next]_vars
=============================================================================
