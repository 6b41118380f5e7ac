---------------------------- MODULE SolverProofs ----------------------------
(***************************************************************************)
(* The walk of cut up the parents of a context always finds the context    *)
(* that entered its goal part: for any program, any query, any nesting of  *)
(* findall() and whatever the debugger asks for.                           *)
(***************************************************************************)
EXTENDS Solver, SequenceLemmas

\* The goals and clauses that a run may get to.
Goals == CaseGoals \cup {[op |-> "call", atom |-> g.atom] : g \in CaseGoals}
Heads == CaseHeads \cup {g.atom : g \in CaseGoals}
Clauses == [head : Heads, body : Seq(Goals), builtin : BOOLEAN, appendGen : Nat, retireGen : Nat]

\* A frame has a term left; a context knows the frames that it returns to.
Frames == [part : Nat, rest : Seq(Goals) \ {<<>>}]
Iterators == [pos : Nat, snapshot : Nat, invalidated : BOOLEAN]
Contexts == [part : Nat \cup {None}, cursor : Seq(Frames), uc : Seq(Nat), it : Iterators,
             visits : 0..2]
SearchJobs == [stack : Seq(Contexts), solutions : Seq(Seq(Nat)), errors : Nat]

\* No two contexts of a stack entered the same goal part, none entered one that
\* is still to be allocated, and every frame's goal part was entered below.
StackInv(stack, next) ==
  /\ \A k \in 1..Len(stack) : stack[k].part # None => stack[k].part < next
  /\ \A k, l \in 1..Len(stack) : stack[k].part = stack[l].part /\ stack[k].part # None => k = l
  /\ \A k \in 1..Len(stack) : \A f \in 1..Len(stack[k].cursor) :
       \E m \in 1..k : stack[m].part = stack[k].cursor[f].part

\* An iterator is at a place of the list, and no newer than it.
InList(sc, gen, len) == sc.it.snapshot <= gen /\ sc.it.pos \in 1..(len + 1)

JobInv(job, next, gen, len) ==
  /\ job \in SearchJobs
  /\ StackInv(job.stack, next)
  /\ \A k \in 1..Len(job.stack) : InList(job.stack[k], gen, len)

\* A job that waits has the context that called findall() on top.
Waits(job) == job.stack # <<>> /\ Last(job.stack).cursor # <<>>

JobsInv(js, next, gen, len) ==
  /\ js \in Seq(SearchJobs)
  /\ js # <<>>
  /\ \A n \in 1..Len(js) : JobInv(js[n], next, gen, len)
  /\ \A n \in 1..(Len(js) - 1) : Waits(js[n])

DbInv ==
  /\ db \in Seq(Clauses)
  /\ generation \in Nat
  /\ WellStamped(db, generation)

SliceInv ==
  /\ given \in Cases
  /\ running \in BOOLEAN
  /\ sliceCount \in 0..2
  /\ target \in given.targets \cup {"REGULAR"}
  /\ jobState \in {"CREATED", "DEBUGHALTED", "FINISHED"}
  /\ nextPart \in Nat

IInv == DbInv /\ SliceInv /\ JobsInv(jobs, nextPart, generation, Len(db))

-----------------------------------------------------------------------------
(* Cursors.                                                                *)

\* The goal parts of the frames of a are among those of b.
PartsAmong(a, b) == \A f \in 1..Len(a) : \E g \in 1..Len(b) : a[f].part = b[g].part

LEMMA NormalizeTyped ==
  ASSUME NEW cs \in Seq([part : Nat, rest : Seq(Goals)]),
         \A k \in 2..Len(cs) : cs[k].rest # <<>>
  PROVE  Normalize(cs) \in Seq(Frames) /\ PartsAmong(Normalize(cs), cs)
<1> DEFINE left == {k \in 1..Len(cs) : cs[k].rest # <<>>}
           l == Len(cs)
           S == [part : Nat, rest : Seq(Goals)]
<1>1. l \in Nat /\ left \in SUBSET (1..l) /\ \A k \in 1..l : cs[k] \in S
  <2>1. cs \in Seq(S)
    OBVIOUS
  <2> HIDE DEF S
  <2>2. l \in Nat /\ \A k \in 1..l : cs[k] \in S
    BY <2>1
  <2> QED BY <2>2
<1>2. CASE left = {}
  <2>1. Normalize(cs) = <<>>
    BY <1>2 DEF Normalize
  <2> QED BY <2>1 DEF PartsAmong
<1>3. CASE left # {}
  <2> DEFINE m == Min(left)
  <2>1. m \in left
    <3> HIDE DEF left, l
    <3>1. \E x \in left : \A y \in left : x <= y
      BY <1>1, <1>3, LeastNumber
    <3> QED BY <3>1 DEF Min
  <2>2. Normalize(cs) = SubSeq(cs, m, l)
    BY <1>3 DEF Normalize
  <2>3. m \in 1..l /\ cs[m].rest # <<>>
    BY <2>1
  <2> HIDE DEF m
  <2>4. \A k \in m..l : cs[k] \in Frames
    <3> SUFFICES ASSUME NEW k \in m..l PROVE cs[k] \in Frames
      OBVIOUS
    <3>1. k \in 1..l /\ (k = m \/ k \in 2..l)
      BY <1>1, <2>3
    <3>2. cs[k] \in [part : Nat, rest : Seq(Goals)]
      BY <1>1, <3>1
    <3>3. cs[k].rest # <<>>
      BY <2>3, <3>1
    <3> QED BY <3>2, <3>3 DEF Frames
  <2>5. m \in Int /\ l \in Int /\ m <= l
    BY <1>1, <2>3
  <2> DEFINE ns == SubSeq(cs, m, l)
  <2> HIDE DEF l
  <2>6. /\ ns \in Seq(Frames) /\ Len(ns) = l - m + 1
        /\ \A i \in 1..(l - m + 1) : ns[i] = cs[m + i - 1]
    BY <2>4, <2>5, SubSeqProperties
  <2> HIDE DEF ns
  <2>7. \A f \in 1..Len(ns) : m + f - 1 \in 1..l /\ ns[f].part = cs[m + f - 1].part
    BY <1>1, <2>3, <2>6
  <2>8. PartsAmong(ns, cs)
    BY <2>7 DEF PartsAmong, l
  <2> QED BY <2>2, <2>6, <2>8 DEF ns
<1> QED BY <1>2, <1>3

LEMMA NextTermTyped ==
  ASSUME NEW cs \in Seq(Frames), cs # <<>>
  PROVE  NextTerm(cs) \in Seq(Frames) /\ PartsAmong(NextTerm(cs), cs)
<1> DEFINE S == [part : Nat, rest : Seq(Goals)]
           x == [cs[1] EXCEPT !.rest = Tail(@)]
           o == <<x>>
           t == Tail(cs)
           ns == o \o t
<1>1. cs[1] \in Frames /\ Len(cs) \in Nat \ {0} /\ \A k \in 1..Len(cs) : cs[k] \in Frames
  OBVIOUS
<1>2. x \in S /\ x.part = cs[1].part
  <2>1. cs[1].rest \in Seq(Goals) /\ cs[1].rest # <<>>
    BY <1>1 DEF Frames
  <2>2. Tail(cs[1].rest) \in Seq(Goals)
    BY <2>1
  <2> QED BY <1>1, <2>2 DEF Frames
<1>3. t \in Seq(Frames) /\ Len(t) = Len(cs) - 1 /\ \A k \in 1..Len(t) : t[k] = cs[k + 1]
  OBVIOUS
<1>4. Frames \subseteq S
  BY DEF Frames
<1>5. t \in Seq(S) /\ \A k \in 1..Len(t) : t[k].rest # <<>>
  <2> HIDE DEF t, S
  <2>1. \A k \in 1..Len(t) : t[k] \in Frames
    BY <1>3
  <2>2. t \in Seq(S)
    BY <1>3, <1>4, SeqMonotonic
  <2> QED BY <2>1, <2>2 DEF Frames
<1> HIDE DEF x, t, S
<1>6. o \in Seq(S) /\ Len(o) = 1 /\ o[1] = x
  BY <1>2
<1> HIDE DEF o
<1>7. /\ ns \in Seq(S) /\ Len(ns) = Len(cs)
      /\ \A k \in 1..Len(cs) : ns[k] = IF k <= 1 THEN o[k] ELSE t[k - 1]
  <2>1. /\ ns \in Seq(S) /\ Len(ns) = Len(o) + Len(t)
        /\ \A k \in 1..(Len(o) + Len(t)) : ns[k] = IF k <= Len(o) THEN o[k] ELSE t[k - Len(o)]
    BY <1>5, <1>6, ConcatProperties
  <2> QED BY <1>1, <1>3, <1>6, <2>1
<1> HIDE DEF ns
<1>8. ns[1] = x /\ \A k \in 2..Len(cs) : ns[k] = t[k - 1] /\ k - 1 \in 1..Len(t)
  BY <1>1, <1>3, <1>6, <1>7
<1>9. \A k \in 2..Len(ns) : ns[k].rest # <<>>
  BY <1>5, <1>7, <1>8
<1>10. \A k \in 1..Len(cs) : ns[k].part = cs[k].part
  <2>1. \A k \in 2..Len(cs) : ns[k] = cs[k]
    BY <1>3, <1>8
  <2>2. \A k \in 1..Len(cs) : k = 1 \/ k \in 2..Len(cs)
    BY <1>1
  <2> QED BY <1>2, <1>8, <2>1, <2>2
<1>11. NextTerm(cs) = Normalize(ns)
  BY DEF NextTerm, ns, o, x, t
<1>12. Normalize(ns) \in Seq(Frames) /\ PartsAmong(Normalize(ns), ns)
  BY <1>7, <1>9, NormalizeTyped DEF S
<1> QED BY <1>7, <1>10, <1>11, <1>12 DEF PartsAmong

\* The body of a clause comes before what is left of the goal that called it.
LEMMA EnterBodyTyped ==
  ASSUME NEW cs \in Seq(Frames), cs # <<>>, NEW part \in Nat, NEW body \in Seq(Goals), body # <<>>
  PROVE  /\ EnterBody(cs, part, body) \in Seq(Frames)
         /\ \A f \in 1..Len(EnterBody(cs, part, body)) :
              \/ EnterBody(cs, part, body)[f].part = part
              \/ \E g \in 1..Len(cs) : EnterBody(cs, part, body)[f].part = cs[g].part
<1> DEFINE x == [part |-> part, rest |-> body]
           o == <<x>>
           t == NextTerm(cs)
           ns == o \o t
<1>1. t \in Seq(Frames) /\ PartsAmong(t, cs) /\ Len(t) \in Nat
  BY NextTermTyped
<1>2. o \in Seq(Frames) /\ Len(o) = 1 /\ o[1].part = part
  <2>1. x \in Frames
    BY DEF Frames
  <2> QED BY <2>1
<1>3. EnterBody(cs, part, body) = ns
  BY DEF EnterBody
<1> HIDE DEF o, t
<1>4. /\ ns \in Seq(Frames) /\ Len(ns) = 1 + Len(t)
      /\ \A f \in 1..(1 + Len(t)) : ns[f] = IF f <= 1 THEN o[f] ELSE t[f - 1]
  <2>1. /\ ns \in Seq(Frames) /\ Len(ns) = Len(o) + Len(t)
        /\ \A f \in 1..(Len(o) + Len(t)) : ns[f] = IF f <= Len(o) THEN o[f] ELSE t[f - Len(o)]
    BY <1>1, <1>2, ConcatProperties
  <2> QED BY <1>1, <1>2, <2>1
<1> HIDE DEF ns
<1>5. ASSUME NEW f \in 1..Len(ns) PROVE ns[f].part = part \/ \E g \in 1..Len(cs) : ns[f].part = cs[g].part
  <2>1. f = 1 \/ (f > 1 /\ f - 1 \in 1..Len(t))
    BY <1>1, <1>4
  <2>2. f = 1 => ns[f].part = part
    BY <1>1, <1>2, <1>4
  <2>3. f > 1 => ns[f] = t[f - 1]
    BY <1>1, <1>4
  <2> QED BY <1>1, <2>1, <2>2, <2>3 DEF PartsAmong
<1> QED BY <1>3, <1>4, <1>5

-----------------------------------------------------------------------------
(* Stacks: sc is the top context as a turn leaves it.                      *)

LEMMA InListGrows ==
  ASSUME NEW sc \in Contexts, NEW gen \in Nat, NEW len \in Nat, NEW gen2 \in Nat, NEW len2 \in Nat,
         gen <= gen2, len <= len2, InList(sc, gen, len)
  PROVE  InList(sc, gen2, len2)
BY DEF InList, Contexts, Iterators

LEMMA StackGrows ==
  ASSUME NEW s \in Seq(Contexts), NEW next \in Nat, NEW next2 \in Nat, next <= next2,
         StackInv(s, next)
  PROVE  StackInv(s, next2)
<1>1. \A k \in 1..Len(s) : s[k] \in Contexts
  OBVIOUS
<1>2. \A k \in 1..Len(s) : s[k].part # None => s[k].part \in Nat
  BY <1>1 DEF Contexts
<1> QED BY <1>2 DEF StackInv

\* Only what a context entered, and what it returns to, counts.
LEMMA SameParts ==
  ASSUME NEW s, NEW t, NEW next, Len(t) = Len(s),
         \A k \in 1..Len(s) : t[k].part = s[k].part /\ t[k].cursor = s[k].cursor,
         Len(s) \in Nat, StackInv(s, next)
  PROVE  StackInv(t, next)
<1> DEFINE l == Len(s)
<1>1. \A k \in 1..l : \A m \in 1..k : m \in 1..l
  OBVIOUS
<1> HIDE DEF l
<1>2. \A k \in 1..l : \A f \in 1..Len(t[k].cursor) :
        \E m \in 1..k : t[m].part = t[k].cursor[f].part
  <2> SUFFICES ASSUME NEW k \in 1..l, NEW f \in 1..Len(s[k].cursor)
               PROVE  \E m \in 1..k : t[m].part = s[k].cursor[f].part
    BY DEF l
  <2>1. PICK m \in 1..k : s[m].part = s[k].cursor[f].part
    BY DEF StackInv, l
  <2> QED BY <1>1, <2>1 DEF l
<1> QED BY <1>2 DEF StackInv, l

LEMMA PoppedStack ==
  ASSUME NEW s \in Seq(Contexts), s # <<>>, NEW next, StackInv(s, next)
  PROVE  /\ Front(s) \in Seq(Contexts) /\ StackInv(Front(s), next)
         /\ \A k \in 1..Len(Front(s)) : k \in 1..Len(s) /\ Front(s)[k] = s[k]
<1> DEFINE t == Front(s)
<1>1. t \in Seq(Contexts) /\ Len(t) = Len(s) - 1 /\ \A k \in 1..Len(t) : t[k] = s[k]
  BY AllButLast DEF Front
<1>2. Len(s) \in Nat /\ \A k \in 1..Len(t) : k \in 1..Len(s) /\ \A m \in 1..k : m \in 1..Len(t)
  BY <1>1
<1> HIDE DEF t
<1>3. \A k \in 1..Len(t) : \A f \in 1..Len(t[k].cursor) :
        \E m \in 1..k : t[m].part = t[k].cursor[f].part
  <2> SUFFICES ASSUME NEW k \in 1..Len(t), NEW f \in 1..Len(s[k].cursor)
               PROVE  \E m \in 1..k : t[m].part = s[k].cursor[f].part
    BY <1>1
  <2>1. PICK m \in 1..k : s[m].part = s[k].cursor[f].part
    BY <1>2 DEF StackInv
  <2> QED BY <1>1, <1>2, <2>1
<1>4. StackInv(t, next)
  BY <1>1, <1>2, <1>3 DEF StackInv
<1> QED BY <1>1, <1>2, <1>4 DEF t

LEMMA LeftStack ==
  ASSUME NEW s \in Seq(Contexts), s # <<>>, NEW next, StackInv(s, next),
         NEW sc \in Contexts, sc.part = Last(s).part, sc.cursor = Last(s).cursor
  PROVE  LET t == Front(s) \o <<sc>>
         IN  /\ t \in Seq(Contexts) /\ Len(t) = Len(s) /\ StackInv(t, next) /\ t[Len(s)] = sc
             /\ \A k \in 1..(Len(s) - 1) : t[k] = s[k]
<1> DEFINE t == Front(s) \o <<sc>>
<1>1. /\ t \in Seq(Contexts) /\ Len(t) = Len(s) /\ t[Len(s)] = sc
      /\ \A k \in 1..(Len(s) - 1) : t[k] = s[k]
  BY LastReplaced DEF Front
<1>2. Len(s) \in Nat /\ \A k \in 1..Len(s) : k = Len(s) \/ k \in 1..(Len(s) - 1)
  OBVIOUS
<1> HIDE DEF t
<1>3. \A k \in 1..Len(s) : t[k].part = s[k].part /\ t[k].cursor = s[k].cursor
  BY <1>1, <1>2 DEF Last
<1>4. StackInv(t, next)
  BY <1>1, <1>2, <1>3, SameParts
<1> QED BY <1>1, <1>4 DEF t

\* A context that goes on from t: it entered no goal part, or a new one.
Child(c, t, next, next2) ==
  /\ c \in Contexts
  /\ \/ c.part = None /\ next2 = next
     \/ c.part = next /\ next2 = next + 1
  /\ \A f \in 1..Len(c.cursor) :
       \/ c.cursor[f].part = c.part
       \/ \E m \in 1..Len(t) : t[m].part = c.cursor[f].part

LEMMA PushedStack ==
  ASSUME NEW t \in Seq(Contexts), NEW next \in Nat, NEW next2, StackInv(t, next),
         NEW c, Child(c, t, next, next2)
  PROVE  LET u == t \o <<c>>
         IN  /\ u \in Seq(Contexts) /\ Len(u) = Len(t) + 1 /\ StackInv(u, next2)
             /\ u[Len(t) + 1] = c /\ \A k \in 1..Len(t) : u[k] = t[k]
<1> DEFINE u == t \o <<c>>
           l == Len(t)
<1>1. c \in Contexts
  BY DEF Child
<1>2. /\ u \in Seq(Contexts) /\ Len(u) = l + 1
      /\ u[l + 1] = c /\ \A k \in 1..l : u[k] = t[k]
  BY <1>1, OneMore
<1>3. l \in Nat /\ \A k \in 1..(l + 1) : k \in 1..l \/ k = l + 1
  OBVIOUS
<1>4. None \notin Nat
  BY SolverAssumption
<1>5. \A k \in 1..l : t[k].part \in Nat \cup {None}
  <2>1. \A k \in 1..l : t[k] \in Contexts
    OBVIOUS
  <2> QED BY <2>1 DEF Contexts
<1>6. \A k \in 1..l : t[k].part # None => t[k].part < next
  BY DEF StackInv
<1> HIDE DEF u, l
<1>7. \A k \in 1..l : t[k].part # None => t[k].part # c.part
  BY <1>4, <1>5, <1>6 DEF Child
<1>8. \A k \in 1..Len(u) : u[k].part # None => u[k].part < next2
  BY <1>2, <1>3, <1>4, <1>5, <1>6 DEF Child
<1>9. \A k, m \in 1..Len(u) : u[k].part = u[m].part /\ u[k].part # None => k = m
  <2>1. \A k, m \in 1..l : t[k].part = t[m].part /\ t[k].part # None => k = m
    BY DEF StackInv, l
  <2> QED BY <1>2, <1>3, <1>7, <2>1
<1>10. \A k \in 1..Len(u) : \A f \in 1..Len(u[k].cursor) :
         \E m \in 1..k : u[m].part = u[k].cursor[f].part
  <2>1. ASSUME NEW k \in 1..l, NEW f \in 1..Len(u[k].cursor)
        PROVE  \E m \in 1..k : u[m].part = u[k].cursor[f].part
    <3>1. PICK m \in 1..k : t[m].part = t[k].cursor[f].part
      BY <1>2, <2>1 DEF StackInv, l
    <3>2. m \in 1..l
      BY <1>3
    <3> QED BY <1>2, <3>1, <3>2
  <2>2. ASSUME NEW f \in 1..Len(c.cursor)
        PROVE  \E m \in 1..(l + 1) : u[m].part = c.cursor[f].part
    <3>1. CASE c.cursor[f].part = c.part
      BY <1>2, <1>3, <3>1
    <3>2. CASE \E m \in 1..l : t[m].part = c.cursor[f].part
      <4>1. PICK m \in 1..l : t[m].part = c.cursor[f].part
        BY <3>2
      <4>2. m \in 1..(l + 1)
        BY <1>3
      <4> QED BY <1>2, <4>1, <4>2
    <3> QED BY <2>2, <3>1, <3>2 DEF Child, l
  <2> QED BY <1>2, <1>3, <2>1, <2>2
<1> QED BY <1>2, <1>8, <1>9, <1>10 DEF u, l, StackInv

-----------------------------------------------------------------------------
(* What a context is followed by.                                          *)

\* A context that follows sc returns to the frames of sc, and to its own.
Follows(c, sc, next, next2) ==
  /\ c \in Contexts
  /\ \/ c.part = None /\ next2 = next
     \/ c.part = next /\ next2 = next + 1
  /\ \A f \in 1..Len(c.cursor) :
       \/ c.cursor[f].part = c.part
       \/ \E g \in 1..Len(sc.cursor) : c.cursor[f].part = sc.cursor[g].part

LEMMA NewContextTyped ==
  ASSUME NEW part \in Nat \cup {None}, NEW cursor \in Seq(Frames), NEW uc \in Seq(Nat),
         NEW gen \in Nat, NEW len \in Nat
  PROVE  LET c == NewContext(part, cursor, uc, gen)
         IN  c \in Contexts /\ c.part = part /\ c.cursor = cursor /\ InList(c, gen, len)
BY DEF NewContext, NewIterator, Contexts, Iterators, InList

LEMMA ContinueFollows ==
  ASSUME NEW sc \in Contexts, sc.cursor # <<>>, NEW uc \in Seq(Nat), NEW gen \in Nat,
         NEW len \in Nat, NEW next
  PROVE  \E c : /\ Continue(sc, uc, gen) = <<c>>
                /\ Follows(c, sc, next, next) /\ InList(c, gen, len)
<1> DEFINE cursor == NextTerm(sc.cursor)
           c == NewContext(None, cursor, uc, gen)
<1>1. cursor \in Seq(Frames) /\ PartsAmong(cursor, sc.cursor)
  BY NextTermTyped DEF Contexts
<1>2. Continue(sc, uc, gen) = <<c>>
  BY DEF Continue
<1> HIDE DEF cursor
<1>3. c \in Contexts /\ c.part = None /\ c.cursor = cursor /\ InList(c, gen, len)
  BY <1>1, NewContextTyped
<1> HIDE DEF c
<1>4. Follows(c, sc, next, next)
  BY <1>1, <1>3 DEF Follows, PartsAmong
<1> QED BY <1>2, <1>3, <1>4

LEMMA EnterFollows ==
  ASSUME NEW sc \in Contexts, sc.cursor # <<>>, NEW uc \in Seq(Nat), NEW gen \in Nat,
         NEW len \in Nat, NEW next \in Nat, NEW body \in Seq(Goals), body # <<>>
  PROVE  LET c == NewContext(next, EnterBody(sc.cursor, next, body), uc, gen)
         IN  Follows(c, sc, next, next + 1) /\ InList(c, gen, len)
<1> DEFINE cursor == EnterBody(sc.cursor, next, body)
           c == NewContext(next, cursor, uc, gen)
<1>1. /\ cursor \in Seq(Frames)
      /\ \A f \in 1..Len(cursor) :
           cursor[f].part = next \/ \E g \in 1..Len(sc.cursor) : cursor[f].part = sc.cursor[g].part
  BY EnterBodyTyped DEF Contexts
<1> HIDE DEF cursor
<1>2. c \in Contexts /\ c.part = next /\ c.cursor = cursor /\ InList(c, gen, len)
  BY <1>1, NewContextTyped
<1> HIDE DEF c
<1>3. Follows(c, sc, next, next + 1)
  BY <1>1, <1>2 DEF Follows
<1> QED BY <1>2, <1>3 DEF c, cursor

\* A new job has entered one goal part.
LEMMA NewJobTyped ==
  ASSUME NEW goals \in Seq(Goals), NEW part \in Nat, NEW gen \in Nat, NEW gen2 \in Nat,
         gen <= gen2, NEW len \in Nat
  PROVE  JobInv(NewJob(goals, part, gen), part + 1, gen2, len)
<1> DEFINE x == [part |-> part, rest |-> goals]
           o == <<x>>
           cursor == Normalize(o)
           c == NewContext(part, cursor, <<>>, gen)
           s == <<c>>
<1>1. x \in [part : Nat, rest : Seq(Goals)] /\ x.part = part
  OBVIOUS
<1> HIDE DEF x
<1>2. o \in Seq([part : Nat, rest : Seq(Goals)]) /\ Len(o) = 1 /\ o[1] = x
  BY <1>1
<1> HIDE DEF o
<1>3. cursor \in Seq(Frames) /\ PartsAmong(cursor, o)
  <2>1. \A k \in 2..Len(o) : o[k].rest # <<>>
    BY <1>2
  <2> QED BY <1>2, <2>1, NormalizeTyped
<1> HIDE DEF cursor
<1>4. \A f \in 1..Len(cursor) : cursor[f].part = part
  BY <1>1, <1>2, <1>3 DEF PartsAmong
<1>5. c \in Contexts /\ c.part = part /\ c.cursor = cursor /\ InList(c, gen, len)
  <2>1. <<>> \in Seq(Nat) /\ part \in Nat \cup {None}
    OBVIOUS
  <2> QED BY <1>3, <2>1, NewContextTyped
<1>6. InList(c, gen2, len)
  BY <1>5, InListGrows
<1> HIDE DEF c
<1>7. s \in Seq(Contexts) /\ Len(s) = 1 /\ s[1] = c
  BY <1>5
<1>8. NewJob(goals, part, gen) = [stack |-> s, solutions |-> <<>>, errors |-> 0]
  BY DEF NewJob, s, c, cursor, o, x
<1> HIDE DEF s
<1>9. StackInv(s, part + 1)
  BY <1>4, <1>5, <1>7 DEF StackInv
<1> DEFINE new == [stack |-> s, solutions |-> <<>>, errors |-> 0]
<1>10. new \in SearchJobs /\ new.stack = s
  <2>1. <<>> \in Seq(Seq(Nat)) /\ 0 \in Nat
    OBVIOUS
  <2> QED BY <1>7, <2>1 DEF SearchJobs
<1> HIDE DEF new
<1>11. \A k \in 1..Len(s) : InList(s[k], gen2, len)
  BY <1>6, <1>7
<1>12. JobInv(new, part + 1, gen2, len)
  BY <1>9, <1>10, <1>11 DEF JobInv
<1> QED BY <1>8, <1>12 DEF new

-----------------------------------------------------------------------------
(* Jobs.                                                                   *)

\* A job with another stack, and with errors of this number.
Changed(job, s, e) == [stack |-> s, solutions |-> job.solutions, errors |-> e]

\* The top context of a job is left as sc, and is followed by another or not.
LEMMA TopLeft ==
  ASSUME NEW job, NEW next \in Nat, NEW next2 \in Nat, NEW gen \in Nat, NEW gen2 \in Nat,
         NEW len \in Nat, NEW len2 \in Nat, gen <= gen2, len <= len2,
         JobInv(job, next, gen, len), job.stack # <<>>,
         NEW sc \in Contexts, sc.part = Last(job.stack).part, sc.cursor = Last(job.stack).cursor,
         InList(sc, gen2, len2), NEW e \in Nat, NEW children,
         \/ children = <<>> /\ next2 = next
         \/ \E c : children = <<c>> /\ Follows(c, sc, next, next2) /\ InList(c, gen2, len2)
  PROVE  JobInv(Changed(job, Front(job.stack) \o <<sc>> \o children, e), next2, gen2, len2)
<1> DEFINE s == job.stack
           t == Front(s) \o <<sc>>
<1>1. job \in SearchJobs /\ s \in Seq(Contexts) /\ s # <<>> /\ StackInv(s, next)
      /\ Len(s) \in Nat /\ \A k \in 1..Len(s) : InList(s[k], gen, len)
  BY DEF JobInv, SearchJobs
<1>2. /\ t \in Seq(Contexts) /\ Len(t) = Len(s) /\ StackInv(t, next) /\ t[Len(s)] = sc
      /\ \A k \in 1..(Len(s) - 1) : t[k] = s[k]
  BY <1>1, LeftStack
<1>3. \A k \in 1..Len(s) : InList(t[k], gen2, len2)
  <2>1. \A k \in 1..Len(s) : s[k] \in Contexts /\ InList(s[k], gen2, len2)
    BY <1>1, InListGrows
  <2>2. \A k \in 1..Len(s) : k = Len(s) \/ k \in 1..(Len(s) - 1)
    BY <1>1
  <2> HIDE DEF s, t
  <2> QED BY <1>2, <2>1, <2>2
<1>4. ASSUME NEW u \in Seq(Contexts), StackInv(u, next2),
             \A k \in 1..Len(u) : InList(u[k], gen2, len2)
      PROVE  JobInv(Changed(job, u, e), next2, gen2, len2)
  <2>1. job.solutions \in Seq(Seq(Nat))
    BY <1>1 DEF SearchJobs
  <2>2. Changed(job, u, e) \in SearchJobs /\ Changed(job, u, e).stack = u
    BY <1>4, <2>1 DEF Changed, SearchJobs
  <2> QED BY <1>4, <2>2 DEF JobInv
<1>5. CASE children = <<>> /\ next2 = next
  <2> HIDE DEF t
  <2>1. t \o children = t
    BY <1>2, <1>5, ConcatEmptySeq
  <2>2. JobInv(Changed(job, t, e), next2, gen2, len2)
    BY <1>2, <1>3, <1>4, <1>5
  <2> QED BY <2>1, <2>2 DEF t
<1>6. CASE \E c : children = <<c>> /\ Follows(c, sc, next, next2) /\ InList(c, gen2, len2)
  <2>1. PICK c : children = <<c>> /\ Follows(c, sc, next, next2) /\ InList(c, gen2, len2)
    BY <1>6
  <2>2. ASSUME NEW g \in 1..Len(sc.cursor)
        PROVE  \E m \in 1..Len(t) : t[m].part = sc.cursor[g].part
    <3>1. Len(s) \in 1..Len(t) /\ t[Len(s)].cursor = sc.cursor
      <4>1. Len(s) # 0
        BY <1>1
      <4> HIDE DEF s, t
      <4> QED BY <1>1, <1>2, <4>1
    <3>2. PICK m \in 1..Len(s) : t[m].part = sc.cursor[g].part
      BY <1>2, <2>2, <3>1 DEF StackInv
    <3> QED BY <1>2, <3>2
  <2> DEFINE u == t \o <<c>>
  <2>3. Child(c, t, next, next2)
    <3> HIDE DEF t
    <3> QED BY <2>1, <2>2 DEF Follows, Child
  <2>4. /\ u \in Seq(Contexts) /\ Len(u) = Len(t) + 1 /\ StackInv(u, next2)
        /\ u[Len(t) + 1] = c /\ \A k \in 1..Len(t) : u[k] = t[k]
    <3>1. t \in Seq(Contexts) /\ StackInv(t, next)
      BY <1>2
    <3> HIDE DEF t
    <3> QED BY <3>1, <2>3, PushedStack
  <2>5. t \o children = u
    BY <2>1
  <2> HIDE DEF t, u
  <2>6. \A k \in 1..Len(u) : InList(u[k], gen2, len2)
    <3>1. \A k \in 1..Len(u) : k \in 1..Len(t) \/ k = Len(t) + 1
      BY <1>1, <1>2, <2>4
    <3> QED BY <1>2, <1>3, <2>1, <2>4, <3>1
  <2>7. JobInv(Changed(job, u, e), next2, gen2, len2)
    BY <1>4, <2>4, <2>6
  <2> QED BY <2>5, <2>7 DEF t
<1> QED BY <1>5, <1>6

\* The top context of a job is popped.
LEMMA TopPopped ==
  ASSUME NEW job, NEW next, NEW gen, NEW len, JobInv(job, next, gen, len), job.stack # <<>>,
         NEW ss \in Seq(Seq(Nat))
  PROVE  JobInv([stack |-> Front(job.stack), solutions |-> ss, errors |-> job.errors],
                next, gen, len)
<1> DEFINE s == Front(job.stack)
           new == [stack |-> s, solutions |-> ss, errors |-> job.errors]
<1>1. job.stack \in Seq(Contexts) /\ StackInv(job.stack, next) /\ job.errors \in Nat
      /\ \A k \in 1..Len(job.stack) : InList(job.stack[k], gen, len)
  BY DEF JobInv, SearchJobs
<1>2. /\ s \in Seq(Contexts) /\ StackInv(s, next)
      /\ \A k \in 1..Len(s) : k \in 1..Len(job.stack) /\ s[k] = job.stack[k]
  BY <1>1, PoppedStack
<1> HIDE DEF s
<1>3. new \in SearchJobs /\ new.stack = s
  BY <1>1, <1>2 DEF SearchJobs
<1> HIDE DEF new
<1>4. JobInv(new, next, gen, len)
  BY <1>1, <1>2, <1>3 DEF JobInv
<1> QED BY <1>4 DEF new, s

LEMMA JobGrows ==
  ASSUME NEW job, NEW next \in Nat, NEW next2 \in Nat, NEW gen \in Nat, NEW gen2 \in Nat,
         NEW len \in Nat, NEW len2 \in Nat, next <= next2, gen <= gen2, len <= len2,
         JobInv(job, next, gen, len)
  PROVE  JobInv(job, next2, gen2, len2)
<1>1. job.stack \in Seq(Contexts)
  BY DEF JobInv, SearchJobs
<1>2. \A k \in 1..Len(job.stack) : job.stack[k] \in Contexts
  BY <1>1
<1>3. \A k \in 1..Len(job.stack) : InList(job.stack[k], gen2, len2)
  BY <1>2, InListGrows DEF JobInv
<1>4. StackInv(job.stack, next2)
  BY <1>1, StackGrows DEF JobInv
<1> QED BY <1>3, <1>4 DEF JobInv

\* The job on top is replaced, left waiting for another, or dropped.
LEMMA TopJobReplaced ==
  ASSUME NEW js, NEW next \in Nat, NEW next2 \in Nat, NEW gen \in Nat, NEW gen2 \in Nat,
         NEW len \in Nat, NEW len2 \in Nat, next <= next2, gen <= gen2, len <= len2,
         JobsInv(js, next, gen, len), NEW job, JobInv(job, next2, gen2, len2)
  PROVE  /\ JobsInv([js EXCEPT ![Len(js)] = job], next2, gen2, len2)
         /\ Len([js EXCEPT ![Len(js)] = job]) = Len(js)
         /\ [js EXCEPT ![Len(js)] = job][Len(js)] = job
<1> DEFINE ks == [js EXCEPT ![Len(js)] = job]
<1>1. js \in Seq(SearchJobs) /\ Len(js) \in Nat \ {0} /\ job \in SearchJobs
  BY DEF JobsInv, JobInv
<1>2. Len(js) \in 1..Len(js)
  BY <1>1
<1>3. /\ ks \in Seq(SearchJobs) /\ Len(ks) = Len(js)
      /\ \A n \in 1..Len(js) : ks[n] = IF n = Len(js) THEN job ELSE js[n]
  BY <1>1, <1>2, ExceptSeq
<1> HIDE DEF ks
<1>4. \A n \in 1..Len(ks) : JobInv(ks[n], next2, gen2, len2)
  <2>1. \A n \in 1..Len(js) : JobInv(js[n], next2, gen2, len2)
    BY JobGrows DEF JobsInv
  <2> QED BY <1>3, <2>1
<1>5. \A n \in 1..(Len(ks) - 1) : Waits(ks[n])
  BY <1>1, <1>3 DEF JobsInv
<1>6. ks # <<>>
  BY <1>1, <1>3
<1> QED BY <1>2, <1>3, <1>4, <1>5, <1>6 DEF JobsInv, ks

LEMMA JobAdded ==
  ASSUME NEW js, NEW next \in Nat, NEW next2 \in Nat, NEW gen \in Nat, NEW len \in Nat,
         next <= next2, JobsInv(js, next, gen, len), Waits(js[Len(js)]),
         NEW job, JobInv(job, next2, gen, len)
  PROVE  JobsInv(Append(js, job), next2, gen, len)
<1> DEFINE ks == Append(js, job)
<1>1. js \in Seq(SearchJobs) /\ Len(js) \in Nat \ {0} /\ job \in SearchJobs
  BY DEF JobsInv, JobInv
<1>2. /\ ks \in Seq(SearchJobs) /\ Len(ks) = Len(js) + 1 /\ ks[Len(js) + 1] = job
      /\ \A n \in 1..Len(js) : ks[n] = js[n]
  BY <1>1
<1> HIDE DEF ks
<1>3. \A n \in 1..Len(ks) : JobInv(ks[n], next2, gen, len)
  <2>1. \A n \in 1..Len(js) : JobInv(js[n], next2, gen, len)
    BY JobGrows DEF JobsInv
  <2>2. \A n \in 1..Len(ks) : n \in 1..Len(js) \/ n = Len(js) + 1
    BY <1>1, <1>2
  <2> QED BY <1>2, <2>1, <2>2
<1>4. \A n \in 1..(Len(ks) - 1) : Waits(ks[n])
  <2>1. \A n \in 1..(Len(ks) - 1) : n \in 1..Len(js) /\ (n = Len(js) \/ n \in 1..(Len(js) - 1))
    BY <1>1, <1>2
  <2> QED BY <1>2, <2>1 DEF JobsInv
<1>5. ks # <<>>
  BY <1>1, <1>2
<1> QED BY <1>2, <1>3, <1>4, <1>5 DEF JobsInv, ks

LEMMA JobDropped ==
  ASSUME NEW js, NEW next, NEW gen, NEW len, JobsInv(js, next, gen, len), Len(js) > 1
  PROVE  LET ks == SubSeq(js, 1, Len(js) - 1)
         IN  /\ JobsInv(ks, next, gen, len) /\ Len(ks) = Len(js) - 1
             /\ Waits(ks[Len(ks)])
<1> DEFINE ks == SubSeq(js, 1, Len(js) - 1)
<1>1. js \in Seq(SearchJobs) /\ Len(js) \in Nat /\ js # <<>>
  BY DEF JobsInv
<1>2. ks \in Seq(SearchJobs) /\ Len(ks) = Len(js) - 1 /\ \A n \in 1..Len(ks) : ks[n] = js[n]
  BY <1>1, AllButLast
<1> HIDE DEF ks
<1>3. \A n \in 1..Len(ks) : n \in 1..Len(js) /\ n \in 1..(Len(js) - 1)
  BY <1>1, <1>2
<1>4. Len(ks) \in 1..Len(ks) /\ ks # <<>>
  BY <1>1, <1>2
<1>5. \A n \in 1..Len(ks) : JobInv(ks[n], next, gen, len) /\ Waits(ks[n])
  BY <1>2, <1>3 DEF JobsInv
<1>6. \A n \in 1..(Len(ks) - 1) : n \in 1..Len(ks)
  BY <1>1, <1>2
<1> QED BY <1>2, <1>4, <1>5, <1>6 DEF JobsInv, ks

-----------------------------------------------------------------------------
(* A turn.                                                                 *)

\* The invariant as a turn leaves it.
After(js, next, gen, list) ==
  /\ list \in Seq(Clauses)
  /\ gen \in Nat
  /\ WellStamped(list, gen)
  /\ next \in Nat
  /\ JobsInv(js, next, gen, Len(list))

\* The top context is seen with its visit counted; only its iterator may be
\* another.
LEMMA VisitedTyped ==
  ASSUME IInv, Top.stack # <<>>
  PROVE  LET sc == Visited(Top)
         IN  /\ sc \in Contexts /\ InList(sc, generation, Len(db))
             /\ sc.part = Last(Top.stack).part /\ sc.cursor = Last(Top.stack).cursor
             /\ JobInv(Top, nextPart, generation, Len(db)) /\ Top = jobs[Len(jobs)]
             /\ Len(jobs) \in Nat \ {0} /\ Len(db) \in Nat /\ Top \in SearchJobs
<1> DEFINE sc == Last(Top.stack)
<1>1. Len(jobs) \in Nat \ {0} /\ Top = jobs[Len(jobs)] /\ Len(db) \in Nat
  BY DEF IInv, JobsInv, DbInv, Top, Last
<1>2. JobInv(Top, nextPart, generation, Len(db)) /\ Top \in SearchJobs
  BY <1>1 DEF IInv, JobsInv, JobInv
<1>3. sc \in Contexts /\ InList(sc, generation, Len(db))
  <2>1. Top.stack \in Seq(Contexts)
    BY <1>2 DEF SearchJobs
  <2>2. Len(Top.stack) \in 1..Len(Top.stack)
    BY <2>1
  <2> QED BY <1>2, <2>1, <2>2 DEF JobInv, Last
<1>4. generation \in Nat
  BY DEF IInv, DbInv
<1> DEFINE v == IF sc.visits = 0 THEN 1 ELSE 2
           i == IF Len(Top.stack) = 1 /\ sc.visits = 0 THEN NewIterator(generation) ELSE sc.it
           w == [sc EXCEPT !.visits = v, !.it = i]
<1>5. Visited(Top) = w
  BY DEF Visited
<1> HIDE DEF sc
<1>6. i \in Iterators /\ i.snapshot <= generation /\ i.pos \in 1..(Len(db) + 1) /\ v \in 0..2
  BY <1>1, <1>3, <1>4 DEF NewIterator, Iterators, InList, Contexts
<1> HIDE DEF v, i
<1>7. w \in Contexts /\ w.part = sc.part /\ w.cursor = sc.cursor /\ w.it = i
  BY <1>3, <1>6 DEF Contexts
<1> HIDE DEF w
<1>8. InList(w, generation, Len(db))
  BY <1>6, <1>7 DEF InList
<1> QED BY <1>1, <1>2, <1>5, <1>7, <1>8 DEF sc

\* Only the iterator of a context is changed.
LEMMA OtherIterator ==
  ASSUME NEW sc \in Contexts, NEW gen, NEW len, InList(sc, gen, len)
  PROVE  /\ Invalidated(sc) \in Contexts /\ InList(Invalidated(sc), gen, len)
         /\ Invalidated(sc).part = sc.part /\ Invalidated(sc).cursor = sc.cursor
         /\ \A p \in 1..(len + 1) :
              /\ [sc EXCEPT !.it.pos = p] \in Contexts /\ InList([sc EXCEPT !.it.pos = p], gen, len)
              /\ [sc EXCEPT !.it.pos = p].part = sc.part
              /\ [sc EXCEPT !.it.pos = p].cursor = sc.cursor
<1>1. ASSUME NEW i \in Iterators, i.snapshot <= gen, i.pos \in 1..(len + 1), NEW c,
             c = [sc EXCEPT !.it = i]
      PROVE  /\ c \in Contexts /\ InList(c, gen, len)
             /\ c.part = sc.part /\ c.cursor = sc.cursor
  <2>1. c \in Contexts /\ c.part = sc.part /\ c.cursor = sc.cursor /\ c.it = i
    BY <1>1 DEF Contexts
  <2> QED BY <1>1, <2>1 DEF InList
<1>2. sc.it \in Iterators /\ sc.it.snapshot <= gen /\ sc.it.pos \in 1..(len + 1)
  BY DEF InList, Contexts
<1>3. /\ Invalidated(sc) \in Contexts /\ InList(Invalidated(sc), gen, len)
      /\ Invalidated(sc).part = sc.part /\ Invalidated(sc).cursor = sc.cursor
  <2> DEFINE i == [sc.it EXCEPT !.invalidated = TRUE]
  <2>1. i \in Iterators /\ i.snapshot <= gen /\ i.pos \in 1..(len + 1)
    BY <1>2 DEF Iterators
  <2>2. Invalidated(sc) = [sc EXCEPT !.it = i]
    BY DEF Invalidated
  <2> HIDE DEF i
  <2> QED BY <1>1, <2>1, <2>2
<1>4. ASSUME NEW p \in 1..(len + 1), NEW c, c = [sc EXCEPT !.it.pos = p]
      PROVE  c \in Contexts /\ InList(c, gen, len) /\ c.part = sc.part /\ c.cursor = sc.cursor
  <2> DEFINE i == [sc.it EXCEPT !.pos = p]
  <2>1. i \in Iterators /\ i.snapshot <= gen /\ i.pos \in 1..(len + 1)
    BY <1>2 DEF Iterators
  <2>2. c = [sc EXCEPT !.it = i]
    BY <1>4
  <2> HIDE DEF i
  <2> QED BY <1>1, <2>1, <2>2
<1> QED BY <1>3, <1>4

LEMMA ChangedJob ==
  ASSUME NEW js \in Seq(SearchJobs), js # <<>>, NEW u
  PROVE  /\ [js EXCEPT ![Len(js)].stack = u]
              = [js EXCEPT ![Len(js)] = Changed(js[Len(js)], u, js[Len(js)].errors)]
         /\ [js EXCEPT ![Len(js)].stack = u, ![Len(js)].errors = @ + 1]
              = [js EXCEPT ![Len(js)] = Changed(js[Len(js)], u, js[Len(js)].errors + 1)]
<1> DEFINE n == Len(js)
           job == js[n]
<1>1. n \in DOMAIN js /\ job \in SearchJobs
  OBVIOUS
<1> HIDE DEF n
<1>2. /\ [js EXCEPT ![n].stack = u] = [js EXCEPT ![n] = [job EXCEPT !.stack = u]]
      /\ [js EXCEPT ![n].stack = u, ![n].errors = @ + 1]
           = [js EXCEPT ![n] = [job EXCEPT !.stack = u, !.errors = @ + 1]]
  BY <1>1
<1>3. /\ [job EXCEPT !.stack = u] = Changed(job, u, job.errors)
      /\ [job EXCEPT !.stack = u, !.errors = @ + 1] = Changed(job, u, job.errors + 1)
  <2> HIDE DEF job
  <2> DEFINE S == Seq(Contexts)
             T == Seq(Seq(Nat))
             one == [job EXCEPT !.stack = u]
             other == [stack |-> u, solutions |-> job.solutions, errors |-> job.errors]
  <2>1. one = other
    <3>1. job \in [stack : S, solutions : T, errors : Nat]
      BY <1>1 DEF SearchJobs
    <3> HIDE DEF S, T
    <3> QED BY <3>1
  <2>2. [job EXCEPT !.stack = u, !.errors = @ + 1] = Changed(job, u, job.errors + 1)
    <3> DEFINE v == job.errors + 1
    <3>1. [job EXCEPT !.stack = u, !.errors = v] = [one EXCEPT !.errors = v]
      BY Zenon
    <3>2. [other EXCEPT !.errors = v] = [stack |-> u, solutions |-> job.solutions, errors |-> v]
      <4> HIDE DEF v
      <4> QED OBVIOUS
    <3> HIDE DEF one, other
    <3>3. [job EXCEPT !.stack = u, !.errors = v]
            = [stack |-> u, solutions |-> job.solutions, errors |-> v]
      BY <2>1, <3>1, <3>2, Zenon
    <3> QED BY <3>3, Zenon DEF Changed
  <2> QED BY <2>1, <2>2, Zenon DEF Changed
<1> QED BY <1>2, <1>3 DEF n

\* What the actions have in common: the top context is left, and followed.
LEMMA TopLeaves ==
  ASSUME IInv, Top.stack # <<>>,
         NEW sc \in Contexts, sc.part = Last(Top.stack).part, sc.cursor = Last(Top.stack).cursor,
         NEW next2 \in Nat, nextPart <= next2, NEW gen2 \in Nat, generation <= gen2,
         NEW list, Len(list) \in Nat, Len(db) <= Len(list), InList(sc, gen2, Len(list)),
         NEW children,
         \/ children = <<>> /\ next2 = nextPart
         \/ \E c : children = <<c>> /\ Follows(c, sc, nextPart, next2) /\ InList(c, gen2, Len(list))
  PROVE  /\ JobsInv([jobs EXCEPT ![Len(jobs)].stack = Front(@) \o <<sc>> \o children],
                    next2, gen2, Len(list))
         /\ JobsInv([jobs EXCEPT ![Len(jobs)].stack = Front(@) \o <<sc>> \o children,
                                 ![Len(jobs)].errors = @ + 1],
                    next2, gen2, Len(list))
<1> DEFINE u == Front(Top.stack) \o <<sc>> \o children
           n == Len(jobs)
           len2 == Len(list)
<1>1. /\ JobInv(Top, nextPart, generation, Len(db)) /\ Top = jobs[n]
      /\ Len(db) \in Nat /\ Top.errors \in Nat /\ generation \in Nat /\ nextPart \in Nat
  BY VisitedTyped DEF SearchJobs, IInv, DbInv, SliceInv
<1>2. jobs \in Seq(SearchJobs) /\ jobs # <<>> /\ JobsInv(jobs, nextPart, generation, Len(db))
  BY DEF IInv, JobsInv
<1> HIDE DEF len2
<1>3. ASSUME NEW e \in Nat PROVE JobInv(Changed(Top, u, e), next2, gen2, len2)
  <2>1. len2 \in Nat /\ Len(db) <= len2
    BY DEF len2
  <2> QED BY <1>1, <2>1, TopLeft DEF len2
<1>4. ASSUME NEW e \in Nat
      PROVE  JobsInv([jobs EXCEPT ![n] = Changed(Top, u, e)], next2, gen2, len2)
  <2>1. len2 \in Nat /\ Len(db) <= len2
    BY DEF len2
  <2> HIDE DEF u
  <2> DEFINE job == Changed(Top, u, e)
  <2>2. JobInv(job, next2, gen2, len2)
    BY <1>3
  <2> HIDE DEF job
  <2>3. JobsInv([jobs EXCEPT ![n] = job], next2, gen2, len2)
    BY <1>1, <1>2, <2>1, <2>2, TopJobReplaced
  <2> QED BY <2>3 DEF job
<1>5. /\ [jobs EXCEPT ![n].stack = Front(@) \o <<sc>> \o children] = [jobs EXCEPT ![n].stack = u]
      /\ [jobs EXCEPT ![n].stack = Front(@) \o <<sc>> \o children, ![n].errors = @ + 1]
           = [jobs EXCEPT ![n].stack = u, ![n].errors = @ + 1]
  BY <1>1
<1> HIDE DEF u
<1>6. /\ [jobs EXCEPT ![n].stack = u] = [jobs EXCEPT ![n] = Changed(Top, u, Top.errors)]
      /\ [jobs EXCEPT ![n].stack = u, ![n].errors = @ + 1]
           = [jobs EXCEPT ![n] = Changed(Top, u, Top.errors + 1)]
  BY <1>1, <1>2, ChangedJob
<1>7. Top.errors \in Nat /\ Top.errors + 1 \in Nat
  BY <1>1
<1> QED BY <1>4, <1>5, <1>6, <1>7 DEF len2

\* No context follows.
LEMMA TopIsLast ==
  ASSUME IInv, Top.stack # <<>>,
         NEW sc \in Contexts, sc.part = Last(Top.stack).part, sc.cursor = Last(Top.stack).cursor,
         NEW gen2 \in Nat, generation <= gen2,
         NEW list, Len(list) \in Nat, Len(db) <= Len(list), InList(sc, gen2, Len(list))
  PROVE  /\ JobsInv([jobs EXCEPT ![Len(jobs)].stack = Front(@) \o <<sc>> \o <<>>],
                    nextPart, gen2, Len(list))
         /\ JobsInv([jobs EXCEPT ![Len(jobs)].stack = Front(@) \o <<sc>>,
                                 ![Len(jobs)].errors = @ + 1],
                    nextPart, gen2, Len(list))
<1> DEFINE n == Len(jobs)
           s == Front(Top.stack) \o <<sc>>
<1>1. nextPart \in Nat /\ nextPart <= nextPart /\ Top = jobs[n]
  BY VisitedTyped DEF IInv, SliceInv
<1>2. s \o <<>> = s
  <2>1. Top.stack \in Seq(Contexts) /\ StackInv(Top.stack, nextPart)
    BY VisitedTyped DEF JobInv, SearchJobs
  <2>2. s \in Seq(Contexts)
    BY <2>1, LeftStack
  <2> HIDE DEF s
  <2> QED BY <2>2, ConcatEmptySeq
<1> DEFINE children == <<>>
<1>3. /\ JobsInv([jobs EXCEPT ![n].stack = Front(@) \o <<sc>> \o children],
                 nextPart, gen2, Len(list))
      /\ JobsInv([jobs EXCEPT ![n].stack = Front(@) \o <<sc>> \o children, ![n].errors = @ + 1],
                 nextPart, gen2, Len(list))
  BY <1>1, TopLeaves
<1>4. [jobs EXCEPT ![n].stack = Front(@) \o <<sc>> \o children, ![n].errors = @ + 1]
        = [jobs EXCEPT ![n].stack = Front(@) \o <<sc>>, ![n].errors = @ + 1]
  BY <1>1, <1>2
<1> QED BY <1>3, <1>4

LEMMA TopPops ==
  ASSUME IInv, Top.stack # <<>>
  PROVE  /\ JobsInv([jobs EXCEPT ![Len(jobs)].stack = Front(@)], nextPart, generation, Len(db))
         /\ \A uc \in Seq(Nat) :
              JobsInv([jobs EXCEPT ![Len(jobs)].stack = Front(@),
                                   ![Len(jobs)].solutions = Append(@, uc)],
                      nextPart, generation, Len(db))
<1> DEFINE n == Len(jobs)
           u == Front(Top.stack)
           len == Len(db)
<1>1. /\ JobInv(Top, nextPart, generation, len) /\ Top = jobs[n] /\ len \in Nat
      /\ Top.solutions \in Seq(Seq(Nat)) /\ generation \in Nat /\ nextPart \in Nat
  BY VisitedTyped DEF SearchJobs, IInv, DbInv, SliceInv
<1>2. jobs \in Seq(SearchJobs) /\ jobs # <<>> /\ JobsInv(jobs, nextPart, generation, len)
  BY DEF IInv, JobsInv
<1> HIDE DEF len
<1>3. ASSUME NEW ss \in Seq(Seq(Nat))
      PROVE  JobsInv([jobs EXCEPT ![n] = [stack |-> u, solutions |-> ss, errors |-> Top.errors]],
                     nextPart, generation, len)
  <2> DEFINE job == [stack |-> u, solutions |-> ss, errors |-> Top.errors]
  <2>1. JobInv(job, nextPart, generation, len)
    BY <1>1, TopPopped
  <2> HIDE DEF job
  <2>2. nextPart <= nextPart /\ generation <= generation /\ len <= len
    BY <1>1
  <2>3. JobsInv([jobs EXCEPT ![n] = job], nextPart, generation, len)
    BY <1>1, <1>2, <2>1, <2>2, TopJobReplaced
  <2> QED BY <2>3 DEF job
<1>4. [jobs EXCEPT ![n].stack = Front(@)] = [jobs EXCEPT ![n].stack = u]
  BY <1>1
<1>5. [jobs EXCEPT ![n].stack = u] = [jobs EXCEPT ![n] = Changed(Top, u, Top.errors)]
  <2> HIDE DEF u
  <2> QED BY <1>1, <1>2, ChangedJob
<1>6. Changed(Top, u, Top.errors)
        = [stack |-> u, solutions |-> Top.solutions, errors |-> Top.errors]
  BY DEF Changed
<1>7. JobsInv([jobs EXCEPT ![n].stack = Front(@)], nextPart, generation, len)
  BY <1>1, <1>3, <1>4, <1>5, <1>6
<1>8. ASSUME NEW uc \in Seq(Nat)
      PROVE  JobsInv([jobs EXCEPT ![n].stack = Front(@), ![n].solutions = Append(@, uc)],
                     nextPart, generation, len)
  <2> DEFINE ss == Append(Top.solutions, uc)
  <2>1. ss \in Seq(Seq(Nat))
    BY <1>1
  <2>2. [jobs EXCEPT ![n].stack = Front(@), ![n].solutions = Append(@, uc)]
          = [jobs EXCEPT ![n].stack = u, ![n].solutions = ss]
    BY <1>1
  <2> HIDE DEF ss, u
  <2>3. [jobs EXCEPT ![n].stack = u, ![n].solutions = ss]
          = [jobs EXCEPT ![n] = [stack |-> u, solutions |-> ss, errors |-> Top.errors]]
    <3> DEFINE S == Seq(Contexts)
               T == Seq(Seq(Nat))
               one == [Top EXCEPT !.stack = u]
               other == [stack |-> u, solutions |-> Top.solutions, errors |-> Top.errors]
    <3>1. one = other
      <4>1. Top \in [stack : S, solutions : T, errors : Nat]
        BY <1>1 DEF JobInv, SearchJobs
      <4> HIDE DEF S, T
      <4> QED BY <4>1
    <3>2. [Top EXCEPT !.stack = u, !.solutions = ss] = [one EXCEPT !.solutions = ss]
      BY Zenon
    <3>3. [other EXCEPT !.solutions = ss] = [stack |-> u, solutions |-> ss, errors |-> Top.errors]
      OBVIOUS
    <3>4. [jobs EXCEPT ![n].stack = u, ![n].solutions = ss]
            = [jobs EXCEPT ![n] = [Top EXCEPT !.stack = u, !.solutions = ss]]
      <4>1. n \in DOMAIN jobs
        BY <1>2
      <4> HIDE DEF n
      <4> QED BY <1>1, <4>1
    <3> HIDE DEF one, other
    <3> QED BY <3>1, <3>2, <3>3, <3>4, Zenon
  <2> QED BY <1>3, <2>1, <2>2, <2>3
<1> QED BY <1>7, <1>8 DEF len

-----------------------------------------------------------------------------
(* Each action, with what it leaves of the state.                          *)

Kept == After(jobs', nextPart', generation', db')

LEMMA EmitSolutionKeeps == ASSUME IInv, EmitSolution PROVE Kept
<1>1. Top.stack # <<>> /\ UNCHANGED <<dbVars, nextPart>>
  BY DEF EmitSolution, InLoop
<1> DEFINE sc == Visited(Top)
<1>2. sc.uc \in Seq(Nat)
  BY <1>1, VisitedTyped DEF Contexts
<1>3. jobs' = [jobs EXCEPT ![Len(jobs)].stack = Front(@), ![Len(jobs)].solutions = Append(@, sc.uc)]
  BY DEF EmitSolution
<1> HIDE DEF sc
<1> QED BY <1>1, <1>2, <1>3, TopPops DEF Kept, After, IInv, DbInv, SliceInv, dbVars

LEMMA ExhaustedKeeps == ASSUME IInv, Exhausted PROVE Kept
<1>1. Top.stack # <<>> /\ UNCHANGED <<dbVars, nextPart>>
  BY DEF Exhausted, AtGoal, InLoop
<1>2. jobs' = [jobs EXCEPT ![Len(jobs)].stack = Front(@)]
  BY DEF Exhausted
<1> QED BY <1>1, <1>2, TopPops DEF Kept, After, IInv, DbInv, SliceInv, dbVars

\* A debugger's halt only counts the visit.
LEMMA VisitKeeps ==
  ASSUME IInv, Top.stack # <<>>, Leave(Visited(Top), <<>>), UNCHANGED <<dbVars, nextPart>>
  PROVE  Kept
<1> DEFINE sc == Visited(Top)
           n == Len(jobs)
<1>1. /\ sc \in Contexts /\ InList(sc, generation, Len(db)) /\ Len(db) \in Nat
      /\ sc.part = Last(Top.stack).part /\ sc.cursor = Last(Top.stack).cursor
  BY VisitedTyped
<1>2. jobs' = [jobs EXCEPT ![n].stack = Front(@) \o <<sc>> \o <<>>]
  BY DEF Leave
<1>3. generation \in Nat /\ nextPart \in Nat /\ nextPart <= nextPart /\ generation <= generation /\ Len(db) <= Len(db)
  BY <1>1 DEF IInv, DbInv, SliceInv
<1> HIDE DEF sc
<1>4. JobsInv(jobs', nextPart, generation, Len(db))
  BY <1>1, <1>2, <1>3, TopLeaves
<1> QED BY <1>4 DEF Kept, After, IInv, DbInv, SliceInv, dbVars

\* Where a goal is looked at, a context follows the one that runs it.
LEMMA GoalTyped ==
  ASSUME IInv, AtGoal(Visited(Top))
  PROVE  LET sc == Visited(Top)
         IN  /\ Top.stack # <<>> /\ sc.cursor # <<>> /\ CurrentGoal(sc) \in Goals
             /\ \A uc \in Seq(Nat), gen \in Nat, len \in Nat, next \in Nat :
                  \E c : /\ Continue(sc, uc, gen) = <<c>>
                         /\ Follows(c, sc, next, next) /\ InList(c, gen, len)
<1> DEFINE sc == Visited(Top)
<1>1. Top.stack # <<>> /\ sc.cursor # <<>>
  BY DEF AtGoal, InLoop
<1>2. sc \in Contexts
  BY <1>1, VisitedTyped
<1> HIDE DEF sc
<1>3. CurrentGoal(sc) \in Goals
  <2>1. sc.cursor \in Seq(Frames) /\ sc.cursor # <<>>
    BY <1>1, <1>2 DEF Contexts
  <2>2. sc.cursor[1] \in Frames
    BY <2>1
  <2> DEFINE rest == sc.cursor[1].rest
  <2>3. rest \in Seq(Goals) /\ rest # <<>>
    BY <2>2 DEF Frames
  <2> HIDE DEF rest
  <2>4. Head(rest) \in Goals
    BY <2>3
  <2> QED BY <2>4 DEF CurrentGoal, rest
<1>4. \A uc \in Seq(Nat), gen \in Nat, len \in Nat, next \in Nat :
        \E c : /\ Continue(sc, uc, gen) = <<c>>
               /\ Follows(c, sc, next, next) /\ InList(c, gen, len)
  BY <1>1, <1>2, ContinueFollows
<1> QED BY <1>1, <1>3, <1>4 DEF sc

LEMMA CallCutKeeps == ASSUME IInv, CallCut PROVE Kept
<1> DEFINE sc == Visited(Top)
           t == Front(Top.stack) \o <<sc>>
           owner == CHOOSE k \in 1..Len(t) : t[k].part = sc.cursor[1].part
           entry == IF owner = 1 THEN 1 ELSE owner - 1
           u == [k \in 1..Len(t) |-> IF k < entry THEN t[k] ELSE Invalidated(t[k])]
           w == Continue(sc, sc.uc, generation)
           n == Len(jobs)
           len == Len(db)
<1>1. AtGoal(sc) /\ UNCHANGED <<dbVars, nextPart>> /\ jobs' = [jobs EXCEPT ![n].stack = u \o w]
  BY DEF CallCut, AtSpecial
<1>2. Top.stack # <<>> /\ sc.cursor # <<>>
  BY <1>1, GoalTyped
<1>3. /\ sc \in Contexts /\ InList(sc, generation, len) /\ len \in Nat
      /\ sc.part = Last(Top.stack).part /\ sc.cursor = Last(Top.stack).cursor
      /\ JobInv(Top, nextPart, generation, len) /\ Top = jobs[n]
  BY <1>2, VisitedTyped
<1>4. generation \in Nat /\ nextPart \in Nat /\ jobs \in Seq(SearchJobs) /\ jobs # <<>>
      /\ JobsInv(jobs, nextPart, generation, len)
  BY DEF IInv, DbInv, SliceInv, JobsInv
<1>5. PICK c : w = <<c>> /\ Follows(c, sc, nextPart, nextPart) /\ InList(c, generation, len)
  <2>1. sc.uc \in Seq(Nat)
    BY <1>3 DEF Contexts
  <2> QED BY <1>1, <1>3, <1>4, <2>1, GoalTyped
<1> DEFINE s == Top.stack
<1>6. s \in Seq(Contexts) /\ s # <<>> /\ StackInv(s, nextPart) /\ Len(s) \in Nat \ {0}
      /\ \A k \in 1..Len(s) : InList(s[k], generation, len)
  BY <1>2, <1>3 DEF JobInv, SearchJobs
<1> HIDE DEF sc, s
<1>7. /\ t \in Seq(Contexts) /\ Len(t) = Len(s) /\ StackInv(t, nextPart) /\ t[Len(s)] = sc
      /\ \A k \in 1..(Len(s) - 1) : t[k] = s[k]
  BY <1>3, <1>6, LeftStack DEF s
<1> HIDE DEF t
<1>8. \A k \in 1..Len(s) : t[k] \in Contexts /\ InList(t[k], generation, len)
  <2>1. \A k \in 1..Len(s) : k = Len(s) \/ k \in 1..(Len(s) - 1)
    BY <1>6
  <2> QED BY <1>3, <1>6, <1>7, <2>1
<1>9. ASSUME NEW k \in 1..Len(s)
      PROVE  /\ u[k] \in Contexts /\ InList(u[k], generation, len)
             /\ u[k].part = t[k].part /\ u[k].cursor = t[k].cursor
  <2>1. u[k] = t[k] \/ u[k] = Invalidated(t[k])
    <3> HIDE DEF entry
    <3> QED BY <1>7
  <2>2. t[k] \in Contexts /\ InList(t[k], generation, len)
    BY <1>8
  <2> QED BY <2>1, <2>2, OtherIterator
<1>10. u \in Seq(Contexts) /\ Len(u) = Len(s)
  <2>1. u \in [1..Len(s) -> Contexts]
    <3> HIDE DEF entry
    <3>1. DOMAIN u = 1..Len(s) /\ u = [k \in 1..Len(s) |-> u[k]]
      BY <1>7
    <3> HIDE DEF u
    <3> QED BY <1>9, <3>1
  <2> HIDE DEF u
  <2>2. Len(s) \in Nat
    BY <1>6
  <2> QED BY <2>1, <2>2
<1> HIDE DEF u
<1>11. StackInv(u, nextPart)
  <2>1. Len(u) = Len(t) /\ Len(t) \in Nat
    BY <1>6, <1>7, <1>10
  <2>2. \A k \in 1..Len(t) : u[k].part = t[k].part /\ u[k].cursor = t[k].cursor
    BY <1>7, <1>9
  <2> QED BY <1>7, <2>1, <2>2, SameParts
<1>12. Child(c, u, nextPart, nextPart)
  <2>1. Len(s) \in 1..Len(u) /\ u[Len(s)].cursor = sc.cursor
    BY <1>6, <1>7, <1>9, <1>10
  <2>2. ASSUME NEW g \in 1..Len(sc.cursor)
        PROVE  \E m \in 1..Len(u) : u[m].part = sc.cursor[g].part
    BY <1>10, <1>11, <2>1 DEF StackInv
  <2> QED BY <1>5, <2>2 DEF Follows, Child
<1> DEFINE v == u \o <<c>>
<1>13. /\ v \in Seq(Contexts) /\ Len(v) = Len(u) + 1 /\ StackInv(v, nextPart)
       /\ v[Len(u) + 1] = c /\ \A k \in 1..Len(u) : v[k] = u[k]
  BY <1>4, <1>10, <1>11, <1>12, PushedStack
<1> HIDE DEF v
<1>14. \A k \in 1..Len(v) : InList(v[k], generation, len)
  <2>1. \A k \in 1..Len(v) : k \in 1..Len(u) \/ k = Len(u) + 1
    BY <1>6, <1>10, <1>13
  <2> QED BY <1>5, <1>9, <1>10, <1>13, <2>1
<1> DEFINE job == Changed(Top, v, Top.errors)
<1>15. JobInv(job, nextPart, generation, len)
  <2>1. job \in SearchJobs /\ job.stack = v
    BY <1>3, <1>13 DEF Changed, JobInv, SearchJobs
  <2> HIDE DEF job
  <2> QED BY <1>13, <1>14, <2>1 DEF JobInv
<1>16. jobs' = [jobs EXCEPT ![n] = job]
  <2>1. jobs' = [jobs EXCEPT ![n].stack = v]
    BY <1>1, <1>5 DEF v
  <2>2. [jobs EXCEPT ![n].stack = v] = [jobs EXCEPT ![n] = Changed(jobs[n], v, jobs[n].errors)]
    BY <1>4, ChangedJob
  <2> QED BY <1>3, <2>1, <2>2
<1> HIDE DEF job
<1>17. JobsInv(jobs', nextPart, generation, len)
  <2>1. nextPart <= nextPart /\ generation <= generation /\ len <= len
    BY <1>3, <1>4
  <2> QED BY <1>3, <1>4, <1>15, <1>16, <2>1, TopJobReplaced
<1> QED BY <1>1, <1>17 DEF Kept, After, IInv, DbInv, SliceInv, dbVars

\* The context that called findall() stays on top of the job that waits.
LEMMA CallFindallKeeps == ASSUME IInv, CallFindall PROVE Kept
<1> DEFINE sc == Visited(Top)
           n == Len(jobs)
           len == Len(db)
           g == CurrentGoal(sc)
           goal == [op |-> "call", atom |-> g.atom]
           ks == [jobs EXCEPT ![n].stack = Front(@) \o <<sc>>]
           new == NewJob(<<goal>>, nextPart, generation)
<1>1. /\ AtGoal(sc) /\ g.op = "findall" /\ UNCHANGED dbVars
      /\ nextPart' = nextPart + 1 /\ jobs' = Append(ks, new)
  BY DEF CallFindall, AtSpecial
<1>2. Top.stack # <<>> /\ sc.cursor # <<>> /\ g \in Goals
  BY <1>1, GoalTyped
<1>3. /\ sc \in Contexts /\ InList(sc, generation, len) /\ len \in Nat
      /\ sc.part = Last(Top.stack).part /\ sc.cursor = Last(Top.stack).cursor
      /\ JobInv(Top, nextPart, generation, len) /\ Top = jobs[n] /\ n \in Nat \ {0}
  BY <1>2, VisitedTyped
<1>4. generation \in Nat /\ nextPart \in Nat /\ jobs \in Seq(SearchJobs) /\ jobs # <<>>
      /\ JobsInv(jobs, nextPart, generation, len)
  BY DEF IInv, DbInv, SliceInv, JobsInv
<1>5. goal \in Goals
  <2>1. g \in CaseGoals \/ \E h \in CaseGoals : g = [op |-> "call", atom |-> h.atom]
    BY <1>2 DEF Goals
  <2> QED BY <1>1, <2>1 DEF Goals
<1> HIDE DEF goal
<1>6. JobInv(new, nextPart + 1, generation, len)
  <2> DEFINE goals == <<goal>>
  <2>1. goals \in Seq(Goals) /\ generation <= generation
    BY <1>4, <1>5
  <2> HIDE DEF goals
  <2>2. JobInv(NewJob(goals, nextPart, generation), nextPart + 1, generation, len)
    BY <1>3, <1>4, <2>1, NewJobTyped
  <2> QED BY <2>2 DEF goals
<1> DEFINE s == Front(Top.stack) \o <<sc>>
           job == Changed(Top, s, Top.errors)
<1>7. JobInv(job, nextPart, generation, len)
  <2>1. generation <= generation /\ len <= len /\ Top.errors \in Nat
    BY <1>3, <1>4 DEF JobInv, SearchJobs
  <2>2. JobInv(Changed(Top, s \o <<>>, Top.errors), nextPart, generation, len)
    BY <1>2, <1>3, <1>4, <2>1, TopLeft
  <2>3. s \o <<>> = s
    <3>1. Top.stack \in Seq(Contexts) /\ StackInv(Top.stack, nextPart)
      BY <1>3 DEF JobInv, SearchJobs
    <3>2. s \in Seq(Contexts)
      BY <1>2, <1>3, <3>1, LeftStack
    <3> HIDE DEF s
    <3> QED BY <3>2, ConcatEmptySeq
  <2> QED BY <2>2, <2>3
<1>8. Waits(job)
  <2>1. Top.stack \in Seq(Contexts) /\ StackInv(Top.stack, nextPart)
    BY <1>3 DEF JobInv, SearchJobs
  <2>2. s \in Seq(Contexts) /\ Len(s) = Len(Top.stack) /\ s[Len(Top.stack)] = sc
    BY <1>2, <1>3, <2>1, LeftStack
  <2>3. Len(Top.stack) # 0
    BY <1>2, <2>1
  <2>4. job.stack = s
    BY DEF Changed
  <2> HIDE DEF s, job, sc
  <2> QED BY <1>2, <2>2, <2>3, <2>4 DEF Waits, Last
<1>9. ks = [jobs EXCEPT ![n] = job]
  <2>1. ks = [jobs EXCEPT ![n].stack = s]
    BY <1>3
  <2> HIDE DEF s
  <2>2. [jobs EXCEPT ![n].stack = s] = [jobs EXCEPT ![n] = Changed(jobs[n], s, jobs[n].errors)]
    BY <1>4, ChangedJob
  <2> QED BY <1>3, <2>1, <2>2
<1> HIDE DEF job, new, ks
<1>10. JobsInv(ks, nextPart, generation, len) /\ Len(ks) = n /\ ks[n] = job
  <2>1. nextPart <= nextPart /\ generation <= generation /\ len <= len
    BY <1>3, <1>4
  <2>2. len \in Nat
    BY <1>3
  <2> HIDE DEF len, sc, n
  <2>3. JobsInv([jobs EXCEPT ![Len(jobs)] = job], nextPart, generation, len)
        /\ Len([jobs EXCEPT ![Len(jobs)] = job]) = Len(jobs)
        /\ [jobs EXCEPT ![Len(jobs)] = job][Len(jobs)] = job
    BY <1>4, <1>7, <2>1, <2>2, TopJobReplaced
  <2> QED BY <1>9, <2>3 DEF n
<1>11. JobsInv(jobs', nextPart + 1, generation, len)
  <2>1. nextPart <= nextPart + 1 /\ nextPart + 1 \in Nat
    BY <1>4
  <2> QED BY <1>1, <1>3, <1>4, <1>6, <1>8, <1>10, <2>1, JobAdded
<1> QED BY <1>1, <1>4, <1>11 DEF Kept, After, IInv, DbInv, dbVars

\* The job that waited goes on from the context that it waited in.
LEMMA ReturnFindallKeeps == ASSUME IInv, ReturnFindall PROVE Kept
<1> DEFINE n == Len(jobs) - 1
           len == Len(db)
           ks == SubSeq(jobs, 1, n)
           job == jobs[n]
           sc == Last(job.stack)
           found == Len(Top.solutions)
           uc == Append(sc.uc, 0)
           children == IF CurrentGoal(sc).out \in {None, found}
                         THEN Continue(sc, uc, generation) ELSE <<>>
<1>1. /\ n > 0 /\ UNCHANGED <<dbVars, nextPart>>
      /\ jobs' = [ks EXCEPT ![n].stack = Front(@) \o <<Invalidated(sc)>> \o children]
  BY DEF ReturnFindall
<1>2. generation \in Nat /\ nextPart \in Nat /\ jobs \in Seq(SearchJobs) /\ jobs # <<>>
      /\ JobsInv(jobs, nextPart, generation, len) /\ Len(jobs) \in Nat /\ len \in Nat
  BY DEF IInv, DbInv, SliceInv, JobsInv
<1>3. JobsInv(ks, nextPart, generation, len) /\ Len(ks) = n /\ Waits(ks[n])
  <2>1. Len(jobs) > 1
    BY <1>1, <1>2
  <2> QED BY <1>2, <2>1, JobDropped
<1>4. ks[n] = job /\ n \in 1..n /\ n \in Nat
  <2>1. \A k \in 1..n : ks[k] = jobs[k]
    BY <1>2, AllButLast
  <2> QED BY <1>1, <1>2, <2>1
<1> HIDE DEF ks, n
<1>5. JobInv(job, nextPart, generation, len) /\ job.stack # <<>> /\ sc.cursor # <<>>
  BY <1>3, <1>4 DEF JobsInv, Waits
<1> HIDE DEF job
<1>6. job.stack \in Seq(Contexts) /\ job.errors \in Nat /\ sc \in Contexts /\ InList(sc, generation, len)
  <2>1. job.stack \in Seq(Contexts) /\ job.errors \in Nat
    BY <1>5 DEF JobInv, SearchJobs
  <2>2. Len(job.stack) \in 1..Len(job.stack)
    BY <1>5, <2>1
  <2> QED BY <1>5, <2>1, <2>2 DEF JobInv, Last
<1> DEFINE left == Invalidated(sc)
<1>7. /\ left \in Contexts /\ InList(left, generation, len)
      /\ left.part = sc.part /\ left.cursor = sc.cursor
  <2> HIDE DEF sc
  <2> QED BY <1>6, OtherIterator
<1>8. \/ children = <<>>
      \/ \E c : children = <<c>> /\ Follows(c, left, nextPart, nextPart) /\ InList(c, generation, len)
  <2>1. uc \in Seq(Nat)
    <3>1. sc.uc \in Seq(Nat) /\ 0 \in Nat
      BY <1>6 DEF Contexts
    <3> HIDE DEF sc
    <3> QED BY <3>1
  <2> HIDE DEF uc, sc
  <2>2. \E c : /\ Continue(sc, uc, generation) = <<c>>
               /\ Follows(c, sc, nextPart, nextPart) /\ InList(c, generation, len)
    BY <1>2, <1>5, <1>6, <2>1, ContinueFollows DEF sc
  <2>3. \A c : Follows(c, sc, nextPart, nextPart) => Follows(c, left, nextPart, nextPart)
    BY <1>7 DEF Follows
  <2> QED BY <2>2, <2>3
<1> HIDE DEF children, left
<1> DEFINE s == Front(job.stack) \o <<left>> \o children
           new == Changed(job, s, job.errors)
<1>9. JobInv(new, nextPart, generation, len)
  <2>1. generation <= generation /\ len <= len
    BY <1>2
  <2> QED BY <1>2, <1>5, <1>6, <1>7, <1>8, <2>1, TopLeft
<1>10. jobs' = [ks EXCEPT ![n] = new]
  <2>1. jobs' = [ks EXCEPT ![n].stack = s]
    BY <1>1, <1>4 DEF left
  <2> HIDE DEF s
  <2>2. ks \in Seq(SearchJobs) /\ ks # <<>>
    BY <1>3 DEF JobsInv
  <2>3. [ks EXCEPT ![Len(ks)].stack = s] = [ks EXCEPT ![Len(ks)] = Changed(ks[Len(ks)], s, ks[Len(ks)].errors)]
    BY <2>2, ChangedJob
  <2> QED BY <1>3, <1>4, <2>1, <2>3
<1> HIDE DEF new
<1>11. JobsInv(jobs', nextPart, generation, len)
  <2>1. nextPart <= nextPart /\ generation <= generation /\ len <= len
    BY <1>2
  <2> QED BY <1>2, <1>3, <1>9, <1>10, <2>1, TopJobReplaced
<1> QED BY <1>1, <1>11 DEF Kept, After, IInv, DbInv, SliceInv, dbVars

\* Whatever is asserted is stamped with a generation of its own.
LEMMA CallAssertKeeps == ASSUME IInv, CallAssert PROVE Kept
<1> DEFINE sc == Visited(Top)
           n == Len(jobs)
           len == Len(db)
           a == CurrentGoal(sc).atom
           left == Invalidated(sc)
           fact == [head |-> a, body |-> <<>>, builtin |-> FALSE,
                    appendGen |-> generation + 1, retireGen |-> 0]
<1>1. AtGoal(sc) /\ CurrentGoal(sc).op = "assert" /\ nextPart' = nextPart
  BY DEF CallAssert, AtSpecial
<1>2. Top.stack # <<>> /\ sc.cursor # <<>> /\ CurrentGoal(sc) \in Goals
  BY <1>1, GoalTyped
<1>3. /\ sc \in Contexts /\ InList(sc, generation, len) /\ len \in Nat
      /\ sc.part = Last(Top.stack).part /\ sc.cursor = Last(Top.stack).cursor
  BY <1>2, VisitedTyped
<1>4. generation \in Nat /\ nextPart \in Nat /\ db \in Seq(Clauses) /\ WellStamped(db, generation)
  BY DEF IInv, DbInv, SliceInv
<1>5. /\ left \in Contexts /\ InList(left, generation, len)
      /\ left.part = sc.part /\ left.cursor = sc.cursor
  BY <1>3, OtherIterator
<1>6. CASE a \in Ground
  <2>1. /\ db' = Append(db, fact) /\ generation' = generation + 1
        /\ Leave(left, Continue(sc, sc.uc, generation'))
    BY <1>6 DEF CallAssert
  <2>2. fact \in Clauses
    <3>1. a \in Heads
      <4>1. CurrentGoal(sc) \in CaseGoals \/ \E h \in CaseGoals : CurrentGoal(sc) = [op |-> "call", atom |-> h.atom]
        BY <1>2 DEF Goals
      <4> QED BY <1>1, <4>1 DEF Heads
    <3>2. <<>> \in Seq(Goals)
      OBVIOUS
    <3> HIDE DEF a
    <3> QED BY <1>4, <3>1, <3>2 DEF Clauses
  <2> DEFINE gen2 == generation + 1
  <2>3. fact.appendGen = gen2 /\ fact.retireGen = 0 /\ gen2 \in Nat /\ generation <= gen2 /\ gen2 # 0
    BY <1>4
  <2> HIDE DEF fact
  <2>4. /\ db' \in Seq(Clauses) /\ Len(db') = len + 1 /\ db'[len + 1] = fact
        /\ \A k \in 1..len : db'[k] = db[k]
    BY <1>4, <2>1, <2>2
  <2>5. WellStamped(db', gen2)
    <3>1. \A k \in 1..Len(db') : k \in 1..len \/ k = len + 1
      BY <1>3, <2>4
    <3>2. ASSUME NEW k \in 1..len
          PROVE  /\ db'[k].appendGen \in 1..gen2 /\ db'[k].retireGen \in 0..gen2
                 /\ IsRetired(db'[k]) => db'[k].appendGen < db'[k].retireGen
      BY <1>4, <2>4 DEF WellStamped
    <3>3. /\ fact.appendGen \in 1..gen2 /\ fact.retireGen \in 0..gen2 /\ ~IsRetired(fact)
      BY <2>3 DEF IsRetired
    <3> QED BY <2>4, <3>1, <3>2, <3>3 DEF WellStamped
  <2> DEFINE len2 == Len(db')
  <2>6. len2 \in Nat /\ len <= len2 /\ nextPart <= nextPart
    BY <1>3, <1>4, <2>4
  <2>7. InList(left, gen2, len2)
    BY <1>3, <1>4, <1>5, <2>3, <2>6, InListGrows
  <2>8. PICK c : /\ Continue(sc, sc.uc, gen2) = <<c>>
                 /\ Follows(c, sc, nextPart, nextPart) /\ InList(c, gen2, len2)
    <3>1. sc.uc \in Seq(Nat)
      BY <1>3 DEF Contexts
    <3> QED BY <1>1, <1>4, <2>3, <2>6, <3>1, GoalTyped
  <2>9. Follows(c, left, nextPart, nextPart)
    BY <1>5, <2>8 DEF Follows
  <2>10. jobs' = [jobs EXCEPT ![n].stack = Front(@) \o <<left>> \o <<c>>]
    BY <2>1, <2>8 DEF Leave
  <2> HIDE DEF gen2, left, sc
  <2>11. JobsInv(jobs', nextPart, gen2, len2)
    <3> DEFINE children == <<c>>
    <3>1. \E d : children = <<d>> /\ Follows(d, left, nextPart, nextPart) /\ InList(d, gen2, len2)
      BY <2>8, <2>9
    <3>2. jobs' = [jobs EXCEPT ![n].stack = Front(@) \o <<left>> \o children]
      BY <2>10
    <3>3. left.part = Last(Top.stack).part /\ left.cursor = Last(Top.stack).cursor
      BY <1>3, <1>5
    <3> HIDE DEF children
    <3> QED BY <1>2, <1>4, <1>5, <2>3, <2>6, <2>7, <3>1, <3>2, <3>3, TopLeaves
  <2> QED BY <1>1, <1>4, <2>1, <2>3, <2>4, <2>5, <2>11 DEF Kept, After, gen2
<1>7. CASE a \notin Ground
  <2>1. /\ UNCHANGED dbVars
        /\ jobs' = [jobs EXCEPT ![n].stack = Front(@) \o <<left>>, ![n].errors = @ + 1]
    BY <1>7 DEF CallAssert
  <2>2. JobsInv(jobs', nextPart, generation, len)
    <3>1. left.part = Last(Top.stack).part /\ left.cursor = Last(Top.stack).cursor
      BY <1>3, <1>5
    <3>2. generation <= generation /\ Len(db) <= Len(db) /\ Len(db) \in Nat
      BY <1>3, <1>4
    <3> HIDE DEF left
    <3> QED BY <1>2, <1>4, <1>5, <2>1, <3>1, <3>2, TopIsLast
  <2> QED BY <1>1, <1>4, <2>1, <2>2 DEF Kept, After, dbVars
<1> QED BY <1>6, <1>7

\* The clause that is retired was appended before.
LEMMA CallRetractKeeps == ASSUME IInv, CallRetract PROVE Kept
<1> DEFINE sc == Visited(Top)
           n == Len(jobs)
           len == Len(db)
           left == Invalidated(sc)
           matches == {k \in 1..Len(db) : Retractable(db[k], CurrentGoal(sc).atom)}
           x == CHOOSE k \in matches : \A m \in matches : k <= m
           gen2 == generation + 1
<1>1. AtGoal(sc) /\ nextPart' = nextPart
  BY DEF CallRetract, AtSpecial
<1>2. Top.stack # <<>> /\ sc.cursor # <<>>
  BY <1>1, GoalTyped
<1>3. /\ sc \in Contexts /\ InList(sc, generation, len) /\ len \in Nat
      /\ sc.part = Last(Top.stack).part /\ sc.cursor = Last(Top.stack).cursor
  BY <1>2, VisitedTyped
<1>4. /\ generation \in Nat /\ nextPart \in Nat /\ db \in Seq(Clauses)
      /\ WellStamped(db, generation) /\ gen2 \in Nat /\ generation <= gen2
  BY DEF IInv, DbInv, SliceInv
<1>5. /\ left \in Contexts /\ InList(left, generation, len)
      /\ left.part = Last(Top.stack).part /\ left.cursor = Last(Top.stack).cursor
      /\ left.cursor = sc.cursor
  BY <1>3, OtherIterator
<1>6. CASE matches = {}
  <2>1. UNCHANGED dbVars /\ jobs' = [jobs EXCEPT ![n].stack = Front(@) \o <<left>> \o <<>>]
    BY <1>6 DEF CallRetract, Leave
  <2>2. generation <= generation /\ Len(db) <= Len(db) /\ Len(db) \in Nat
    BY <1>3, <1>4
  <2> HIDE DEF left
  <2>3. JobsInv(jobs', nextPart, generation, len)
    BY <1>2, <1>4, <1>5, <2>1, <2>2, TopIsLast
  <2> QED BY <1>1, <1>4, <2>1, <2>3 DEF Kept, After, dbVars
<1>7. CASE matches # {}
  <2>1. /\ db' = [db EXCEPT ![x].retireGen = gen2] /\ generation' = gen2
        /\ Leave(left, Continue(sc, sc.uc, generation'))
    BY <1>7 DEF CallRetract
  <2>2. x \in 1..len /\ ~IsRetired(db[x])
    <3>1. \A k \in matches : k \in 1..len /\ ~IsRetired(db[k])
      BY DEF Retractable
    <3>2. matches \in SUBSET (1..len)
      BY <3>1
    <3> HIDE DEF matches
    <3>3. \E k \in matches : \A m \in matches : k <= m
      BY <1>3, <1>7, <3>2, LeastNumber
    <3> QED BY <3>1, <3>3
  <2> HIDE DEF x
  <2> DEFINE c == [db[x] EXCEPT !.retireGen = gen2]
  <2>3. db[x] \in Clauses /\ db[x].appendGen \in 1..generation
    BY <1>4, <2>2 DEF WellStamped
  <2>4. c \in Clauses /\ c.appendGen = db[x].appendGen /\ c.retireGen = gen2
    BY <1>4, <2>3 DEF Clauses
  <2>5. db' = [db EXCEPT ![x] = c]
    BY <2>1
  <2> HIDE DEF c
  <2>6. /\ db' \in Seq(Clauses) /\ Len(db') = len
        /\ \A k \in 1..len : db'[k] = IF k = x THEN c ELSE db[k]
    BY <1>4, <2>2, <2>4, <2>5, ExceptSeq
  <2>7. WellStamped(db', gen2)
    <3>1. ASSUME NEW k \in 1..len, k # x
          PROVE  /\ db'[k].appendGen \in 1..gen2 /\ db'[k].retireGen \in 0..gen2
                 /\ IsRetired(db'[k]) => db'[k].appendGen < db'[k].retireGen
      BY <1>4, <2>6, <3>1 DEF WellStamped
    <3>2. c.appendGen \in 1..gen2 /\ c.retireGen \in 0..gen2 /\ c.appendGen < c.retireGen
      BY <1>4, <2>3, <2>4
    <3> QED BY <2>6, <3>1, <3>2 DEF WellStamped
  <2> DEFINE len2 == Len(db')
  <2>8. len2 \in Nat /\ len <= len2
    BY <1>3, <2>6
  <2> HIDE DEF gen2
  <2>9. InList(left, gen2, len2)
    BY <1>3, <1>4, <1>5, <2>8, InListGrows
  <2>10. PICK d : /\ Continue(sc, sc.uc, gen2) = <<d>>
                  /\ Follows(d, sc, nextPart, nextPart) /\ InList(d, gen2, len2)
    <3>1. sc.uc \in Seq(Nat)
      BY <1>3 DEF Contexts
    <3> QED BY <1>1, <1>4, <2>8, <3>1, GoalTyped
  <2>11. Follows(d, left, nextPart, nextPart)
    BY <1>5, <2>10 DEF Follows
  <2>12. jobs' = [jobs EXCEPT ![n].stack = Front(@) \o <<left>> \o <<d>>]
    BY <2>1, <2>10 DEF Leave
  <2> HIDE DEF left, sc
  <2>13. JobsInv(jobs', nextPart, gen2, len2)
    <3> DEFINE children == <<d>>
    <3>1. \E e : children = <<e>> /\ Follows(e, left, nextPart, nextPart) /\ InList(e, gen2, len2)
      BY <2>10, <2>11
    <3>2. jobs' = [jobs EXCEPT ![n].stack = Front(@) \o <<left>> \o children]
      BY <2>12
    <3>3. nextPart <= nextPart
      BY <1>4
    <3> HIDE DEF children
    <3> QED BY <1>2, <1>4, <1>5, <2>8, <2>9, <3>1, <3>2, <3>3, TopLeaves
  <2> QED BY <1>1, <1>4, <2>1, <2>6, <2>7, <2>13 DEF Kept, After
<1> QED BY <1>6, <1>7

\* Only a clause whose body comes next has a goal part entered.
LEMMA TryClauseKeeps == ASSUME IInv, TryClause PROVE Kept
<1> DEFINE sc == Visited(Top)
           n == Len(jobs)
           len == Len(db)
           g == CurrentGoal(sc)
           x == GetClause(sc.it)
           result == UnificationResult(db[x], g)
           uc == Append(sc.uc, x)
           left == [sc EXCEPT !.it.pos = x + 1]
           new == result = "last" /\ g.op = "call" /\ db[x].body # <<>>
           body == NewContext(nextPart, EnterBody(sc.cursor, nextPart, db[x].body), uc, generation)
<1>1. /\ AtGoal(sc) /\ IsValid(sc.it) /\ UNCHANGED dbVars
      /\ nextPart' = nextPart + (IF new THEN 1 ELSE 0)
  BY DEF TryClause
<1>2. \/ new /\ Leave(left, <<body>>)
      \/ ~new /\ Leave(left, Continue(sc, uc, generation))
      \/ ~new /\ Leave(left, <<>>)
      \/ ~new /\ jobs' = [jobs EXCEPT ![n].stack = Front(@) \o <<left>>, ![n].errors = @ + 1]
  BY DEF TryClause
<1>3. Top.stack # <<>> /\ sc.cursor # <<>>
  BY <1>1, GoalTyped
<1>4. /\ sc \in Contexts /\ InList(sc, generation, len) /\ len \in Nat
      /\ sc.part = Last(Top.stack).part /\ sc.cursor = Last(Top.stack).cursor
  BY <1>3, VisitedTyped
<1>5. /\ generation \in Nat /\ nextPart \in Nat /\ db \in Seq(Clauses)
      /\ WellStamped(db, generation) /\ generation <= generation /\ nextPart <= nextPart
      /\ len <= len
  BY <1>4 DEF IInv, DbInv, SliceInv
<1>6. x \in 1..len
  <2> DEFINE it == sc.it
             T == Candidates(it)
  <2>1. T # {} /\ it.pos \in 1..(len + 1)
    BY <1>1, <1>4 DEF IsValid, InList
  <2>2. T \in SUBSET (1..len)
    BY <1>4, <2>1 DEF Candidates
  <2>3. x = CHOOSE k \in T : \A m \in T : k <= m
    BY DEF GetClause
  <2> HIDE DEF T, x
  <2>4. \E k \in T : \A m \in T : k <= m
    BY <1>4, <2>1, <2>2, LeastNumber
  <2> QED BY <2>2, <2>3, <2>4
<1> HIDE DEF x, result
<1>7. db[x] \in Clauses /\ uc \in Seq(Nat)
  <2>1. sc.uc \in Seq(Nat) /\ x \in Nat
    BY <1>4, <1>6 DEF Contexts
  <2> HIDE DEF sc
  <2> QED BY <1>5, <1>6, <2>1
<1> HIDE DEF uc
<1>8. /\ left \in Contexts /\ InList(left, generation, len)
      /\ left.part = Last(Top.stack).part /\ left.cursor = Last(Top.stack).cursor
      /\ left.cursor = sc.cursor
  <2>1. x + 1 \in 1..(len + 1)
    BY <1>4, <1>6
  <2> HIDE DEF sc
  <2> QED BY <1>4, <2>1, OtherIterator
<1>9. CASE new /\ Leave(left, <<body>>)
  <2>1. Follows(body, sc, nextPart, nextPart + 1) /\ InList(body, generation, len)
    <3> DEFINE goals == db[x].body
    <3>1. goals \in Seq(Goals) /\ goals # <<>>
      BY <1>7, <1>9 DEF Clauses
    <3> HIDE DEF goals, sc
    <3>2. LET c == NewContext(nextPart, EnterBody(sc.cursor, nextPart, goals), uc, generation)
          IN  Follows(c, sc, nextPart, nextPart + 1) /\ InList(c, generation, len)
      BY <1>3, <1>4, <1>5, <1>7, <3>1, EnterFollows
    <3> QED BY <3>2 DEF goals
  <2> HIDE DEF body, sc, left
  <2>2. Follows(body, left, nextPart, nextPart + 1)
    BY <1>8, <2>1 DEF Follows
  <2> DEFINE children == <<body>>
             next2 == nextPart + 1
  <2>3. jobs' = [jobs EXCEPT ![n].stack = Front(@) \o <<left>> \o children]
    BY <1>9 DEF Leave
  <2>4. \E c : children = <<c>> /\ Follows(c, left, nextPart, next2) /\ InList(c, generation, len)
    BY <2>1, <2>2
  <2>5. next2 \in Nat /\ nextPart <= next2 /\ nextPart' = next2
    BY <1>1, <1>5, <1>9
  <2> HIDE DEF children, next2
  <2>6. JobsInv(jobs', next2, generation, len)
    BY <1>3, <1>4, <1>5, <1>8, <2>3, <2>4, <2>5, TopLeaves
  <2> QED BY <1>1, <1>5, <2>5, <2>6 DEF Kept, After, dbVars
<1>10. CASE ~new /\ Leave(left, Continue(sc, uc, generation))
  <2>1. PICK c : /\ Continue(sc, uc, generation) = <<c>>
                 /\ Follows(c, sc, nextPart, nextPart) /\ InList(c, generation, len)
    BY <1>1, <1>4, <1>5, <1>7, GoalTyped
  <2> HIDE DEF sc, left
  <2>2. Follows(c, left, nextPart, nextPart)
    BY <1>8, <2>1 DEF Follows
  <2> DEFINE children == <<c>>
  <2>3. jobs' = [jobs EXCEPT ![n].stack = Front(@) \o <<left>> \o children]
    BY <1>10, <2>1 DEF Leave
  <2>4. \E d : children = <<d>> /\ Follows(d, left, nextPart, nextPart) /\ InList(d, generation, len)
    BY <2>1, <2>2
  <2>5. nextPart' = nextPart
    BY <1>1, <1>5, <1>10
  <2> HIDE DEF children, new
  <2>6. JobsInv(jobs', nextPart, generation, len)
    BY <1>3, <1>4, <1>5, <1>8, <2>3, <2>4, TopLeaves
  <2> QED BY <1>1, <1>5, <2>5, <2>6 DEF Kept, After, dbVars
<1>11. ASSUME ~new, JobsInv(jobs', nextPart, generation, len) PROVE Kept
  <2>1. nextPart' = nextPart
    BY <1>1, <1>5, <1>11
  <2> QED BY <1>1, <1>5, <1>11, <2>1 DEF Kept, After, dbVars
<1>12. CASE ~new /\ Leave(left, <<>>)
  <2> HIDE DEF sc, left
  <2>1. jobs' = [jobs EXCEPT ![n].stack = Front(@) \o <<left>> \o <<>>]
    BY <1>12 DEF Leave
  <2> HIDE DEF new
  <2>2. JobsInv(jobs', nextPart, generation, len)
    BY <1>3, <1>4, <1>5, <1>8, <2>1, TopIsLast
  <2> QED BY <1>11, <1>12, <2>2
<1>13. CASE ~new /\ jobs' = [jobs EXCEPT ![n].stack = Front(@) \o <<left>>, ![n].errors = @ + 1]
  <2> HIDE DEF sc, left, new
  <2>1. JobsInv(jobs', nextPart, generation, len)
    BY <1>3, <1>4, <1>5, <1>8, <1>13, TopIsLast
  <2> QED BY <1>11, <1>13, <2>1
<1> QED BY <1>2, <1>9, <1>10, <1>12, <1>13

-----------------------------------------------------------------------------
(* The specification.                                                      *)

LEMMA InitInv == ASSUME Init PROVE IInv
<1>1. given \in Cases /\ db = given.db /\ generation = GenerationOf(db)
  BY DEF Init
<1>2. /\ None \notin Nat /\ given.query \in Seq(CaseGoals)
      /\ db \in Seq([head : CaseHeads, body : Seq(CaseGoals), builtin : BOOLEAN,
                     appendGen : Nat, retireGen : Nat])
      /\ WellStamped(db, generation)
  BY <1>1, SolverAssumption
<1>3. db \in Seq(Clauses) /\ Len(db) \in Nat
  <2> DEFINE S == [head : CaseHeads, body : Seq(CaseGoals), builtin : BOOLEAN,
                   appendGen : Nat, retireGen : Nat]
  <2>1. Seq(CaseGoals) \subseteq Seq(Goals) /\ CaseHeads \subseteq Heads
    BY SeqMonotonic DEF Goals, Heads
  <2>2. S \subseteq Clauses
    BY <2>1 DEF Clauses
  <2>3. db \in Seq(S)
    BY <1>2
  <2> HIDE DEF S
  <2> QED BY <2>2, <2>3, SeqMonotonic
<1>4. generation \in Nat
  <2> DEFINE R == {k \in 1..Len(db) : IsRetired(db[k])}
  <2>1. IsFiniteSet(1..Len(db))
    BY <1>3, FS_Interval
  <2>2. R \subseteq 1..Len(db)
    OBVIOUS
  <2> HIDE DEF R
  <2>3. Cardinality(R) \in Nat
    BY <2>1, <2>2, FS_Subset, FS_CardinalityType
  <2> QED BY <1>1, <1>3, <2>3 DEF GenerationOf, R
<1>5. PICK gen \in 0..generation : jobs = <<NewJob(given.query, 0, gen)>>
  BY DEF Init
<1> DEFINE job == NewJob(given.query, 0, gen)
<1>6. JobInv(job, 1, generation, Len(db))
  <2> DEFINE goals == given.query
  <2>1. goals \in Seq(Goals)
    BY <1>2, SeqMonotonic DEF Goals
  <2> HIDE DEF goals
  <2>2. gen \in Nat /\ gen <= generation /\ 0 \in Nat
    BY <1>4
  <2>3. JobInv(NewJob(goals, 0, gen), 0 + 1, generation, Len(db))
    BY <1>3, <1>4, <2>1, <2>2, NewJobTyped
  <2> QED BY <2>3 DEF goals
<1> HIDE DEF job
<1>7. JobsInv(jobs, 1, generation, Len(db))
  <2>1. job \in SearchJobs
    BY <1>6 DEF JobInv
  <2>2. jobs \in Seq(SearchJobs) /\ jobs # <<>> /\ Len(jobs) = 1 /\ jobs[1] = job
    BY <1>5, <2>1 DEF job
  <2>3. 1..(1 - 1) = {} /\ 1..1 = {1}
    OBVIOUS
  <2> QED BY <1>6, <2>2, <2>3 DEF JobsInv
<1>8. DbInv
  BY <1>2, <1>3, <1>4 DEF DbInv
<1>9. SliceInv /\ nextPart = 1
  <2>1. /\ running = FALSE /\ sliceCount = 0 /\ target = "REGULAR" /\ jobState = "CREATED"
        /\ nextPart = 1
    BY Zenon DEF Init
  <2>2. 0 \in 0..2 /\ 1 \in Nat
    OBVIOUS
  <2> QED BY <1>1, <2>1, <2>2, Zenon DEF SliceInv
<1> QED BY <1>7, <1>8, <1>9 DEF IInv

LEMMA NextKeeps == ASSUME IInv, [Next]_vars PROVE IInv'
<1>1. ASSUME Kept, SliceInv' PROVE IInv'
  BY <1>1 DEF Kept, After, IInv, DbInv
<1>2. ASSUME Kept, UNCHANGED <<sliceVars, given>> PROVE IInv'
  BY <1>1, <1>2 DEF IInv, SliceInv, sliceVars, Kept, After
<1>3. ASSUME UNCHANGED <<dbVars, jobs, nextPart>> PROVE Kept
  BY <1>3 DEF Kept, After, IInv, DbInv, SliceInv, dbVars
<1>4. CASE EmitSolution
  BY <1>2, <1>4, EmitSolutionKeeps DEF EmitSolution
<1>5. CASE DebugHalt
  <2>1. Kept
    BY <1>5, VisitKeeps DEF DebugHalt, InLoop
  <2> QED BY <1>1, <1>5, <2>1 DEF DebugHalt, IInv, SliceInv, Kept, After
<1>6. CASE DebugStop
  <2>1. Kept
    BY <1>6, VisitKeeps DEF DebugStop, InLoop
  <2> QED BY <1>1, <1>6, <2>1 DEF DebugStop, IInv, SliceInv, Kept, After
<1>7. CASE Exhausted
  BY <1>2, <1>7, ExhaustedKeeps DEF Exhausted
<1>8. CASE CallCut
  BY <1>2, <1>8, CallCutKeeps DEF CallCut
<1>9. CASE CallFindall
  BY <1>2, <1>9, CallFindallKeeps DEF CallFindall
<1>10. CASE ReturnFindall
  BY <1>2, <1>10, ReturnFindallKeeps DEF ReturnFindall
<1>11. CASE CallAssert
  BY <1>2, <1>11, CallAssertKeeps DEF CallAssert
<1>12. CASE CallRetract
  BY <1>2, <1>12, CallRetractKeeps DEF CallRetract
<1>13. CASE TryClause
  BY <1>2, <1>13, TryClauseKeeps DEF TryClause
<1>14. CASE FinishJob
  BY <1>1, <1>3, <1>14 DEF FinishJob, IInv, SliceInv
<1>15. CASE \E t \in given.targets : BeginSlice(t)
  BY <1>1, <1>3, <1>15 DEF BeginSlice, IInv, SliceInv
<1>16. CASE UNCHANGED vars
  BY <1>2, <1>3, <1>16 DEF vars
<1> QED BY <1>4, <1>5, <1>6, <1>7, <1>8, <1>9, <1>10, <1>11, <1>12, <1>13, <1>14, <1>15, <1>16
        DEF Next, Turn

LEMMA Inductive == Spec => []IInv
<1>1. Init => IInv
  BY InitInv
<1>2. IInv /\ [Next]_vars => IInv'
  BY NextKeeps
<1> QED BY <1>1, <1>2, PTL DEF Spec

\* Of what a context returns to, every goal part was entered by one context of
\* the stack, and below: SolveContext's walk up the parents of a cut ends at it.
THEOREM CutFindsItsEntry == Spec => []CutFindsEntry
<1>1. IInv => CutFindsEntry
  <2> SUFFICES ASSUME IInv, NEW n \in 1..Len(jobs), NEW k \in 1..Len(jobs[n].stack),
                      NEW f \in 1..Len(jobs[n].stack[k].cursor)
               PROVE  LET stack == jobs[n].stack
                          part == stack[k].cursor[f].part
                      IN  /\ \E m \in 1..k : stack[m].part = part
                          /\ Cardinality({m \in 1..Len(stack) : stack[m].part = part}) = 1
    BY DEF CutFindsEntry
  <2> DEFINE stack == jobs[n].stack
             part == stack[k].cursor[f].part
             T == {m \in 1..Len(stack) : stack[m].part = part}
  <2>1. JobInv(jobs[n], nextPart, generation, Len(db))
    BY DEF IInv, JobsInv
  <2>2. StackInv(stack, nextPart) /\ stack \in Seq(Contexts)
    BY <2>1 DEF JobInv, SearchJobs
  <2>3. PICK m \in 1..k : stack[m].part = part
    BY <2>2 DEF StackInv
  <2>4. part \in Nat /\ part # None
    <3>1. stack[k] \in Contexts
      BY <2>2
    <3>2. stack[k].cursor \in Seq(Frames)
      BY <3>1 DEF Contexts
    <3>3. stack[k].cursor[f] \in Frames
      BY <3>2
    <3> QED BY <3>3, SolverAssumption DEF Frames
  <2>5. m \in 1..Len(stack)
    BY <2>2
  <2> HIDE DEF part, stack
  <2>6. T = {m}
    BY <2>2, <2>3, <2>4, <2>5 DEF StackInv
  <2>7. Cardinality(T) = 1
    BY <2>6, FS_Singleton
  <2> QED BY <2>3, <2>7 DEF part, stack
<1> QED BY <1>1, Inductive, PTL

\* The stamps of the clauses, the snapshots and places of the iterators and the
\* state of the slice stay what the code relies on.
THEOREM SolverTypeCorrect == Spec => []TypeOK
<1>1. IInv => TypeOK
  <2> SUFFICES ASSUME IInv PROVE TypeOK
    OBVIOUS
  <2>1. jobs \in Seq(SearchJobs) /\ Len(jobs) > 0 /\ Len(jobs) \in Nat
    BY DEF IInv, JobsInv
  <2>2. ASSUME NEW n \in 1..Len(jobs)
        PROVE  /\ n < Len(jobs) => jobs[n].stack # <<>>
               /\ \A k \in 1..Len(jobs[n].stack) :
                    /\ jobs[n].stack[k].it.snapshot \in 0..generation
                    /\ jobs[n].stack[k].it.pos \in 1..(Len(db) + 1)
                    /\ jobs[n].stack[k].visits \in 0..2
    <3>1. n < Len(jobs) => n \in 1..(Len(jobs) - 1)
      BY <2>1
    <3>2. JobInv(jobs[n], nextPart, generation, Len(db)) /\ generation \in Nat
      BY DEF IInv, JobsInv, DbInv
    <3>3. jobs[n].stack \in Seq(Contexts)
      BY <3>2 DEF JobInv, SearchJobs
    <3>4. \A k \in 1..Len(jobs[n].stack) :
            jobs[n].stack[k] \in Contexts /\ InList(jobs[n].stack[k], generation, Len(db))
      BY <3>2, <3>3 DEF JobInv
    <3>5. \A sc \in Contexts : InList(sc, generation, Len(db)) =>
            sc.it.snapshot \in 0..generation /\ sc.it.pos \in 1..(Len(db) + 1) /\ sc.visits \in 0..2
      BY <3>2 DEF Contexts, Iterators, InList
    <3> QED BY <3>1, <3>4, <3>5 DEF IInv, JobsInv, Waits
  <2> QED BY <2>1, <2>2 DEF TypeOK, IInv, DbInv, SliceInv
<1> QED BY <1>1, Inductive, PTL

=============================================================================
