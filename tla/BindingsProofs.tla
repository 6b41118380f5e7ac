--------------------------- MODULE BindingsProofs ---------------------------
(***************************************************************************)
(* However deep the search and whatever the program: a variable leads to   *)
(* an instance id, an instance id to a term that is no variable, and the   *)
(* scope that term is read in is that of a context that was made.  What    *)
(* the bindings of a branch say is what its equations say, but for the two *)
(* steps that lose a join, and a clash is one of the equations.            *)
(***************************************************************************)
EXTENDS Bindings, SequenceLemmas

\* The terms of the first u scopes, and pairs of them.
Terms(u) == (0..u) \X Occurrences
Pairs(u) == Terms(u) \X Terms(u)

\* A context of the first u, with the first n instance ids.
Maps(S, R) == UNION {[D -> R] : D \in SUBSET S}
Contexts(u, n) ==
    [id : 1..u, binding : Maps(Nat \X Vars, 2..n),
     instance : Maps(2..n, (0..u) \X (Occurrences \ Vars)),
     candidate : Candidates \cup {[left |-> 0]}, lossy : BOOLEAN]

\* A candidate that is dropped leaves a context to go on with.
IInv ==
    /\ branch \in Branches
    /\ uidLast \in Nat \ {0}
    /\ iidLast \in Nat \ {0}
    /\ unifying \in BOOLEAN
    /\ chain \in Seq(Contexts(uidLast, iidLast))
    /\ chain # <<>>
    /\ unifying => Len(chain) > 1
    /\ todo \in Seq(Pairs(uidLast))

-----------------------------------------------------------------------------

\* The nearest context that knows a variable or an instance.
LEMMA LatestIsGreatest ==
  ASSUME NEW n \in Nat, NEW T \in SUBSET (1..n), T # {}
  PROVE  Latest(T) \in T
<1>1. \E x \in T : \A y \in T : y <= x
  BY GreatestNumber
<1> QED BY <1>1 DEF Latest

\* A map with one entry more, or another.
LEMMA BindTyped ==
  ASSUME NEW S, NEW R, NEW f \in Maps(S, R), NEW x \in S, NEW y \in R
  PROVE  Bind(f, x, y) \in Maps(S, R)
<1>1. PICK D \in SUBSET S : f \in [D -> R]
  BY DEF Maps
<1>2. Bind(f, x, y) \in [D \cup {x} -> R]
  BY <1>1 DEF Bind
<1> QED BY <1>2 DEF Maps

LEMMA MapEntries ==
  ASSUME NEW S, NEW R, NEW f \in Maps(S, R)
  PROVE  DOMAIN f \subseteq S /\ \A x \in DOMAIN f : f[x] \in R
BY DEF Maps

LEMMA MapsGrow ==
  ASSUME NEW S, NEW R, NEW T, NEW Q, S \subseteq T, R \subseteq Q
  PROVE  Maps(S, R) \subseteq Maps(T, Q)
<1> SUFFICES ASSUME NEW f \in Maps(S, R) PROVE f \in Maps(T, Q)
  OBVIOUS
<1>1. PICK D \in SUBSET S : f \in [D -> R]
  BY DEF Maps
<1>2. f \in [D -> Q] /\ D \in SUBSET T
  BY <1>1
<1> QED BY <1>2 DEF Maps

LEMMA ContextsGrow ==
  ASSUME NEW u \in Nat, NEW n \in Nat, NEW v \in Nat, NEW m \in Nat, u <= v, n <= m
  PROVE  Contexts(u, n) \subseteq Contexts(v, m)
<1>1. 1..u \subseteq 1..v /\ 2..n \subseteq 2..m
  OBVIOUS
<1>2. (0..u) \X (Occurrences \ Vars) \subseteq (0..v) \X (Occurrences \ Vars)
  OBVIOUS
<1>3. Maps(Nat \X Vars, 2..n) \subseteq Maps(Nat \X Vars, 2..m)
  BY <1>1, MapsGrow
<1>4. Maps(2..n, (0..u) \X (Occurrences \ Vars)) \subseteq Maps(2..m, (0..v) \X (Occurrences \ Vars))
  BY <1>1, <1>2, MapsGrow
<1> QED BY <1>1, <1>3, <1>4 DEF Contexts

\* A context that nothing is bound in.
LEMMA ContextTyped ==
  ASSUME NEW u \in Nat, NEW n \in Nat, NEW id \in 1..u, NEW c \in Candidates \cup {[left |-> 0]}
  PROVE  Context(id, c) \in Contexts(u, n)
<1>1. \A S, R : <<>> \in Maps(S, R)
  <2> SUFFICES ASSUME NEW S, NEW R PROVE <<>> \in Maps(S, R)
    OBVIOUS
  <2>1. <<>> \in [{} -> R]
    OBVIOUS
  <2> QED BY <2>1 DEF Maps
<1> QED BY <1>1 DEF Context, Contexts

\* What a context holds.
LEMMA ContextEntries ==
  ASSUME NEW u \in Nat, NEW n \in Nat, NEW uc \in Contexts(u, n)
  PROVE  /\ DOMAIN uc.binding \subseteq Nat \X Vars
         /\ \A a \in DOMAIN uc.binding : uc.binding[a] \in 2..n
         /\ DOMAIN uc.instance \subseteq 2..n
         /\ \A iid \in DOMAIN uc.instance :
              uc.instance[iid] \in (0..u) \X (Occurrences \ Vars)
<1>1. uc.binding \in Maps(Nat \X Vars, 2..n)
  BY DEF Contexts
<1>2. uc.instance \in Maps(2..n, (0..u) \X (Occurrences \ Vars))
  BY DEF Contexts
<1>3. DOMAIN uc.binding \subseteq Nat \X Vars /\ \A a \in DOMAIN uc.binding : uc.binding[a] \in 2..n
  <2> DEFINE f == uc.binding
             S == Nat \X Vars
             R == 2..n
  <2>1. f \in Maps(S, R)
    BY <1>1
  <2> HIDE DEF f, S, R
  <2>2. DOMAIN f \subseteq S /\ \A a \in DOMAIN f : f[a] \in R
    BY <2>1, MapEntries
  <2> QED BY <2>2 DEF f, S, R
<1>4. /\ DOMAIN uc.instance \subseteq 2..n
      /\ \A iid \in DOMAIN uc.instance : uc.instance[iid] \in (0..u) \X (Occurrences \ Vars)
  <2> DEFINE f == uc.instance
             S == 2..n
             R == (0..u) \X (Occurrences \ Vars)
  <2>1. f \in Maps(S, R)
    BY <1>2
  <2> HIDE DEF f, S, R
  <2>2. DOMAIN f \subseteq S /\ \A a \in DOMAIN f : f[a] \in R
    BY <2>1, MapEntries
  <2> QED BY <2>2 DEF f, S, R
<1> QED BY <1>3, <1>4

-----------------------------------------------------------------------------
(* Lookups and writes.                                                     *)

LEMMA FindBindingTyped ==
  ASSUME IInv, NEW aid
  PROVE  FindBinding(chain, aid) \in {0} \cup (2..iidLast)
<1> DEFINE holders == {i \in DOMAIN chain : aid \in DOMAIN chain[i].binding}
           k == Latest(holders)
<1>1. CASE holders = {}
  BY <1>1 DEF FindBinding
<1>2. CASE holders # {}
  <2>1. Len(chain) \in Nat /\ holders \in SUBSET (1..Len(chain))
    BY DEF IInv
  <2>2. k \in holders
    <3> HIDE DEF holders
    <3> QED BY <1>2, <2>1, LatestIsGreatest
  <2>3. chain[k] \in Contexts(uidLast, iidLast) /\ aid \in DOMAIN chain[k].binding
    BY <2>2 DEF IInv
  <2>4. FindBinding(chain, aid) = chain[k].binding[aid]
    BY <1>2 DEF FindBinding
  <2> HIDE DEF k
  <2>5. chain[k].binding[aid] \in 2..iidLast
    BY <2>3, ContextEntries DEF IInv
  <2> QED BY <2>4, <2>5
<1> QED BY <1>1, <1>2

LEMMA FindInstanceTyped ==
  ASSUME IInv, NEW iid, FindInstance(chain, iid) # <<>>
  PROVE  FindInstance(chain, iid)[1] \in (0..uidLast) \X (Occurrences \ Vars)
<1> DEFINE holders == {i \in DOMAIN chain : iid \in DOMAIN chain[i].instance}
           k == Latest(holders)
<1>1. holders # {}
  BY DEF FindInstance
<1>2. Len(chain) \in Nat /\ holders \in SUBSET (1..Len(chain))
  BY DEF IInv
<1>3. k \in holders
  <2> HIDE DEF holders
  <2> QED BY <1>1, <1>2, LatestIsGreatest
<1>4. chain[k] \in Contexts(uidLast, iidLast) /\ iid \in DOMAIN chain[k].instance
  BY <1>3 DEF IInv
<1>5. FindInstance(chain, iid)[1] = chain[k].instance[iid]
  BY <1>1 DEF FindInstance
<1> HIDE DEF k
<1> QED BY <1>4, <1>5, ContextEntries DEF IInv

LEMMA WithBindingTyped ==
  ASSUME NEW u \in Nat, NEW n \in Nat, NEW uc \in Contexts(u, n),
         NEW aid \in Nat \X Vars, NEW iid \in 2..n
  PROVE  WithBinding(uc, aid, iid) \in Contexts(u, n)
<1>1. uc.binding \in Maps(Nat \X Vars, 2..n)
  BY DEF Contexts
<1> DEFINE b == Bind(uc.binding, aid, iid)
<1>2. b \in Maps(Nat \X Vars, 2..n)
  BY <1>1, BindTyped
<1>3. WithBinding(uc, aid, iid) = [uc EXCEPT !.binding = b]
  BY DEF WithBinding
<1> HIDE DEF b
<1> QED BY <1>2, <1>3 DEF Contexts

LEMMA WithInstanceTyped ==
  ASSUME NEW u \in Nat, NEW n \in Nat, NEW uc \in Contexts(u, n),
         NEW iid \in 2..n, NEW t \in (0..u) \X (Occurrences \ Vars)
  PROVE  WithInstance(uc, iid, t) \in Contexts(u, n)
<1>1. uc.instance \in Maps(2..n, (0..u) \X (Occurrences \ Vars))
  BY DEF Contexts
<1> DEFINE b == Bind(uc.instance, iid, t)
<1>2. b \in Maps(2..n, (0..u) \X (Occurrences \ Vars))
  BY <1>1, BindTyped
<1>3. WithInstance(uc, iid, t) = [uc EXCEPT !.instance = b]
  BY DEF WithInstance
<1> HIDE DEF b
<1> QED BY <1>2, <1>3 DEF Contexts

\* The pair that is unified next.
LEMMA NextPairTyped ==
  ASSUME IInv, NextPair
  PROVE  /\ Left \in Terms(uidLast) /\ Right \in Terms(uidLast)
         /\ Tail(todo) \in Seq(Pairs(uidLast))
         /\ ~Compound(Left) => Left \in Nat \X Vars
         /\ ~Compound(Right) => Right \in Nat \X Vars
         /\ Compound(Left) => Left \in (0..uidLast) \X (Occurrences \ Vars)
         /\ Compound(Right) => Right \in (0..uidLast) \X (Occurrences \ Vars)
<1>1. todo \in Seq(Pairs(uidLast)) /\ todo # <<>>
  BY DEF IInv, NextPair
<1>2. todo[1] \in Pairs(uidLast) /\ Tail(todo) \in Seq(Pairs(uidLast))
  BY <1>1
<1>3. Left \in Terms(uidLast) /\ Right \in Terms(uidLast)
  BY <1>2 DEF Left, Right, Pairs
<1> QED BY <1>2, <1>3 DEF Terms, Compound, IInv

LEMMA TopTyped ==
  ASSUME IInv
  PROVE  /\ Top \in Contexts(uidLast, iidLast)
         /\ Top \in Contexts(uidLast, iidLast + 1)
         /\ chain \in Seq(Contexts(uidLast, iidLast + 1))
<1>1. Top \in Contexts(uidLast, iidLast)
  BY DEF IInv, Top
<1>2. Contexts(uidLast, iidLast) \subseteq Contexts(uidLast, iidLast + 1)
  BY ContextsGrow DEF IInv
<1>3. chain \in Seq(Contexts(uidLast, iidLast + 1))
  BY <1>2, SeqMonotonic DEF IInv
<1> QED BY <1>1, <1>2, <1>3

\* A call that writes the top context.
LEMMA WriteKeeps ==
  ASSUME IInv, NextPair, NEW uc \in Contexts(uidLast, iidLast'), Write(uc),
         iidLast' \in {iidLast, iidLast + 1}
  PROVE  IInv'
<1>1. /\ chain' = [chain EXCEPT ![Len(chain)] = uc] /\ todo' = Tail(todo)
      /\ UNCHANGED <<branch, unifying, uidLast>>
  BY DEF Write, OnTop
<1>2. chain \in Seq(Contexts(uidLast, iidLast')) /\ chain # <<>>
  BY TopTyped DEF IInv
<1> DEFINE C == Contexts(uidLast, iidLast')
<1>3. chain' \in Seq(C) /\ Len(chain') = Len(chain) /\ Len(chain) # 0
  <2>1. chain \in Seq(C) /\ uc \in C
    BY <1>2
  <2> HIDE DEF C
  <2>2. Len(chain) \in 1..Len(chain)
    BY <1>2, <2>1
  <2> QED BY <1>1, <2>1, <2>2, ExceptSeq
<1>4. Tail(todo) \in Seq(Pairs(uidLast))
  BY NextPairTyped
<1>5. chain' \in Seq(Contexts(uidLast', iidLast')) /\ chain' # <<>>
  BY <1>1, <1>3
<1> QED BY <1>1, <1>3, <1>4, <1>5 DEF IInv

\* A call that goes on with other terms.
LEMMA RecurseKeeps ==
  ASSUME IInv, NextPair, NEW pairs \in Seq(Pairs(uidLast)), Recurse(pairs)
  PROVE  IInv'
<1>1. todo' = pairs \o Tail(todo) /\ UNCHANGED <<branch, chain, unifying, uidLast, iidLast>>
  BY DEF Recurse
<1>2. todo' \in Seq(Pairs(uidLast))
  <2> DEFINE P == Pairs(uidLast)
  <2>1. pairs \in Seq(P) /\ Tail(todo) \in Seq(P)
    BY NextPairTyped
  <2> HIDE DEF P
  <2>2. todo' \in Seq(P)
    BY <1>1, <2>1, ConcatProperties
  <2> QED BY <2>2 DEF P
<1> QED BY <1>1, <1>2 DEF IInv

\* A call that goes on with one pair.
LEMMA RecurseOnce ==
  ASSUME IInv, NextPair, NEW a \in Terms(uidLast), NEW b \in Terms(uidLast),
         Recurse(<< <<a, b>> >>)
  PROVE  IInv'
<1>1. <<a, b>> \in Pairs(uidLast)
  BY DEF Pairs
<1>2. << <<a, b>> >> \in Seq(Pairs(uidLast))
  BY <1>1
<1> QED BY <1>2, RecurseKeeps

-----------------------------------------------------------------------------

LEMMA InitIInv == Init => IInv
<1> SUFFICES ASSUME Init PROVE IInv
  OBVIOUS
<1>1. Context(1, [left |-> 0]) \in Contexts(1, 1)
  BY ContextTyped
<1> DEFINE r == Context(1, [left |-> 0])
<1>2. <<r>> \in Seq(Contexts(1, 1)) /\ <<r>> # <<>>
  BY <1>1
<1> HIDE DEF r
<1>3. chain = <<r>>
  BY DEF Init, r
<1>4. /\ uidLast = 1 /\ iidLast = 1 /\ unifying = FALSE /\ branch \in Branches /\ todo = <<>>
  BY DEF Init
<1>5. todo \in Seq(Pairs(uidLast))
  BY <1>4
<1>6. chain \in Seq(Contexts(uidLast, iidLast)) /\ chain # <<>>
  BY <1>2, <1>3, <1>4
<1>7. uidLast \in Nat \ {0} /\ iidLast \in Nat \ {0}
  <2>1. 1 \in Nat \ {0}
    OBVIOUS
  <2> QED BY <1>4, <2>1, Zenon
<1>8. unifying \in BOOLEAN
  BY <1>4, Zenon
<1> QED BY <1>4, <1>5, <1>6, <1>7, <1>8, Zenon DEF IInv

LEMMA TryKeeps == ASSUME IInv, NEW i \in DOMAIN branch, NEW c \in branch[i], Try(c) PROVE IInv'
<1>1. c \in Candidates /\ c.scope \in DOMAIN chain
  <2>1. branch \in Seq(SUBSET Candidates)
    BY BindingsAssumption DEF IInv
  <2> QED BY <2>1 DEF Try
<1>2. /\ uidLast' = uidLast + 1 /\ unifying' = TRUE /\ UNCHANGED <<branch, iidLast>>
      /\ chain' = Append(chain, Context(uidLast + 1, c))
      /\ todo' = << << <<Origin(c), c.left>>,
                       <<IF c.head THEN uidLast + 1 ELSE Origin(c), c.right>> >> >>
  BY DEF Try
<1>3. uidLast \in Nat /\ uidLast # 0 /\ iidLast \in Nat /\ iidLast # 0 /\ Len(chain) # 0
  BY DEF IInv
<1>4. Context(uidLast + 1, c) \in Contexts(uidLast + 1, iidLast)
  BY <1>1, <1>3, ContextTyped
<1>5. chain \in Seq(Contexts(uidLast + 1, iidLast))
  <2>1. Contexts(uidLast, iidLast) \subseteq Contexts(uidLast + 1, iidLast)
    BY <1>3, ContextsGrow
  <2> QED BY <2>1, SeqMonotonic DEF IInv
<1>6. chain' \in Seq(Contexts(uidLast', iidLast')) /\ Len(chain') > 1 /\ chain' # <<>>
  <2> DEFINE C == Contexts(uidLast + 1, iidLast)
             x == Context(uidLast + 1, c)
  <2>1. chain \in Seq(C) /\ x \in C /\ chain' = Append(chain, x) /\ chain # <<>>
    BY <1>2, <1>4, <1>5 DEF IInv
  <2> HIDE DEF C, x
  <2>2. chain' \in Seq(C) /\ Len(chain') = Len(chain) + 1 /\ Len(chain) \in Nat \ {0}
    BY <2>1
  <2> QED BY <1>2, <2>2 DEF C
<1>7. todo' \in Seq(Pairs(uidLast'))
  <2>1. Origin(c) \in 0..uidLast
    <3>1. chain[c.scope] \in Contexts(uidLast, iidLast)
      BY <1>1 DEF IInv
    <3> QED BY <1>3, <3>1 DEF Origin, Contexts
  <2>2. c.left \in Occurrences /\ c.right \in Occurrences /\ c.head \in BOOLEAN
    BY <1>1 DEF Candidates
  <2> DEFINE a == <<Origin(c), c.left>>
             b == <<IF c.head THEN uidLast + 1 ELSE Origin(c), c.right>>
  <2>3. a \in Terms(uidLast') /\ b \in Terms(uidLast')
    BY <1>2, <1>3, <2>1, <2>2 DEF Terms
  <2>4. todo' = << <<a, b>> >>
    BY <1>2
  <2> HIDE DEF a, b
  <2> QED BY <2>3, <2>4 DEF Pairs
<1> QED BY <1>2, <1>3, <1>6, <1>7 DEF IInv

\* A context is dropped.
LEMMA DropKeeps ==
  ASSUME IInv, Len(chain) > 1, DropTop, unifying' = FALSE, todo' \in {todo, <<>>},
         UNCHANGED <<branch, uidLast, iidLast>>
  PROVE  IInv'
<1> DEFINE C == Contexts(uidLast, iidLast)
<1>1. chain \in Seq(C) /\ Len(chain) \in Nat /\ chain' = SubSeq(chain, 1, Len(chain) - 1)
  BY DEF IInv, DropTop
<1> HIDE DEF C
<1>2. \A i \in 1..(Len(chain) - 1) : chain[i] \in C
  BY <1>1
<1>3. Len(chain) - 1 \in Int /\ 1 \in Int /\ 1 <= Len(chain) - 1
  BY <1>1
<1>4. chain' \in Seq(C) /\ Len(chain') = Len(chain) - 1
  BY <1>1, <1>2, <1>3, SubSeqProperties
<1>5. chain' # <<>>
  BY <1>3, <1>4
<1>6. chain' \in Seq(Contexts(uidLast', iidLast'))
  BY <1>4 DEF C
<1>7. todo' \in Seq(Pairs(uidLast'))
  <2>1. UNCHANGED uidLast /\ todo \in Seq(Pairs(uidLast))
    BY DEF IInv
  <2>2. Pairs(uidLast') = Pairs(uidLast)
    BY <2>1
  <2>3. <<>> \in Seq(Pairs(uidLast))
    OBVIOUS
  <2> QED BY <2>1, <2>2, <2>3
<1> QED BY <1>5, <1>6, <1>7 DEF IInv

LEMMA VarVarKeeps == ASSUME IInv, UnifyVarVar PROVE IInv'
<1> DEFINE m == FindBinding(chain, Right)
           o == FindBinding(chain, Left)
           im == FindInstance(chain, m)
           io == FindInstance(chain, o)
           new == iidLast + 1
           T == (0..uidLast) \X (Occurrences \ Vars)
<1>1. NextPair /\ Left \in Nat \X Vars /\ Right \in Nat \X Vars
  BY NextPairTyped DEF UnifyVarVar
<1>2. m \in {0} \cup (2..iidLast) /\ o \in {0} \cup (2..iidLast)
  BY FindBindingTyped
<1>3. (im # <<>> => im[1] \in T) /\ (io # <<>> => io[1] \in T)
  BY FindInstanceTyped
<1>4. T \subseteq Terms(uidLast)
  BY DEF Terms
<1>5. uidLast \in Nat /\ iidLast \in Nat /\ iidLast # 0 /\ new \in Nat /\ new \in 2..new
  BY DEF IInv
<1>6. Top \in Contexts(uidLast, iidLast) /\ Top \in Contexts(uidLast, new)
  BY TopTyped
<1>7. \/ Recurse(<<>>)
      \/ Write(WithBinding(WithBinding(Top, Right, new), Left, new)) /\ iidLast' = new
      \/ m = 0 /\ o # 0 /\ Write(WithBinding(Top, Right, o)) /\ UNCHANGED iidLast
      \/ m # 0 /\ o = 0 /\ Write(WithBinding(Top, Left, m)) /\ UNCHANGED iidLast
      \/ /\ m # 0
         /\ Write([WithBinding(Top, Left, m) EXCEPT !.lossy = @ \/ Group(o) # {Left}])
         /\ UNCHANGED iidLast
      \/ m # 0 /\ io # <<>> /\ Write(WithInstance(Top, m, io[1])) /\ UNCHANGED iidLast
      \/ o # 0 /\ im # <<>> /\ Write(WithInstance(Top, o, im[1])) /\ UNCHANGED iidLast
      \/ im # <<>> /\ io # <<>> /\ Recurse(<< <<im[1], io[1]>> >>)
  BY DEF UnifyVarVar
<1> HIDE DEF m, o, im, io, T, new
<1>8. CASE Recurse(<<>>)
  <2>1. <<>> \in Seq(Pairs(uidLast))
    OBVIOUS
  <2> QED BY <1>1, <1>8, <2>1, RecurseKeeps
<1>9. CASE Write(WithBinding(WithBinding(Top, Right, new), Left, new)) /\ iidLast' = new
  <2>1. WithBinding(Top, Right, new) \in Contexts(uidLast, new)
    BY <1>1, <1>5, <1>6, WithBindingTyped
  <2>2. WithBinding(WithBinding(Top, Right, new), Left, new) \in Contexts(uidLast, new)
    BY <1>1, <1>5, <2>1, WithBindingTyped
  <2> QED BY <1>1, <1>9, <2>2, WriteKeeps DEF new
<1>10. CASE m = 0 /\ o # 0 /\ Write(WithBinding(Top, Right, o)) /\ UNCHANGED iidLast
  <2>1. WithBinding(Top, Right, o) \in Contexts(uidLast, iidLast)
    BY <1>1, <1>2, <1>5, <1>6, <1>10, WithBindingTyped
  <2> QED BY <1>1, <1>10, <2>1, WriteKeeps
<1>11. CASE m # 0 /\ o = 0 /\ Write(WithBinding(Top, Left, m)) /\ UNCHANGED iidLast
  <2>1. WithBinding(Top, Left, m) \in Contexts(uidLast, iidLast)
    BY <1>1, <1>2, <1>5, <1>6, <1>11, WithBindingTyped
  <2> QED BY <1>1, <1>11, <2>1, WriteKeeps
<1>12. CASE /\ m # 0
            /\ Write([WithBinding(Top, Left, m) EXCEPT !.lossy = @ \/ Group(o) # {Left}])
            /\ UNCHANGED iidLast
  <2> DEFINE uc == WithBinding(Top, Left, m)
             lost == uc.lossy \/ Group(o) # {Left}
  <2>1. uc \in Contexts(uidLast, iidLast)
    BY <1>1, <1>2, <1>5, <1>6, <1>12, WithBindingTyped
  <2>2. lost \in BOOLEAN
    OBVIOUS
  <2>3. Write([uc EXCEPT !.lossy = lost])
    BY <1>12
  <2> HIDE DEF uc, lost
  <2>4. [uc EXCEPT !.lossy = lost] \in Contexts(uidLast, iidLast)
    BY <2>1, <2>2 DEF Contexts
  <2> QED BY <1>1, <1>12, <2>3, <2>4, WriteKeeps
<1>13. CASE m # 0 /\ io # <<>> /\ Write(WithInstance(Top, m, io[1])) /\ UNCHANGED iidLast
  <2>1. WithInstance(Top, m, io[1]) \in Contexts(uidLast, iidLast)
    BY <1>2, <1>3, <1>5, <1>6, <1>13, WithInstanceTyped DEF T
  <2> QED BY <1>1, <1>13, <2>1, WriteKeeps
<1>14. CASE o # 0 /\ im # <<>> /\ Write(WithInstance(Top, o, im[1])) /\ UNCHANGED iidLast
  <2>1. WithInstance(Top, o, im[1]) \in Contexts(uidLast, iidLast)
    BY <1>2, <1>3, <1>5, <1>6, <1>14, WithInstanceTyped DEF T
  <2> QED BY <1>1, <1>14, <2>1, WriteKeeps
<1>15. CASE im # <<>> /\ io # <<>> /\ Recurse(<< <<im[1], io[1]>> >>)
  BY <1>1, <1>3, <1>4, <1>15, RecurseOnce
<1> QED BY <1>7, <1>8, <1>9, <1>10, <1>11, <1>12, <1>13, <1>14, <1>15

LEMMA VarKnownKeeps == ASSUME IInv, UnifyVarKnown PROVE IInv'
<1> DEFINE v == IF Compound(Left) THEN Right ELSE Left
           t == IF Compound(Left) THEN Left ELSE Right
           iid == FindBinding(chain, v)
           old == FindInstance(chain, iid)
           new == iidLast + 1
           T == (0..uidLast) \X (Occurrences \ Vars)
<1>1. NextPair /\ v \in Nat \X Vars /\ t \in T
  <2>1. NextPair /\ Compound(Left) # Compound(Right)
    BY DEF UnifyVarKnown
  <2>2. Compound(Left) \in BOOLEAN /\ Compound(Right) \in BOOLEAN
    BY DEF Compound
  <2> QED BY <2>1, <2>2, NextPairTyped
<1>2. iid \in {0} \cup (2..iidLast)
  BY FindBindingTyped
<1>3. old # <<>> => old[1] \in T
  BY FindInstanceTyped
<1>4. T \subseteq Terms(uidLast)
  BY DEF Terms
<1>5. uidLast \in Nat /\ iidLast \in Nat /\ iidLast # 0 /\ new \in Nat /\ new \in 2..new
  BY DEF IInv
<1>6. Top \in Contexts(uidLast, iidLast) /\ Top \in Contexts(uidLast, new)
  BY TopTyped
<1>7. \/ old # <<>> /\ Recurse(<< <<old[1], t>> >>)
      \/ iid # 0 /\ Write(WithInstance(Top, iid, t)) /\ UNCHANGED iidLast
      \/ Write(WithInstance(WithBinding(Top, v, new), new, t)) /\ iidLast' = new
  BY DEF UnifyVarKnown
<1> HIDE DEF v, t, iid, old, new, T
<1>8. CASE old # <<>> /\ Recurse(<< <<old[1], t>> >>)
  BY <1>1, <1>3, <1>4, <1>8, RecurseOnce
<1>9. CASE iid # 0 /\ Write(WithInstance(Top, iid, t)) /\ UNCHANGED iidLast
  <2>1. WithInstance(Top, iid, t) \in Contexts(uidLast, iidLast)
    BY <1>1, <1>2, <1>5, <1>6, <1>9, WithInstanceTyped DEF T
  <2> QED BY <1>1, <1>9, <2>1, WriteKeeps
<1>10. CASE Write(WithInstance(WithBinding(Top, v, new), new, t)) /\ iidLast' = new
  <2>1. WithBinding(Top, v, new) \in Contexts(uidLast, new)
    BY <1>1, <1>5, <1>6, WithBindingTyped
  <2>2. WithInstance(WithBinding(Top, v, new), new, t) \in Contexts(uidLast, new)
    BY <1>1, <1>5, <2>1, WithInstanceTyped DEF T
  <2> QED BY <1>1, <1>10, <2>2, WriteKeeps DEF new
<1> QED BY <1>7, <1>8, <1>9, <1>10

LEMMA IdenticalKeeps == ASSUME IInv, UnifyIdentical PROVE IInv'
<1> DEFINE lost == Top.lossy \/ (Left[1] # Right[1] /\ Term[Left[2]].args # <<>>)
<1>1. NextPair /\ Write([Top EXCEPT !.lossy = lost]) /\ iidLast' = iidLast
  BY DEF UnifyIdentical
<1>2. lost \in BOOLEAN /\ Top \in Contexts(uidLast, iidLast)
  BY TopTyped
<1> HIDE DEF lost
<1>3. [Top EXCEPT !.lossy = lost] \in Contexts(uidLast, iidLast)
  BY <1>2 DEF Contexts
<1> QED BY <1>1, <1>3, WriteKeeps

LEMMA DescendKeeps == ASSUME IInv, NEW kind, Descend(kind) PROVE IInv'
<1>1. /\ NextPair /\ Recurse(Arguments(Right, Left)) /\ SameShape(Left[2], Right[2])
  BY DEF Descend
<1>2. Left \in Terms(uidLast) /\ Right \in Terms(uidLast)
  BY <1>1, NextPairTyped
<1> DEFINE l == Term[Left[2]].args
           r == Term[Right[2]].args
<1>3. l \in Seq(Occurrences) /\ r \in Seq(Occurrences) /\ Len(l) = Len(r)
  BY <1>1, <1>2, BindingsAssumption DEF SameShape, Terms
<1>4. Left[1] \in 0..uidLast /\ Right[1] \in 0..uidLast
  BY <1>2 DEF Terms
<1>5. Arguments(Right, Left) = [i \in 1..Len(r) |-> << <<Right[1], r[i]>>, <<Left[1], l[i]>> >>]
  BY DEF Arguments
<1> HIDE DEF l, r
<1>6. \A i \in 1..Len(r) : << <<Right[1], r[i]>>, <<Left[1], l[i]>> >> \in Pairs(uidLast)
  BY <1>3, <1>4 DEF Pairs, Terms
<1>7. Arguments(Right, Left) \in Seq(Pairs(uidLast))
  <2> DEFINE P == Pairs(uidLast)
             e(i) == << <<Right[1], r[i]>>, <<Left[1], l[i]>> >>
  <2>1. \A i \in 1..Len(r) : e(i) \in P
    BY <1>6
  <2>2. Arguments(Right, Left) = [i \in 1..Len(r) |-> e(i)]
    BY <1>5
  <2>3. Len(r) \in Nat
    BY <1>3
  <2> HIDE DEF P, e
  <2>4. [i \in 1..Len(r) |-> e(i)] \in Seq(P)
    BY <2>1, <2>3
  <2> QED BY <2>2, <2>4 DEF P
<1> QED BY <1>1, <1>7, RecurseKeeps

\* Every step keeps the invariant.
LEMMA NextKeeps == ASSUME IInv, [Next]_vars PROVE IInv'
<1>1. ASSUME NEW i \in DOMAIN branch, NEW c \in branch[i], Try(c) PROVE IInv'
  BY <1>1, TryKeeps
<1>2. CASE Unified
  BY <1>2 DEF Unified, IInv
<1>3. CASE Backtrack
  <2>1. /\ Len(chain) > 1 /\ DropTop /\ unifying = FALSE
        /\ UNCHANGED <<branch, todo, unifying, uidLast, iidLast>>
    BY <1>3 DEF Backtrack, IInv
  <2> QED BY <2>1, DropKeeps
<1>4. CASE Clash
  <2>1. unifying
    BY <1>4 DEF Clash, NextPair
  <2> QED BY <1>4, <2>1, DropKeeps DEF Clash, IInv
<1>5. CASE UNCHANGED vars
  BY <1>5 DEF vars, IInv
<1> QED BY <1>1, <1>2, <1>3, <1>4, <1>5, VarVarKeeps, VarKnownKeeps, IdenticalKeeps, DescendKeeps
        DEF Next, UnifyStep, UnifyCons, UnifyMap, UnifyArray

LEMMA Inductive == Spec => []IInv
BY InitIInv, NextKeeps, PTL DEF Spec

\* OneStepLookup, for every program and every depth of the search: the value
\* of a variable is never a variable, so that print, assert and findall, which
\* look one step far, do not miss it.
THEOREM ValuesAreNoVariables == Spec => []OneStepLookup
<1>1. IInv => OneStepLookup
  <2> SUFFICES ASSUME IInv, NEW i \in DOMAIN chain, NEW iid \in DOMAIN chain[i].instance
               PROVE  /\ iid \in 2..iidLast
                      /\ chain[i].instance[iid] \in (0..uidLast) \X (Occurrences \ Vars)
    BY DEF OneStepLookup
  <2>1. chain[i] \in Contexts(uidLast, iidLast)
    BY DEF IInv
  <2> QED BY <2>1, ContextEntries DEF IInv
<1> QED BY Inductive, <1>1, PTL

\* Every variable has its type, for every program and every depth of the search.
THEOREM BindingsTypeCorrect == Spec => []TypeOK
<1>1. IInv => TypeOK
  <2> SUFFICES ASSUME IInv PROVE TypeOK
    OBVIOUS
  <2>1. todo \in Seq((Nat \X Occurrences) \X (Nat \X Occurrences))
    <3>1. Pairs(uidLast) \subseteq (Nat \X Occurrences) \X (Nat \X Occurrences)
      BY DEF Pairs, Terms, IInv
    <3> QED BY <3>1, SeqMonotonic DEF IInv
  <2>2. ASSUME NEW i \in DOMAIN chain
        PROVE  /\ chain[i].id \in 1..uidLast
               /\ chain[i].lossy \in BOOLEAN
               /\ DOMAIN chain[i].binding \subseteq Nat \X Vars
               /\ \A a \in DOMAIN chain[i].binding : chain[i].binding[a] \in 2..iidLast
    <3>1. chain[i] \in Contexts(uidLast, iidLast)
      BY DEF IInv
    <3>2. chain[i].id \in 1..uidLast /\ chain[i].lossy \in BOOLEAN
      BY <3>1 DEF Contexts
    <3>3. uidLast \in Nat /\ iidLast \in Nat
      BY DEF IInv
    <3> QED BY <3>1, <3>2, <3>3, ContextEntries
  <2> QED BY <2>1, <2>2 DEF IInv, TypeOK
<1> QED BY Inductive, <1>1, PTL

-----------------------------------------------------------------------------
(* What the bindings mean.                                                 *)

Scoped == Nat \X Occurrences

\* A reading gives each scoped term a value; equal compounds are those of the
\* same shape with equal arguments.  Any choice of trees for the variables is
\* one: each compound is read as the tree that its arguments make.
Reading(J) ==
  \A t, u \in Scoped : Compound(t) /\ Compound(u) =>
    (J[t] = J[u] <=>
       /\ SameShape(t[2], u[2])
       /\ \A i \in 1..Len(Term[t[2]].args) :
            J[<<t[1], Term[t[2]].args[i]>>] = J[<<u[1], Term[u[2]].args[i]>>])

\* What the branch was made to unify has one value.
Solves(J) == \A e \in Equations : J[e[1]] = J[e[2]]

\* Variables that lead to one id have one value, that of its instance.
BindingsHold(J) ==
  \A a, b \in Nat \X Vars : FindBinding(chain, a) # 0 =>
    /\ FindBinding(chain, b) = FindBinding(chain, a) => J[b] = J[a]
    /\ Instance(chain, a) # <<>> => J[Instance(chain, a)[1]] = J[a]

\* The lookups in the first n contexts of a chain.
Binders(ch, n, a) == {i \in 1..n : a \in DOMAIN ch[i].binding}
Holders(ch, n, iid) == {i \in 1..n : iid \in DOMAIN ch[i].instance}
BindingAt(ch, n, a) ==
  IF Binders(ch, n, a) = {} THEN 0 ELSE ch[Latest(Binders(ch, n, a))].binding[a]
InstanceAt(ch, n, iid) ==
  IF Holders(ch, n, iid) = {} THEN <<>> ELSE <<ch[Latest(Holders(ch, n, iid))].instance[iid]>>

\* The lookups in a context on top of n others.
Known(ch, n, uc, a) == IF a \in DOMAIN uc.binding THEN uc.binding[a] ELSE BindingAt(ch, n, a)
Valued(ch, n, uc, iid) ==
  IF iid \in DOMAIN uc.instance THEN <<uc.instance[iid]>> ELSE InstanceAt(ch, n, iid)

LEMMA LatestIsLast ==
  ASSUME NEW n \in Nat, NEW T \in SUBSET (1..n), n \in T
  PROVE  Latest(T) = n
<1>1. \A j \in T : j <= n
  OBVIOUS
<1>2. \A i \in T : (\A j \in T : j <= i) => i = n
  OBVIOUS
<1> QED BY <1>1, <1>2 DEF Latest

LEMMA TopFirst ==
  ASSUME NEW ch, NEW n \in Nat \ {0}
  PROVE  /\ \A a : BindingAt(ch, n, a) = Known(ch, n - 1, ch[n], a)
         /\ \A iid : InstanceAt(ch, n, iid) = Valued(ch, n - 1, ch[n], iid)
<1>0. n \in 1..n /\ \A i \in 1..n : i \in 1..(n - 1) \/ i = n
  OBVIOUS
<1>1. ASSUME NEW a PROVE BindingAt(ch, n, a) = Known(ch, n - 1, ch[n], a)
  <2> DEFINE T == Binders(ch, n, a)
  <2>1. CASE a \in DOMAIN ch[n].binding
    <3>1. n \in T /\ T \in SUBSET (1..n)
      BY <1>0, <2>1 DEF Binders
    <3>2. Latest(T) = n
      <4> HIDE DEF T
      <4> QED BY <3>1, LatestIsLast
    <3> QED BY <2>1, <3>1, <3>2 DEF BindingAt, Known
  <2>2. CASE a \notin DOMAIN ch[n].binding
    <3>1. T = Binders(ch, n - 1, a)
      BY <1>0, <2>2 DEF Binders
    <3> QED BY <2>2, <3>1 DEF BindingAt, Known
  <2> QED BY <2>1, <2>2
<1>2. ASSUME NEW iid PROVE InstanceAt(ch, n, iid) = Valued(ch, n - 1, ch[n], iid)
  <2> DEFINE T == Holders(ch, n, iid)
  <2>1. CASE iid \in DOMAIN ch[n].instance
    <3>1. n \in T /\ T \in SUBSET (1..n)
      BY <1>0, <2>1 DEF Holders
    <3>2. Latest(T) = n
      <4> HIDE DEF T
      <4> QED BY <3>1, LatestIsLast
    <3> QED BY <2>1, <3>1, <3>2 DEF InstanceAt, Valued
  <2>2. CASE iid \notin DOMAIN ch[n].instance
    <3>1. T = Holders(ch, n - 1, iid)
      BY <1>0, <2>2 DEF Holders
    <3> QED BY <2>2, <3>1 DEF InstanceAt, Valued
  <2> QED BY <2>1, <2>2
<1> QED BY <1>1, <1>2

\* Lookups in n contexts do not depend on those above.
LEMMA LookupsBelow ==
  ASSUME NEW c, NEW d, NEW n \in Nat, \A i \in 1..n : c[i] = d[i]
  PROVE  /\ \A a : BindingAt(c, n, a) = BindingAt(d, n, a)
         /\ \A iid : InstanceAt(c, n, iid) = InstanceAt(d, n, iid)
<1>1. ASSUME NEW a PROVE BindingAt(c, n, a) = BindingAt(d, n, a)
  <2>1. Binders(c, n, a) = Binders(d, n, a) /\ Binders(c, n, a) \in SUBSET (1..n)
    BY DEF Binders
  <2> DEFINE T == Binders(c, n, a)
  <2>2. T # {} => Latest(T) \in 1..n
    <3>1. T \in SUBSET (1..n)
      BY <2>1
    <3> HIDE DEF T
    <3> QED BY <3>1, LatestIsGreatest
  <2> QED BY <2>1, <2>2 DEF BindingAt
<1>2. ASSUME NEW iid PROVE InstanceAt(c, n, iid) = InstanceAt(d, n, iid)
  <2>1. Holders(c, n, iid) = Holders(d, n, iid) /\ Holders(c, n, iid) \in SUBSET (1..n)
    BY DEF Holders
  <2> DEFINE T == Holders(c, n, iid)
  <2>2. T # {} => Latest(T) \in 1..n
    <3>1. T \in SUBSET (1..n)
      BY <2>1
    <3> HIDE DEF T
    <3> QED BY <3>1, LatestIsGreatest
  <2> QED BY <2>1, <2>2 DEF InstanceAt
<1> QED BY <1>1, <1>2

\* The lookups of the model are those of the whole chain.
LEMMA LookupsAtTop ==
  ASSUME IInv
  PROVE  /\ Len(chain) \in Nat \ {0} /\ chain[Len(chain)] = Top
         /\ \A a : FindBinding(chain, a) = BindingAt(chain, Len(chain), a)
         /\ \A iid : FindInstance(chain, iid) = InstanceAt(chain, Len(chain), iid)
<1>1. DOMAIN chain = 1..Len(chain) /\ Len(chain) \in Nat \ {0}
  BY DEF IInv
<1> QED BY <1>1 DEF FindBinding, FindInstance, BindingAt, InstanceAt, Binders, Holders, Top

\* w is uc with variable a bound to iid, and then with t for the value of iid.
AddsBinding(w, uc, a, iid) ==
  /\ w.id = uc.id /\ w.candidate = uc.candidate /\ w.lossy = uc.lossy
  /\ w.instance = uc.instance
  /\ DOMAIN w.binding = DOMAIN uc.binding \cup {a}
  /\ \A b \in DOMAIN w.binding : w.binding[b] = IF b = a THEN iid ELSE uc.binding[b]
AddsInstance(w, uc, iid, t) ==
  /\ w.id = uc.id /\ w.candidate = uc.candidate /\ w.lossy = uc.lossy
  /\ w.binding = uc.binding
  /\ DOMAIN w.instance = DOMAIN uc.instance \cup {iid}
  /\ \A x \in DOMAIN w.instance : w.instance[x] = IF x = iid THEN t ELSE uc.instance[x]

LEMMA WritesAdd ==
  ASSUME NEW u \in Nat, NEW m \in Nat, NEW uc \in Contexts(u, m), NEW a, NEW iid, NEW t
  PROVE  /\ AddsBinding(WithBinding(uc, a, iid), uc, a, iid)
         /\ AddsInstance(WithInstance(uc, iid, t), uc, iid, t)
<1>1. AddsBinding(WithBinding(uc, a, iid), uc, a, iid)
  <2> DEFINE w == WithBinding(uc, a, iid)
             f == Bind(uc.binding, a, iid)
  <2>1. /\ w.binding = f /\ w.instance = uc.instance /\ w.id = uc.id
        /\ w.candidate = uc.candidate /\ w.lossy = uc.lossy
    BY DEF WithBinding, Contexts
  <2>2. /\ DOMAIN f = DOMAIN uc.binding \cup {a}
        /\ \A z \in DOMAIN f : f[z] = IF z = a THEN iid ELSE uc.binding[z]
    BY DEF Bind
  <2> HIDE DEF w, f
  <2>3. AddsBinding(w, uc, a, iid)
    BY <2>1, <2>2 DEF AddsBinding
  <2> QED BY <2>3 DEF w
<1>2. AddsInstance(WithInstance(uc, iid, t), uc, iid, t)
  <2> DEFINE w == WithInstance(uc, iid, t)
             f == Bind(uc.instance, iid, t)
  <2>1. /\ w.instance = f /\ w.binding = uc.binding /\ w.id = uc.id
        /\ w.candidate = uc.candidate /\ w.lossy = uc.lossy
    BY DEF WithInstance, Contexts
  <2>2. /\ DOMAIN f = DOMAIN uc.instance \cup {iid}
        /\ \A z \in DOMAIN f : f[z] = IF z = iid THEN t ELSE uc.instance[z]
    BY DEF Bind
  <2> HIDE DEF w, f
  <2>3. AddsInstance(w, uc, iid, t)
    BY <2>1, <2>2 DEF AddsInstance
  <2> QED BY <2>3 DEF w
<1> QED BY <1>1, <1>2

\* What a call writes is found, and hides what was found there before.
LEMMA AddedIsFound ==
  ASSUME NEW ch, NEW n, NEW w, NEW uc
  PROVE  /\ \A a, iid : AddsBinding(w, uc, a, iid) =>
              /\ \A b : Known(ch, n, w, b) = IF b = a THEN iid ELSE Known(ch, n, uc, b)
              /\ \A x : Valued(ch, n, w, x) = Valued(ch, n, uc, x)
         /\ \A iid, t : AddsInstance(w, uc, iid, t) =>
              /\ \A b : Known(ch, n, w, b) = Known(ch, n, uc, b)
              /\ \A x : Valued(ch, n, w, x) = IF x = iid THEN <<t>> ELSE Valued(ch, n, uc, x)
BY DEF AddsBinding, AddsInstance, Known, Valued

-----------------------------------------------------------------------------
(* Equations and bindings allow the same readings, at every depth.         *)

\* A goal is read in the scope of a context below the candidate's.
OriginsInv ==
  \A i \in 2..Len(chain) :
    chain[i].candidate \in Candidates /\ chain[i].candidate.scope \in 1..(i - 1)

\* The first n contexts' equations, and pairs of terms, hold in a reading.
Satisfied(J, n) == \A i \in 2..n : J[Equation(i)[1]] = J[Equation(i)[2]]
AllHold(J, pairs) == \A k \in DOMAIN pairs : J[pairs[k][1]] = J[pairs[k][2]]

\* H gives each instance id the value it stands for.  All that a context holds
\* is respected, hidden or not; what is found agrees.
RespectedBy(J, H, uc) ==
  /\ \A a \in DOMAIN uc.binding : J[a] = H[uc.binding[a]]
  /\ \A iid \in DOMAIN uc.instance : H[iid] = J[uc.instance[iid]]
Respected(J, H, ch, n) == \A i \in 1..n : RespectedBy(J, H, ch[i])
Agrees(J, H, ch, n) ==
  /\ \A a \in Nat \X Vars : BindingAt(ch, n, a) # 0 => J[a] = H[BindingAt(ch, n, a)]
  /\ \A iid \in Nat : InstanceAt(ch, n, iid) # <<>> => H[iid] = J[InstanceAt(ch, n, iid)[1]]
LossyAt(ch, n) == \E i \in 1..n : ch[i].lossy

\* What the call still has to unify, if there is one under way at depth n.
Remaining(J, n) == n = Len(chain) /\ unifying => AllHold(J, todo)

\* The bindings hold wherever the equations do, and where none was lost the
\* equations hold wherever the bindings and the rest of the call do.
MeaningInv(J) ==
  \A n \in 1..Len(chain) :
    /\ Satisfied(J, n) => (\E H : Respected(J, H, chain, n)) /\ Remaining(J, n)
    /\ \A H : Agrees(J, H, chain, n) /\ ~LossyAt(chain, n) /\ Remaining(J, n) => Satisfied(J, n)

LEMMA RespectedAgrees ==
  ASSUME IInv, NEW J, NEW H, NEW n \in 1..Len(chain), Respected(J, H, chain, n)
  PROVE  Agrees(J, H, chain, n)
<1>0. n \in Nat
  OBVIOUS
<1>1. ASSUME NEW a \in Nat \X Vars, BindingAt(chain, n, a) # 0
      PROVE  J[a] = H[BindingAt(chain, n, a)]
  <2> DEFINE T == Binders(chain, n, a)
             k == Latest(T)
  <2>1. T # {} /\ BindingAt(chain, n, a) = chain[k].binding[a]
    BY <1>1 DEF BindingAt
  <2>2. T \in SUBSET (1..n)
    BY DEF Binders
  <2>3. k \in T
    <3> HIDE DEF T
    <3> QED BY <1>0, <2>1, <2>2, LatestIsGreatest
  <2>4. k \in 1..n /\ a \in DOMAIN chain[k].binding
    BY <2>3 DEF Binders
  <2> HIDE DEF T, k
  <2> QED BY <2>1, <2>4 DEF Respected, RespectedBy
<1>2. ASSUME NEW iid \in Nat, InstanceAt(chain, n, iid) # <<>>
      PROVE  H[iid] = J[InstanceAt(chain, n, iid)[1]]
  <2> DEFINE T == Holders(chain, n, iid)
             k == Latest(T)
  <2>1. T # {} /\ InstanceAt(chain, n, iid)[1] = chain[k].instance[iid]
    BY <1>2 DEF InstanceAt
  <2>2. T \in SUBSET (1..n)
    BY DEF Holders
  <2>3. k \in T
    <3> HIDE DEF T
    <3> QED BY <1>0, <2>1, <2>2, LatestIsGreatest
  <2>4. k \in 1..n /\ iid \in DOMAIN chain[k].instance
    BY <2>3 DEF Holders
  <2> HIDE DEF T, k
  <2> QED BY <2>1, <2>4 DEF Respected, RespectedBy
<1> QED BY <1>1, <1>2 DEF Agrees

\* Equations are of the contexts below, whatever else is bound there.
LEMMA EquationsKept ==
  ASSUME OriginsInv, NEW n \in Nat, n <= Len(chain), Len(chain) \in Nat,
         \A i \in 1..n : chain'[i].id = chain[i].id /\ chain'[i].candidate = chain[i].candidate
  PROVE  /\ \A i \in 2..n : Equation(i)' = Equation(i)
         /\ \A J : Satisfied(J, n)' <=> Satisfied(J, n)
<1>1. ASSUME NEW i \in 2..n PROVE Equation(i)' = Equation(i)
  <2> DEFINE c == chain[i].candidate
  <2>1. i \in 2..Len(chain) /\ i \in 1..n
    BY <1>1
  <2>2. c.scope \in 1..(i - 1)
    BY <2>1 DEF OriginsInv
  <2>3. c.scope \in 1..n
    BY <1>1, <2>2
  <2>4. c' = c /\ chain'[i].id = chain[i].id /\ chain'[c.scope].id = chain[c.scope].id
    BY <2>1, <2>3
  <2> QED BY <2>4 DEF Equation, Origin
<1>2. ASSUME NEW J PROVE Satisfied(J, n)' <=> Satisfied(J, n)
  BY <1>1 DEF Satisfied
<1> QED BY <1>1, <1>2

\* A pair and those after it.
LEMMA AllHoldSplit ==
  ASSUME NEW S, NEW ps \in Seq(S), ps # <<>>, NEW J
  PROVE  AllHold(J, ps) <=> J[ps[1][1]] = J[ps[1][2]] /\ AllHold(J, Tail(ps))
<1>1. /\ Len(ps) \in Nat \ {0} /\ DOMAIN ps = 1..Len(ps) /\ DOMAIN Tail(ps) = 1..(Len(ps) - 1)
      /\ \A k \in 1..(Len(ps) - 1) : Tail(ps)[k] = ps[k + 1]
  BY HeadTailProperties
<1>2. ASSUME AllHold(J, ps) PROVE J[ps[1][1]] = J[ps[1][2]] /\ AllHold(J, Tail(ps))
  <2>1. 1 \in DOMAIN ps /\ \A k \in 1..(Len(ps) - 1) : k + 1 \in DOMAIN ps
    BY <1>1
  <2> QED BY <1>1, <1>2, <2>1 DEF AllHold
<1>3. ASSUME J[ps[1][1]] = J[ps[1][2]], AllHold(J, Tail(ps)) PROVE AllHold(J, ps)
  <2>1. \A k \in DOMAIN ps : k = 1 \/ (k - 1 \in DOMAIN Tail(ps) /\ Tail(ps)[k - 1] = ps[k])
    BY <1>1
  <2> QED BY <1>3, <2>1 DEF AllHold
<1> QED BY <1>2, <1>3

LEMMA AllHoldConcat ==
  ASSUME NEW S, NEW ps \in Seq(S), NEW qs \in Seq(S), NEW J
  PROVE  AllHold(J, ps \o qs) <=> AllHold(J, ps) /\ AllHold(J, qs)
<1>1. /\ Len(ps) \in Nat /\ Len(qs) \in Nat
      /\ DOMAIN ps = 1..Len(ps) /\ DOMAIN qs = 1..Len(qs)
      /\ DOMAIN (ps \o qs) = 1..(Len(ps) + Len(qs))
      /\ \A k \in 1..(Len(ps) + Len(qs)) :
           (ps \o qs)[k] = IF k <= Len(ps) THEN ps[k] ELSE qs[k - Len(ps)]
  BY ConcatProperties
<1>2. ASSUME AllHold(J, ps \o qs) PROVE AllHold(J, ps) /\ AllHold(J, qs)
  <2>1. \A k \in DOMAIN ps : k \in DOMAIN (ps \o qs) /\ (ps \o qs)[k] = ps[k]
    BY <1>1
  <2>2. \A k \in DOMAIN qs : k + Len(ps) \in DOMAIN (ps \o qs) /\ (ps \o qs)[k + Len(ps)] = qs[k]
    BY <1>1
  <2>3. AllHold(J, ps)
    BY <1>2, <2>1 DEF AllHold
  <2>4. AllHold(J, qs)
    <3> SUFFICES ASSUME NEW k \in DOMAIN qs PROVE J[qs[k][1]] = J[qs[k][2]]
      BY DEF AllHold
    <3> DEFINE l == k + Len(ps)
    <3>1. l \in DOMAIN (ps \o qs) /\ (ps \o qs)[l] = qs[k]
      BY <2>2
    <3> HIDE DEF l
    <3> QED BY <1>2, <3>1 DEF AllHold
  <2> QED BY <2>3, <2>4
<1>3. ASSUME AllHold(J, ps), AllHold(J, qs) PROVE AllHold(J, ps \o qs)
  <2>1. \A k \in DOMAIN (ps \o qs) :
          \/ k \in DOMAIN ps /\ (ps \o qs)[k] = ps[k]
          \/ k - Len(ps) \in DOMAIN qs /\ (ps \o qs)[k] = qs[k - Len(ps)]
    BY <1>1
  <2> QED BY <1>3, <2>1 DEF AllHold
<1> QED BY <1>2, <1>3

\* The lists of pairs hold as before and after a call.
LEMMA NextPairHolds ==
  ASSUME IInv, NextPair, NEW J
  PROVE  /\ AllHold(J, todo) <=> J[Left] = J[Right] /\ AllHold(J, Tail(todo))
         /\ unifying
<1>1. todo \in Seq(Pairs(uidLast)) /\ todo # <<>> /\ unifying
  BY DEF IInv, NextPair
<1>2. AllHold(J, todo) <=> J[todo[1][1]] = J[todo[1][2]] /\ AllHold(J, Tail(todo))
  <2> DEFINE S == Pairs(uidLast)
  <2>1. todo \in Seq(S)
    BY <1>1
  <2> HIDE DEF S
  <2> QED BY <1>1, <2>1, AllHoldSplit
<1> QED BY <1>1, <1>2 DEF Left, Right

\* A call that goes on with pairs that say the same.
LEMMA RecurseKeepsMeaning ==
  ASSUME IInv, NEW J, MeaningInv(J), NextPair, NEW pairs \in Seq(Pairs(uidLast)), Recurse(pairs),
         \A H : Agrees(J, H, chain, Len(chain)) => (J[Left] = J[Right] <=> AllHold(J, pairs))
  PROVE  MeaningInv(J)'
<1>1. /\ UNCHANGED <<chain, unifying>> /\ todo' = pairs \o Tail(todo) /\ unifying
      /\ Len(chain) \in Nat \ {0}
  BY NextPairHolds, LookupsAtTop DEF Recurse
<1>2. AllHold(J, todo') <=> AllHold(J, pairs) /\ AllHold(J, Tail(todo))
  <2> DEFINE S == Pairs(uidLast)
  <2>1. pairs \in Seq(S) /\ Tail(todo) \in Seq(S)
    BY NextPairTyped
  <2> HIDE DEF S
  <2> QED BY <1>1, <2>1, AllHoldConcat
<1>3. AllHold(J, todo) <=> J[Left] = J[Right] /\ AllHold(J, Tail(todo))
  BY NextPairHolds
<1>4. \A n \in 1..Len(chain) : Satisfied(J, n)' <=> Satisfied(J, n)
  BY <1>1 DEF Satisfied, Equation, Origin
<1>5. ASSUME NEW n \in 1..Len(chain)
      PROVE  /\ Satisfied(J, n) => (\E H : Respected(J, H, chain, n)) /\ Remaining(J, n)'
             /\ \A H : Agrees(J, H, chain, n) /\ ~LossyAt(chain, n) /\ Remaining(J, n)'
                       => Satisfied(J, n)
  <2>0. /\ Satisfied(J, n) => (\E H : Respected(J, H, chain, n)) /\ Remaining(J, n)
        /\ \A H : Agrees(J, H, chain, n) /\ ~LossyAt(chain, n) /\ Remaining(J, n) => Satisfied(J, n)
    BY <1>5 DEF MeaningInv
  <2>1. ASSUME NEW H, Agrees(J, H, chain, n) PROVE Remaining(J, n)' <=> Remaining(J, n)
    BY <1>1, <1>2, <1>3, <2>1 DEF Remaining
  <2>2. \A H : Respected(J, H, chain, n) => Agrees(J, H, chain, n)
    BY RespectedAgrees
  <2> QED BY <2>0, <2>1, <2>2
<1> QED BY <1>1, <1>4, <1>5 DEF MeaningInv

\* What uc would hold on top of the chain agrees with J.
TopAgrees(J, G, uc) ==
  /\ \A a \in Nat \X Vars : Known(chain, Len(chain) - 1, uc, a) # 0
                              => J[a] = G[Known(chain, Len(chain) - 1, uc, a)]
  /\ \A x \in Nat : Valued(chain, Len(chain) - 1, uc, x) # <<>>
                      => G[x] = J[Valued(chain, Len(chain) - 1, uc, x)[1]]

\* The pair allows uc, and uc tells the pair and all that was known before.
Allowed(J, uc) ==
  \A H : /\ \A i \in DOMAIN chain : RespectedBy(J, H, chain[i])
         /\ J[Left] = J[Right]
         => \E G : /\ RespectedBy(J, G, uc)
                   /\ \A i \in DOMAIN chain : RespectedBy(J, G, chain[i])
Telling(J, uc) ==
  \A G : ~uc.lossy /\ TopAgrees(J, G, uc) =>
    J[Left] = J[Right] /\ ~Top.lossy /\ \E H : TopAgrees(J, H, Top)

\* A call that writes the top context adds what the pair says, and no more.
LEMMA WriteKeepsMeaning ==
  ASSUME IInv, OriginsInv, NEW J, MeaningInv(J), NextPair, NEW uc, Write(uc),
         uc.id = Top.id, uc.candidate = Top.candidate, Allowed(J, uc), Telling(J, uc)
  PROVE  MeaningInv(J)'
<1> DEFINE N == Len(chain)
<1>1. /\ chain' = [chain EXCEPT ![N] = uc] /\ UNCHANGED unifying /\ todo' = Tail(todo)
      /\ N \in Nat \ {0} /\ DOMAIN chain = 1..N /\ chain[N] = Top
  BY LookupsAtTop DEF Write, OnTop, IInv
<1>2. /\ Len(chain') = N /\ N \in 1..N /\ chain'[N] = uc
      /\ \A i \in 1..(N - 1) : i \in 1..N /\ i # N /\ chain'[i] = chain[i]
      /\ \A i \in 1..N : i = N \/ i \in 1..(N - 1)
  <2>1. chain' \in Seq(Contexts(uidLast, iidLast) \cup {uc}) /\ Len(chain') = N
    <3> DEFINE S == Contexts(uidLast, iidLast) \cup {uc}
    <3>1. chain \in Seq(S) /\ uc \in S /\ N \in 1..N
      <4>1. chain \in Seq(Contexts(uidLast, iidLast)) /\ Contexts(uidLast, iidLast) \subseteq S
        BY DEF IInv
      <4> HIDE DEF S
      <4>2. chain \in Seq(S)
        BY <4>1, SeqMonotonic
      <4> QED BY <1>1, <4>2 DEF S
    <3> HIDE DEF S
    <3>2. chain' \in Seq(S) /\ Len(chain') = Len(chain)
      BY <1>1, <3>1, ExceptSeq
    <3> QED BY <3>2 DEF S
  <2> HIDE DEF N
  <2>2. N \in 1..N /\ \A i \in 1..N : i = N \/ i \in 1..(N - 1)
    BY <1>1
  <2>3. \A i \in 1..(N - 1) : i \in 1..N /\ i # N
    BY <1>1
  <2>4. chain'[N] = uc /\ \A i \in 1..N : i # N => chain'[i] = chain[i]
    BY <1>1, <2>2
  <2> QED BY <2>1, <2>2, <2>3, <2>4
<1>3. unifying /\ (AllHold(J, todo) <=> J[Left] = J[Right] /\ AllHold(J, todo'))
  BY <1>1, NextPairHolds
<1> HIDE DEF N
<1>4. \A n \in 1..N : Satisfied(J, n)' <=> Satisfied(J, n)
  <2> SUFFICES ASSUME NEW n \in 1..N PROVE Satisfied(J, n)' <=> Satisfied(J, n)
    OBVIOUS
  <2>1. \A i \in 1..n : chain'[i].id = chain[i].id /\ chain'[i].candidate = chain[i].candidate
    BY <1>1, <1>2
  <2>2. n \in Nat /\ n <= Len(chain) /\ Len(chain) \in Nat
    BY <1>1 DEF N
  <2> QED BY <2>1, <2>2, EquationsKept
<1>5. ASSUME NEW n \in 1..N
      PROVE  /\ Satisfied(J, n) => (\E H : Respected(J, H, chain', n)) /\ Remaining(J, n)'
             /\ \A H : Agrees(J, H, chain', n) /\ ~LossyAt(chain', n) /\ Remaining(J, n)'
                       => Satisfied(J, n)
  <2>0. /\ Satisfied(J, n) => (\E H : Respected(J, H, chain, n)) /\ Remaining(J, n)
        /\ \A H : Agrees(J, H, chain, n) /\ ~LossyAt(chain, n) /\ Remaining(J, n) => Satisfied(J, n)
    BY <1>5 DEF MeaningInv, N
  <2>1. CASE n # N
    <3>1. \A i \in 1..n : chain'[i] = chain[i]
      BY <1>1, <1>2, <2>1
    <3>2. /\ \A a : BindingAt(chain', n, a) = BindingAt(chain, n, a)
          /\ \A iid : InstanceAt(chain', n, iid) = InstanceAt(chain, n, iid)
      BY <3>1, LookupsBelow
    <3>3. \A H : /\ Respected(J, H, chain', n) <=> Respected(J, H, chain, n)
                 /\ Agrees(J, H, chain', n) <=> Agrees(J, H, chain, n)
      BY <3>1, <3>2 DEF Respected, Agrees
    <3>4. LossyAt(chain', n) <=> LossyAt(chain, n)
      BY <3>1 DEF LossyAt
    <3>5. Remaining(J, n) /\ Remaining(J, n)'
      BY <1>2, <2>1 DEF Remaining, N
    <3> QED BY <2>0, <3>3, <3>4, <3>5
  <2>2. CASE n = N
    <3>1. Remaining(J, n) <=> AllHold(J, todo)
      BY <1>3, <2>2 DEF Remaining, N
    <3>2. Remaining(J, n)' <=> AllHold(J, todo')
      BY <1>1, <1>2, <1>3, <2>2 DEF Remaining, N
    <3>3. ASSUME NEW H, Respected(J, H, chain, n), J[Left] = J[Right]
          PROVE  \E G : Respected(J, G, chain', n)
      <4>1. \A i \in DOMAIN chain : RespectedBy(J, H, chain[i])
        BY <1>1, <2>2, <3>3 DEF Respected
      <4>2. PICK G : /\ RespectedBy(J, G, uc)
                     /\ \A i \in DOMAIN chain : RespectedBy(J, G, chain[i])
        BY <3>3, <4>1 DEF Allowed
      <4>3. \A i \in 1..n : RespectedBy(J, G, chain'[i])
        BY <1>1, <1>2, <2>2, <4>2
      <4> QED BY <4>3 DEF Respected
    <3>4. ASSUME NEW H, Agrees(J, H, chain', n), ~LossyAt(chain', n), AllHold(J, todo')
          PROVE  Satisfied(J, n)
      <4>1. /\ \A a : BindingAt(chain', n, a) = Known(chain', n - 1, chain'[n], a)
            /\ \A iid : InstanceAt(chain', n, iid) = Valued(chain', n - 1, chain'[n], iid)
        BY <1>1, <2>2, TopFirst
      <4>2. /\ \A a : BindingAt(chain', n - 1, a) = BindingAt(chain, n - 1, a)
            /\ \A iid : InstanceAt(chain', n - 1, iid) = InstanceAt(chain, n - 1, iid)
        <5>1. n - 1 \in Nat /\ \A i \in 1..(n - 1) : chain'[i] = chain[i]
          BY <1>1, <1>2, <2>2
        <5> QED BY <5>1, LookupsBelow
      <4>3. /\ \A a : BindingAt(chain', n, a) = Known(chain, n - 1, uc, a)
            /\ \A iid : InstanceAt(chain', n, iid) = Valued(chain, n - 1, uc, iid)
        BY <1>2, <2>2, <4>1, <4>2 DEF Known, Valued
      <4>4. ~uc.lossy
        BY <1>2, <2>2, <3>4 DEF LossyAt
      <4>5. J[Left] = J[Right] /\ ~Top.lossy /\ \E G : Agrees(J, G, chain, n)
        <5>1. TopAgrees(J, H, uc)
          BY <2>2, <3>4, <4>3 DEF Agrees, TopAgrees, N
        <5>2. J[Left] = J[Right] /\ ~Top.lossy /\ \E G : TopAgrees(J, G, Top)
          BY <4>4, <5>1 DEF Telling
        <5>3. /\ \A a : BindingAt(chain, n, a) = Known(chain, Len(chain) - 1, Top, a)
              /\ \A x : InstanceAt(chain, n, x) = Valued(chain, Len(chain) - 1, Top, x)
          BY <1>1, <2>2, TopFirst DEF N
        <5> QED BY <5>2, <5>3 DEF Agrees, TopAgrees
      <4>6. ~LossyAt(chain, n)
        BY <1>1, <1>2, <2>2, <3>4, <4>5 DEF LossyAt
      <4>7. AllHold(J, todo)
        BY <1>3, <3>4, <4>5
      <4> QED BY <2>0, <3>1, <4>5, <4>6, <4>7
    <3> QED BY <1>3, <2>0, <3>1, <3>2, <3>3, <3>4
  <2> QED BY <2>1, <2>2
<1> QED BY <1>2, <1>4, <1>5 DEF MeaningInv, N

\* What the model's lookups find.
LEMMA FoundAtTop ==
  ASSUME IInv
  PROVE  /\ \A a : Known(chain, Len(chain) - 1, Top, a) = FindBinding(chain, a)
         /\ \A x : Valued(chain, Len(chain) - 1, Top, x) = FindInstance(chain, x)
         /\ Top \in Contexts(uidLast, iidLast)
         /\ \A J, H : Agrees(J, H, chain, Len(chain)) <=> TopAgrees(J, H, Top)
BY LookupsAtTop, TopFirst, TopTyped DEF Agrees, TopAgrees

\* Only the values of the ids that are used matter.
LEMMA RespectFresh ==
  ASSUME IInv, NEW J, NEW H, NEW G, \A x \in 2..iidLast : G[x] = H[x],
         NEW i \in DOMAIN chain, RespectedBy(J, H, chain[i])
  PROVE  RespectedBy(J, G, chain[i])
<1>1. chain[i] \in Contexts(uidLast, iidLast) /\ uidLast \in Nat /\ iidLast \in Nat
  BY DEF IInv
<1>2. /\ \A a \in DOMAIN chain[i].binding : chain[i].binding[a] \in 2..iidLast
      /\ DOMAIN chain[i].instance \subseteq 2..iidLast
  BY <1>1, ContextEntries
<1> QED BY <1>2 DEF RespectedBy

\* Two variables are bound to one id, or one of them to the other's.
LEMMA VarVarMeaning ==
  ASSUME IInv, OriginsInv, NEW J, MeaningInv(J), UnifyVarVar PROVE MeaningInv(J)'
<1> DEFINE m == FindBinding(chain, Right)
           o == FindBinding(chain, Left)
           im == FindInstance(chain, m)
           io == FindInstance(chain, o)
           new == iidLast + 1
           T == (0..uidLast) \X (Occurrences \ Vars)
           n == Len(chain) - 1
<1>1. NextPair /\ Left \in Nat \X Vars /\ Right \in Nat \X Vars
  BY NextPairTyped DEF UnifyVarVar
<1>2. m \in {0} \cup (2..iidLast) /\ o \in {0} \cup (2..iidLast)
  BY FindBindingTyped
<1>3. (im # <<>> => im[1] \in T) /\ (io # <<>> => io[1] \in T)
  BY FindInstanceTyped
<1>4. T \subseteq Terms(uidLast)
  BY DEF Terms
<1>5. uidLast \in Nat /\ iidLast \in Nat /\ iidLast # 0 /\ new \in Nat \ {0} /\ new \notin 2..iidLast
  BY DEF IInv
<1>6. Top \in Contexts(uidLast, iidLast) /\ Top \in Contexts(uidLast, new)
  BY TopTyped
<1>7. \/ Left = Right /\ Recurse(<<>>)
      \/ m = o /\ m # 0 /\ Recurse(<<>>)
      \/ m = 0 /\ o = 0 /\ Write(WithBinding(WithBinding(Top, Right, new), Left, new))
      \/ m = 0 /\ o # 0 /\ Write(WithBinding(Top, Right, o))
      \/ m # 0 /\ o = 0 /\ Write(WithBinding(Top, Left, m))
      \/ /\ m # 0 /\ o # 0 /\ im = <<>> /\ io = <<>> /\ m # o /\ Left # Right
         /\ Write([WithBinding(Top, Left, m) EXCEPT !.lossy = @ \/ Group(o) # {Left}])
      \/ m # 0 /\ o # 0 /\ im = <<>> /\ io # <<>> /\ Write(WithInstance(Top, m, io[1]))
      \/ m # 0 /\ o # 0 /\ im # <<>> /\ io = <<>> /\ Write(WithInstance(Top, o, im[1]))
      \/ m # 0 /\ o # 0 /\ im # <<>> /\ im = io /\ Recurse(<<>>)
      \/ m # 0 /\ o # 0 /\ im # <<>> /\ io # <<>> /\ Recurse(<< <<im[1], io[1]>> >>)
  BY DEF UnifyVarVar, SameVariable
<1>8. /\ \A a : Known(chain, Len(chain) - 1, Top, a) = FindBinding(chain, a)
      /\ \A x : Valued(chain, Len(chain) - 1, Top, x) = FindInstance(chain, x)
      /\ \A H : Agrees(J, H, chain, Len(chain)) <=> TopAgrees(J, H, Top)
  BY FoundAtTop
<1>9. chain[Len(chain)] = Top /\ Len(chain) \in DOMAIN chain
  BY LookupsAtTop DEF IInv
<1>10. ASSUME NEW H, TopAgrees(J, H, Top)
       PROVE  /\ m # 0 => J[Right] = H[m]
              /\ o # 0 => J[Left] = H[o]
              /\ im # <<>> => H[m] = J[im[1]]
              /\ io # <<>> => H[o] = J[io[1]]
  BY <1>1, <1>2, <1>5, <1>8, <1>10 DEF TopAgrees
<1>11. ASSUME NEW H, \A i \in DOMAIN chain : RespectedBy(J, H, chain[i])
       PROVE  TopAgrees(J, H, Top) /\ RespectedBy(J, H, Top)
  <2>1. Respected(J, H, chain, Len(chain)) /\ Len(chain) \in 1..Len(chain)
    BY <1>9, <1>11 DEF Respected, IInv
  <2> QED BY <1>8, <1>9, <1>11, <2>1, RespectedAgrees
<1> HIDE DEF m, o, im, io, T, new
<1>12. ASSUME Recurse(<<>>),
              Left = Right \/ (m = o /\ m # 0) \/ (m # 0 /\ o # 0 /\ im # <<>> /\ im = io)
       PROVE  MeaningInv(J)'
  <2>1. <<>> \in Seq(Pairs(uidLast)) /\ AllHold(J, <<>>)
    BY DEF AllHold
  <2>2. \A H : Agrees(J, H, chain, Len(chain)) => (J[Left] = J[Right] <=> AllHold(J, <<>>))
    BY <1>8, <1>10, <1>12, <2>1
  <2> QED BY <1>1, <1>12, <2>1, <2>2, RecurseKeepsMeaning
<1>13. CASE m # 0 /\ o # 0 /\ im # <<>> /\ io # <<>> /\ Recurse(<< <<im[1], io[1]>> >>)
  <2> DEFINE ps == << <<im[1], io[1]>> >>
  <2>1. ps \in Seq(Pairs(uidLast))
    BY <1>3, <1>4, <1>13 DEF Pairs
  <2>2. AllHold(J, ps) <=> J[im[1]] = J[io[1]]
    BY DEF AllHold
  <2>3. Recurse(ps)
    BY <1>13
  <2> HIDE DEF ps
  <2>4. \A H : Agrees(J, H, chain, Len(chain)) => (J[Left] = J[Right] <=> AllHold(J, ps))
    BY <1>8, <1>10, <1>13, <2>2
  <2> QED BY <1>1, <2>1, <2>3, <2>4, RecurseKeepsMeaning
<1>14. CASE m = 0 /\ o = 0 /\ Write(WithBinding(WithBinding(Top, Right, new), Left, new))
  <2> DEFINE u1 == WithBinding(Top, Right, new)
             uc == WithBinding(u1, Left, new)
  <2>1. u1 \in Contexts(uidLast, new)
    <3>1. new \in 2..new
      BY <1>5 DEF new
    <3> QED BY <1>1, <1>5, <1>6, <3>1, WithBindingTyped
  <2>2. Write(uc)
    BY <1>14
  <2>3. AddsBinding(u1, Top, Right, new)
    BY <1>5, <1>6, WritesAdd
  <2> HIDE DEF u1
  <2>4. AddsBinding(uc, u1, Left, new)
    BY <1>5, <2>1, WritesAdd
  <2> HIDE DEF uc
  <2>5. Allowed(J, uc)
    <3> SUFFICES ASSUME NEW H, \A i \in DOMAIN chain : RespectedBy(J, H, chain[i]), J[Left] = J[Right]
                 PROVE  \E G : RespectedBy(J, G, uc) /\ \A i \in DOMAIN chain : RespectedBy(J, G, chain[i])
      BY DEF Allowed
    <3> DEFINE G == [x \in Nat |-> IF x = new THEN J[Left] ELSE H[x]]
    <3>1. (\A x \in 2..iidLast : G[x] = H[x]) /\ G[new] = J[Left]
      BY <1>5
    <3> HIDE DEF G
    <3>2. \A i \in DOMAIN chain : RespectedBy(J, G, chain[i])
      BY <3>1, RespectFresh
    <3>3. RespectedBy(J, G, Top)
      BY <1>9, <3>2
    <3>4. RespectedBy(J, G, uc)
      BY <2>3, <2>4, <3>1, <3>3 DEF RespectedBy, AddsBinding
    <3> QED BY <3>2, <3>4
  <2>6. Telling(J, uc)
    <3> SUFFICES ASSUME NEW G, ~uc.lossy, TopAgrees(J, G, uc)
                 PROVE  J[Left] = J[Right] /\ ~Top.lossy /\ TopAgrees(J, G, Top)
      BY DEF Telling
    <3>1. /\ \A a : Known(chain, Len(chain) - 1, uc, a) =
                      IF a \in {Left, Right} THEN new ELSE FindBinding(chain, a)
          /\ \A x : Valued(chain, Len(chain) - 1, uc, x) = FindInstance(chain, x)
      <4>1. /\ \A a : Known(chain, Len(chain) - 1, u1, a) =
                        IF a = Right THEN new ELSE FindBinding(chain, a)
            /\ \A x : Valued(chain, Len(chain) - 1, u1, x) = FindInstance(chain, x)
        BY <1>8, <2>3, AddedIsFound
      <4>2. /\ \A a : Known(chain, Len(chain) - 1, uc, a) =
                        IF a = Left THEN new ELSE Known(chain, Len(chain) - 1, u1, a)
            /\ \A x : Valued(chain, Len(chain) - 1, uc, x) = Valued(chain, Len(chain) - 1, u1, x)
        BY <2>4, AddedIsFound
      <4> QED BY <4>1, <4>2
    <3>2. J[Left] = G[new] /\ J[Right] = G[new]
      BY <1>1, <1>5, <3>1 DEF TopAgrees
    <3>3. TopAgrees(J, G, Top)
      BY <1>8, <1>14, <3>1 DEF TopAgrees, m, o
    <3>4. ~Top.lossy
      BY <2>3, <2>4 DEF AddsBinding
    <3> QED BY <3>2, <3>3, <3>4
  <2>7. uc.id = Top.id /\ uc.candidate = Top.candidate
    BY <2>3, <2>4 DEF AddsBinding
  <2> QED BY <1>1, <2>2, <2>5, <2>6, <2>7, WriteKeepsMeaning
\* One variable gets the id of the other.
<1>15. ASSUME NEW a \in {Left, Right}, NEW b \in {Left, Right}, a # b,
              FindBinding(chain, a) = 0, FindBinding(chain, b) # 0,
              Write(WithBinding(Top, a, FindBinding(chain, b)))
       PROVE  MeaningInv(J)'
  <2> DEFINE iid == FindBinding(chain, b)
             uc == WithBinding(Top, a, iid)
  <2>1. Write(uc) /\ AddsBinding(uc, Top, a, iid)
    BY <1>5, <1>6, <1>15, WritesAdd
  <2>2. iid \in 2..iidLast /\ iid # 0 /\ a \in Nat \X Vars /\ b \in Nat \X Vars
    BY <1>1, <1>15, FindBindingTyped
  <2> HIDE DEF uc
  <2>3. Allowed(J, uc)
    <3> SUFFICES ASSUME NEW H, \A i \in DOMAIN chain : RespectedBy(J, H, chain[i]), J[Left] = J[Right]
                 PROVE  RespectedBy(J, H, uc)
      BY DEF Allowed
    <3>1. TopAgrees(J, H, Top) /\ RespectedBy(J, H, Top)
      BY <1>11
    <3>2. J[b] = H[iid]
      BY <1>8, <2>2, <3>1 DEF TopAgrees
    <3>3. J[a] = H[iid]
      BY <1>15, <3>2
    <3> QED BY <2>1, <3>1, <3>3 DEF RespectedBy, AddsBinding
  <2>4. Telling(J, uc)
    <3> SUFFICES ASSUME NEW G, ~uc.lossy, TopAgrees(J, G, uc)
                 PROVE  J[Left] = J[Right] /\ ~Top.lossy /\ TopAgrees(J, G, Top)
      BY DEF Telling
    <3>1. /\ \A c : Known(chain, Len(chain) - 1, uc, c) =
                      IF c = a THEN iid ELSE FindBinding(chain, c)
          /\ \A x : Valued(chain, Len(chain) - 1, uc, x) = FindInstance(chain, x)
      BY <1>8, <2>1, AddedIsFound
    <3>2. J[a] = G[iid] /\ J[b] = G[iid]
      BY <1>15, <2>2, <3>1 DEF TopAgrees
    <3>3. TopAgrees(J, G, Top)
      BY <1>8, <1>15, <3>1 DEF TopAgrees
    <3>4. ~Top.lossy
      BY <2>1 DEF AddsBinding
    <3> QED BY <1>15, <3>2, <3>3, <3>4
  <2> QED BY <1>1, <2>1, <2>3, <2>4, WriteKeepsMeaning DEF AddsBinding
\* One variable's id gets the value of the other's.
<1>16. ASSUME NEW a \in {Left, Right}, NEW b \in {Left, Right}, a # b,
              FindBinding(chain, a) # 0, FindBinding(chain, b) # 0,
              FindInstance(chain, FindBinding(chain, a)) = <<>>,
              FindInstance(chain, FindBinding(chain, b)) # <<>>,
              Write(WithInstance(Top, FindBinding(chain, a),
                                 FindInstance(chain, FindBinding(chain, b))[1]))
       PROVE  MeaningInv(J)'
  <2> DEFINE iid == FindBinding(chain, a)
             jid == FindBinding(chain, b)
             t == FindInstance(chain, jid)[1]
             uc == WithInstance(Top, iid, t)
  <2>1. Write(uc) /\ AddsInstance(uc, Top, iid, t)
    BY <1>5, <1>6, <1>16, WritesAdd
  <2>2. /\ iid \in 2..iidLast /\ jid \in 2..iidLast /\ iid # 0 /\ jid # 0 /\ iid # jid
        /\ iid \in Nat /\ jid \in Nat
        /\ a \in Nat \X Vars /\ b \in Nat \X Vars
    BY <1>1, <1>5, <1>16, FindBindingTyped
  <2> HIDE DEF uc
  <2>3. Allowed(J, uc)
    <3> SUFFICES ASSUME NEW H, \A i \in DOMAIN chain : RespectedBy(J, H, chain[i]), J[Left] = J[Right]
                 PROVE  RespectedBy(J, H, uc)
      BY DEF Allowed
    <3>1. TopAgrees(J, H, Top) /\ RespectedBy(J, H, Top)
      BY <1>11
    <3>2. J[a] = H[iid] /\ J[b] = H[jid] /\ H[jid] = J[t]
      BY <1>8, <1>16, <2>2, <3>1 DEF TopAgrees
    <3>3. H[iid] = J[t]
      BY <1>16, <3>2
    <3> QED BY <2>1, <3>1, <3>3 DEF RespectedBy, AddsInstance
  <2>4. Telling(J, uc)
    <3> SUFFICES ASSUME NEW G, ~uc.lossy, TopAgrees(J, G, uc)
                 PROVE  J[Left] = J[Right] /\ ~Top.lossy /\ TopAgrees(J, G, Top)
      BY DEF Telling
    <3>1. /\ \A c : Known(chain, Len(chain) - 1, uc, c) = FindBinding(chain, c)
          /\ \A x : Valued(chain, Len(chain) - 1, uc, x) =
                      IF x = iid THEN <<t>> ELSE FindInstance(chain, x)
      <4> DEFINE N == Len(chain) - 1
      <4> HIDE DEF iid, jid, t, N
      <4>1. AddsInstance(uc, Top, iid, t) =>
              /\ \A c : Known(chain, N, uc, c) = Known(chain, N, Top, c)
              /\ \A x : Valued(chain, N, uc, x) = IF x = iid THEN <<t>> ELSE Valued(chain, N, Top, x)
        BY AddedIsFound
      <4> QED BY <1>8, <2>1, <4>1 DEF N
    <3> HIDE DEF t
    <3>2. J[a] = G[iid] /\ J[b] = G[jid] /\ G[iid] = J[t]
      <4>1. <<t>>[1] = t /\ <<t>> # <<>>
        OBVIOUS
      <4> QED BY <2>2, <3>1, <4>1 DEF TopAgrees
    <3>3. G[jid] = J[t]
      BY <1>16, <2>2, <3>1 DEF TopAgrees, t
    <3>4. TopAgrees(J, G, Top)
      BY <1>8, <1>16, <3>1 DEF TopAgrees
    <3>5. ~Top.lossy
      BY <2>1 DEF AddsInstance
    <3> QED BY <1>16, <3>2, <3>3, <3>4, <3>5
  <2> QED BY <1>1, <2>1, <2>3, <2>4, WriteKeepsMeaning DEF AddsInstance
\* The left variable moves to the id of the right one.
<1>17. CASE /\ m # 0 /\ o # 0 /\ im = <<>> /\ io = <<>> /\ m # o /\ Left # Right
            /\ Write([WithBinding(Top, Left, m) EXCEPT !.lossy = @ \/ Group(o) # {Left}])
  <2> DEFINE u1 == WithBinding(Top, Left, m)
             uc == [u1 EXCEPT !.lossy = @ \/ Group(o) # {Left}]
  <2>1. Write(uc)
    BY <1>17
  <2>2. u1 \in Contexts(uidLast, iidLast)
    BY <1>1, <1>2, <1>5, <1>6, <1>17, WithBindingTyped
  <2>3. AddsBinding(u1, Top, Left, m)
    BY <1>5, <1>6, WritesAdd
  <2> HIDE DEF u1
  <2>4. /\ uc.id = u1.id /\ uc.candidate = u1.candidate /\ uc.binding = u1.binding
        /\ uc.instance = u1.instance
        /\ uc.lossy <=> u1.lossy \/ Group(o) # {Left}
    BY <2>2 DEF Contexts
  <2> HIDE DEF uc
  <2>5. Allowed(J, uc)
    <3> SUFFICES ASSUME NEW H, \A i \in DOMAIN chain : RespectedBy(J, H, chain[i]), J[Left] = J[Right]
                 PROVE  RespectedBy(J, H, uc)
      BY DEF Allowed
    <3>1. TopAgrees(J, H, Top) /\ RespectedBy(J, H, Top)
      BY <1>11
    <3>2. J[Left] = H[m]
      BY <1>10, <1>17, <3>1
    <3> QED BY <2>3, <2>4, <3>1, <3>2 DEF RespectedBy, AddsBinding
  <2>6. Telling(J, uc)
    <3> SUFFICES ASSUME NEW G, ~uc.lossy, TopAgrees(J, G, uc)
                 PROVE  J[Left] = J[Right] /\ ~Top.lossy /\ \E H : TopAgrees(J, H, Top)
      BY DEF Telling
    <3>1. /\ \A c : Known(chain, Len(chain) - 1, uc, c) =
                      IF c = Left THEN m ELSE FindBinding(chain, c)
          /\ \A x : Valued(chain, Len(chain) - 1, uc, x) = FindInstance(chain, x)
      <4>1. /\ \A c : Known(chain, Len(chain) - 1, u1, c) =
                        IF c = Left THEN m ELSE FindBinding(chain, c)
            /\ \A x : Valued(chain, Len(chain) - 1, u1, x) = FindInstance(chain, x)
        BY <1>8, <2>3, AddedIsFound
      <4> QED BY <2>4, <4>1 DEF Known, Valued
    <3>2. J[Left] = G[m] /\ J[Right] = G[m]
      BY <1>1, <1>17, <3>1 DEF TopAgrees, m
    <3>3. ~Top.lossy /\ Group(o) = {Left}
      BY <2>3, <2>4 DEF AddsBinding
    <3>4. ASSUME NEW c, FindBinding(chain, c) = o PROVE c = Left
      <4>1. \E i \in DOMAIN chain : c \in DOMAIN chain[i].binding
        BY <1>17, <3>4 DEF FindBinding
      <4> QED BY <3>3, <3>4, <4>1 DEF Group
    <3> DEFINE H == [x \in Nat |-> IF x = o THEN J[Left] ELSE G[x]]
    <3>5. H[o] = J[Left] /\ \A x \in Nat : x # o => H[x] = G[x]
      BY <1>2, <1>5
    <3> HIDE DEF H
    <3>6. \A c : FindBinding(chain, c) \in Nat
      BY <1>5, FindBindingTyped
    <3>7. TopAgrees(J, H, Top)
      <4>1. ASSUME NEW c \in Nat \X Vars, FindBinding(chain, c) # 0
            PROVE  J[c] = H[FindBinding(chain, c)]
        <5>1. CASE c = Left
          BY <3>5, <5>1 DEF o
        <5>2. CASE c # Left
          <6>1. FindBinding(chain, c) # o /\ J[c] = G[FindBinding(chain, c)]
            BY <3>1, <3>4, <4>1, <5>2 DEF TopAgrees
          <6> QED BY <3>5, <3>6, <6>1
        <5> QED BY <5>1, <5>2
      <4>2. ASSUME NEW x \in Nat, FindInstance(chain, x) # <<>>
            PROVE  H[x] = J[FindInstance(chain, x)[1]]
        <5>1. x # o
          BY <1>17, <4>2 DEF io
        <5> QED BY <3>1, <3>5, <4>2, <5>1 DEF TopAgrees
      <4> QED BY <1>8, <4>1, <4>2 DEF TopAgrees
    <3> QED BY <3>2, <3>3, <3>7
  <2> QED BY <1>1, <2>1, <2>3, <2>4, <2>5, <2>6, WriteKeepsMeaning DEF AddsBinding
<1>18. CASE m = 0 /\ o # 0 /\ Write(WithBinding(Top, Right, o))
  <2>1. Right # Left
    BY <1>18 DEF m, o
  <2> QED BY <1>15, <1>18, <2>1 DEF m, o
<1>19. CASE m # 0 /\ o = 0 /\ Write(WithBinding(Top, Left, m))
  <2>1. Right # Left
    BY <1>19 DEF m, o
  <2> QED BY <1>15, <1>19, <2>1 DEF m, o
<1>20. CASE m # 0 /\ o # 0 /\ im = <<>> /\ io # <<>> /\ Write(WithInstance(Top, m, io[1]))
  <2>1. Right # Left
    BY <1>20 DEF m, o, im, io
  <2> QED BY <1>16, <1>20, <2>1 DEF m, o, im, io
<1>21. CASE m # 0 /\ o # 0 /\ im # <<>> /\ io = <<>> /\ Write(WithInstance(Top, o, im[1]))
  <2>1. Right # Left
    BY <1>21 DEF m, o, im, io
  <2> QED BY <1>16, <1>21, <2>1 DEF m, o, im, io
<1> QED BY <1>7, <1>12, <1>13, <1>14, <1>17, <1>18, <1>19, <1>20, <1>21

\* A variable gets a value.
LEMMA VarKnownMeaning ==
  ASSUME IInv, OriginsInv, NEW J, MeaningInv(J), UnifyVarKnown PROVE MeaningInv(J)'
<1> DEFINE v == IF Compound(Left) THEN Right ELSE Left
           t == IF Compound(Left) THEN Left ELSE Right
           iid == FindBinding(chain, v)
           old == FindInstance(chain, iid)
           new == iidLast + 1
           T == (0..uidLast) \X (Occurrences \ Vars)
<1>1. NextPair /\ v \in Nat \X Vars /\ t \in T
  <2>1. NextPair /\ Compound(Left) # Compound(Right)
    BY DEF UnifyVarKnown
  <2>2. Compound(Left) \in BOOLEAN /\ Compound(Right) \in BOOLEAN
    BY DEF Compound
  <2> QED BY <2>1, <2>2, NextPairTyped
<1>2. J[Left] = J[Right] <=> J[v] = J[t]
  OBVIOUS
<1>3. iid \in {0} \cup (2..iidLast) /\ (old # <<>> => old[1] \in T)
  BY FindBindingTyped, FindInstanceTyped
<1>4. T \subseteq Terms(uidLast)
  BY DEF Terms
<1>5. /\ uidLast \in Nat /\ iidLast \in Nat /\ iidLast # 0 /\ new \in Nat \ {0}
      /\ new \notin 2..iidLast /\ new \in 2..new
  BY DEF IInv
<1>6. Top \in Contexts(uidLast, iidLast) /\ Top \in Contexts(uidLast, new)
  BY TopTyped
<1>7. \/ iid # 0 /\ old # <<>> /\ Recurse(<< <<old[1], t>> >>)
      \/ iid # 0 /\ old = <<>> /\ Write(WithInstance(Top, iid, t))
      \/ iid = 0 /\ Write(WithInstance(WithBinding(Top, v, new), new, t))
  <2>1. iid = 0 => old = <<>>
    <3>1. ASSUME NEW i \in DOMAIN chain PROVE 0 \notin DOMAIN chain[i].instance
      <4>1. chain[i] \in Contexts(uidLast, iidLast)
        BY DEF IInv
      <4>2. DOMAIN chain[i].instance \subseteq 2..iidLast
        BY <1>5, <4>1, ContextEntries
      <4> QED BY <1>5, <4>2
    <3>2. FindInstance(chain, 0) = <<>>
      BY <3>1 DEF FindInstance
    <3> QED BY <3>2
  <2> QED BY <2>1 DEF UnifyVarKnown
<1>8. /\ \A a : Known(chain, Len(chain) - 1, Top, a) = FindBinding(chain, a)
      /\ \A x : Valued(chain, Len(chain) - 1, Top, x) = FindInstance(chain, x)
      /\ \A H : Agrees(J, H, chain, Len(chain)) <=> TopAgrees(J, H, Top)
  BY FoundAtTop
<1>9. chain[Len(chain)] = Top /\ Len(chain) \in DOMAIN chain
  BY LookupsAtTop DEF IInv
<1>10. ASSUME NEW H, TopAgrees(J, H, Top)
       PROVE  (iid # 0 => J[v] = H[iid]) /\ (old # <<>> => H[iid] = J[old[1]])
  BY <1>1, <1>3, <1>5, <1>8, <1>10 DEF TopAgrees
<1>11. ASSUME NEW H, \A i \in DOMAIN chain : RespectedBy(J, H, chain[i])
       PROVE  TopAgrees(J, H, Top) /\ RespectedBy(J, H, Top)
  <2>1. Respected(J, H, chain, Len(chain)) /\ Len(chain) \in 1..Len(chain)
    BY <1>9, <1>11 DEF Respected, IInv
  <2> QED BY <1>8, <1>9, <1>11, <2>1, RespectedAgrees
<1> HIDE DEF v, t, iid, old, T, new
<1>12. CASE iid # 0 /\ old # <<>> /\ Recurse(<< <<old[1], t>> >>)
  <2> DEFINE ps == << <<old[1], t>> >>
  <2>1. ps \in Seq(Pairs(uidLast)) /\ Recurse(ps)
    BY <1>1, <1>3, <1>4, <1>12 DEF Pairs
  <2>2. AllHold(J, ps) <=> J[old[1]] = J[t]
    BY DEF AllHold
  <2> HIDE DEF ps
  <2>3. \A H : Agrees(J, H, chain, Len(chain)) => (J[Left] = J[Right] <=> AllHold(J, ps))
    BY <1>2, <1>8, <1>10, <1>12, <2>2
  <2> QED BY <1>1, <2>1, <2>3, RecurseKeepsMeaning
<1>13. CASE iid # 0 /\ old = <<>> /\ Write(WithInstance(Top, iid, t))
  <2> DEFINE uc == WithInstance(Top, iid, t)
             N == Len(chain) - 1
  <2>1. Write(uc) /\ AddsInstance(uc, Top, iid, t)
    BY <1>5, <1>6, <1>13, WritesAdd
  <2> HIDE DEF uc, N
  <2>2. /\ \A c : Known(chain, N, uc, c) = FindBinding(chain, c)
        /\ \A x : Valued(chain, N, uc, x) = IF x = iid THEN <<t>> ELSE FindInstance(chain, x)
    <3>1. AddsInstance(uc, Top, iid, t) =>
            /\ \A c : Known(chain, N, uc, c) = Known(chain, N, Top, c)
            /\ \A x : Valued(chain, N, uc, x) = IF x = iid THEN <<t>> ELSE Valued(chain, N, Top, x)
      BY AddedIsFound
    <3> QED BY <1>8, <2>1, <3>1 DEF N
  <2>3. Allowed(J, uc)
    <3> SUFFICES ASSUME NEW H, \A i \in DOMAIN chain : RespectedBy(J, H, chain[i]), J[Left] = J[Right]
                 PROVE  RespectedBy(J, H, uc)
      BY DEF Allowed
    <3>1. TopAgrees(J, H, Top) /\ RespectedBy(J, H, Top)
      BY <1>11
    <3>2. H[iid] = J[t]
      BY <1>2, <1>10, <1>13, <3>1
    <3> QED BY <2>1, <3>1, <3>2 DEF RespectedBy, AddsInstance
  <2>4. Telling(J, uc)
    <3> SUFFICES ASSUME NEW G, ~uc.lossy, TopAgrees(J, G, uc)
                 PROVE  J[Left] = J[Right] /\ ~Top.lossy /\ TopAgrees(J, G, Top)
      BY DEF Telling
    <3>1. J[v] = G[iid] /\ G[iid] = J[t]
      <4>1. <<t>>[1] = t /\ <<t>> # <<>> /\ iid \in Nat
        BY <1>3, <1>5
      <4>2. J[v] = G[iid]
        BY <1>1, <1>13, <2>2 DEF TopAgrees, iid, N
      <4> QED BY <2>2, <4>1, <4>2 DEF TopAgrees, N
    <3>2. TopAgrees(J, G, Top)
      BY <1>8, <1>13, <2>2 DEF TopAgrees, N, old
    <3>3. ~Top.lossy
      BY <2>1 DEF AddsInstance
    <3> QED BY <1>2, <3>1, <3>2, <3>3
  <2> QED BY <1>1, <2>1, <2>3, <2>4, WriteKeepsMeaning DEF AddsInstance
<1>14. CASE iid = 0 /\ Write(WithInstance(WithBinding(Top, v, new), new, t))
  <2> DEFINE u1 == WithBinding(Top, v, new)
             uc == WithInstance(u1, new, t)
             N == Len(chain) - 1
  <2>1. u1 \in Contexts(uidLast, new)
    BY <1>1, <1>5, <1>6, WithBindingTyped
  <2>2. Write(uc) /\ AddsBinding(u1, Top, v, new)
    BY <1>5, <1>6, <1>14, WritesAdd
  <2> HIDE DEF u1
  <2>3. AddsInstance(uc, u1, new, t)
    BY <1>5, <2>1, WritesAdd
  <2> HIDE DEF uc, N
  <2>4. /\ \A c : Known(chain, N, uc, c) = IF c = v THEN new ELSE FindBinding(chain, c)
        /\ \A x : Valued(chain, N, uc, x) = IF x = new THEN <<t>> ELSE FindInstance(chain, x)
    <3>1. AddsBinding(u1, Top, v, new) =>
            /\ \A c : Known(chain, N, u1, c) = IF c = v THEN new ELSE Known(chain, N, Top, c)
            /\ \A x : Valued(chain, N, u1, x) = Valued(chain, N, Top, x)
      BY AddedIsFound
    <3>2. AddsInstance(uc, u1, new, t) =>
            /\ \A c : Known(chain, N, uc, c) = Known(chain, N, u1, c)
            /\ \A x : Valued(chain, N, uc, x) = IF x = new THEN <<t>> ELSE Valued(chain, N, u1, x)
      BY AddedIsFound
    <3>3. /\ \A c : Known(chain, N, Top, c) = FindBinding(chain, c)
          /\ \A x : Valued(chain, N, Top, x) = FindInstance(chain, x)
      BY <1>8 DEF N
    <3> QED BY <2>2, <2>3, <3>1, <3>2, <3>3
  <2>5. Allowed(J, uc)
    <3> SUFFICES ASSUME NEW H, \A i \in DOMAIN chain : RespectedBy(J, H, chain[i]), J[Left] = J[Right]
                 PROVE  \E G : RespectedBy(J, G, uc) /\ \A i \in DOMAIN chain : RespectedBy(J, G, chain[i])
      BY DEF Allowed
    <3> DEFINE G == [x \in Nat |-> IF x = new THEN J[t] ELSE H[x]]
    <3>1. (\A x \in 2..iidLast : G[x] = H[x]) /\ G[new] = J[t]
      BY <1>5
    <3> HIDE DEF G
    <3>2. \A i \in DOMAIN chain : RespectedBy(J, G, chain[i])
      BY <3>1, RespectFresh
    <3>3. RespectedBy(J, G, Top)
      BY <1>9, <3>2
    <3>4. RespectedBy(J, G, uc)
      BY <1>2, <2>2, <2>3, <3>1, <3>3 DEF RespectedBy, AddsBinding, AddsInstance
    <3> QED BY <3>2, <3>4
  <2>6. Telling(J, uc)
    <3> SUFFICES ASSUME NEW G, ~uc.lossy, TopAgrees(J, G, uc)
                 PROVE  J[Left] = J[Right] /\ ~Top.lossy /\ TopAgrees(J, G, Top)
      BY DEF Telling
    <3>1. J[v] = G[new] /\ G[new] = J[t]
      <4>1. <<t>>[1] = t /\ <<t>> # <<>> /\ new \in Nat /\ new # 0
        BY <1>5
      <4>2. Valued(chain, N, uc, new) = <<t>> /\ Known(chain, N, uc, v) = new
        BY <2>4
      <4> QED BY <1>1, <4>1, <4>2 DEF TopAgrees, N
    <3>2. FindInstance(chain, new) = <<>>
      <4>1. ASSUME NEW i \in DOMAIN chain PROVE new \notin DOMAIN chain[i].instance
        <5>1. chain[i] \in Contexts(uidLast, iidLast)
          BY DEF IInv
        <5>2. DOMAIN chain[i].instance \subseteq 2..iidLast
          BY <1>5, <5>1, ContextEntries
        <5> QED BY <1>5, <5>2
      <4> QED BY <4>1 DEF FindInstance
    <3>3. \A c \in Nat \X Vars : FindBinding(chain, c) # 0 => J[c] = G[FindBinding(chain, c)]
      BY <1>14, <2>4 DEF TopAgrees, N, iid
    <3>4. \A x \in Nat : FindInstance(chain, x) # <<>> => G[x] = J[FindInstance(chain, x)[1]]
      BY <2>4, <3>2 DEF TopAgrees, N
    <3>5. TopAgrees(J, G, Top)
      BY <1>8, <3>3, <3>4 DEF TopAgrees
    <3>6. ~Top.lossy
      BY <2>2, <2>3 DEF AddsBinding, AddsInstance
    <3> QED BY <1>2, <3>1, <3>5, <3>6
  <2>7. uc.id = Top.id /\ uc.candidate = Top.candidate
    BY <2>2, <2>3 DEF AddsBinding, AddsInstance
  <2> QED BY <1>1, <2>2, <2>5, <2>6, <2>7, WriteKeepsMeaning
<1> QED BY <1>7, <1>12, <1>13, <1>14

\* The same object in one scope is one term; in two, its arguments are not compared.
LEMMA IdenticalMeaning ==
  ASSUME IInv, OriginsInv, NEW J, Reading(J), MeaningInv(J), UnifyIdentical PROVE MeaningInv(J)'
<1> DEFINE lost == Top.lossy \/ (Left[1] # Right[1] /\ Term[Left[2]].args # <<>>)
           uc == [Top EXCEPT !.lossy = lost]
<1>1. NextPair /\ Write(uc) /\ Compound(Left) /\ Left[2] = Right[2]
  BY DEF UnifyIdentical
<1>2. Top \in Contexts(uidLast, iidLast)
  BY TopTyped
<1>3. /\ uc.id = Top.id /\ uc.candidate = Top.candidate /\ uc.binding = Top.binding
      /\ uc.instance = Top.instance /\ uc.lossy = lost
  BY <1>2 DEF Contexts
<1> HIDE DEF uc
<1>4. Allowed(J, uc)
  <2> SUFFICES ASSUME NEW H, \A i \in DOMAIN chain : RespectedBy(J, H, chain[i])
               PROVE  RespectedBy(J, H, uc)
    BY DEF Allowed
  <2>1. RespectedBy(J, H, Top)
    BY LookupsAtTop DEF IInv
  <2> QED BY <1>3, <2>1 DEF RespectedBy
<1>5. ASSUME ~lost PROVE J[Left] = J[Right]
  <2>1. /\ Left \in Terms(uidLast) /\ Right \in Terms(uidLast)
    BY <1>1, NextPairTyped
  <2>2. Left = <<Left[1], Left[2]>> /\ Right = <<Right[1], Right[2]>>
        /\ Left \in Scoped /\ Right \in Scoped
    BY <2>1 DEF Terms, IInv, Scoped
  <2>3. CASE Left[1] = Right[1]
    BY <1>1, <2>2, <2>3
  <2>4. CASE Term[Left[2]].args = <<>>
    <3>1. SameShape(Left[2], Right[2]) /\ Len(Term[Left[2]].args) = 0 /\ Compound(Right)
      BY <1>1, <2>4 DEF SameShape, Compound
    <3> QED BY <1>1, <2>2, <3>1 DEF Reading
  <2> QED BY <1>5, <2>3, <2>4
<1>6. Telling(J, uc)
  <2> SUFFICES ASSUME NEW G, ~uc.lossy, TopAgrees(J, G, uc)
               PROVE  J[Left] = J[Right] /\ ~Top.lossy /\ TopAgrees(J, G, Top)
    BY DEF Telling
  <2>1. TopAgrees(J, G, Top)
    BY <1>3 DEF TopAgrees, Known, Valued
  <2> QED BY <1>3, <1>5, <2>1
<1> QED BY <1>1, <1>3, <1>4, <1>6, WriteKeepsMeaning

\* Equal compounds are those with equal arguments.
LEMMA DescendMeaning ==
  ASSUME IInv, NEW J, Reading(J), MeaningInv(J), NEW kind, Descend(kind) PROVE MeaningInv(J)'
<1> DEFINE ps == Arguments(Right, Left)
           l == Term[Left[2]].args
           r == Term[Right[2]].args
<1>1. /\ NextPair /\ Recurse(ps) /\ SameShape(Left[2], Right[2]) /\ Compound(Left) /\ Compound(Right)
  BY DEF Descend
<1>2. Left \in Terms(uidLast) /\ Right \in Terms(uidLast)
  BY <1>1, NextPairTyped
<1>3. l \in Seq(Occurrences) /\ r \in Seq(Occurrences) /\ Len(l) = Len(r)
  BY <1>1, <1>2, BindingsAssumption DEF SameShape, Terms
<1>4. Left[1] \in 0..uidLast /\ Right[1] \in 0..uidLast /\ Left \in Scoped /\ Right \in Scoped
  BY <1>2 DEF Terms, Scoped, IInv
<1>5. ps = [i \in 1..Len(r) |-> << <<Right[1], r[i]>>, <<Left[1], l[i]>> >>]
  BY DEF Arguments
<1>6. J[Left] = J[Right] <=> \A i \in 1..Len(l) : J[<<Left[1], l[i]>>] = J[<<Right[1], r[i]>>]
  BY <1>1, <1>4 DEF Reading
<1> HIDE DEF l, r, ps
<1>7. AllHold(J, ps) <=> \A i \in 1..Len(r) : J[<<Right[1], r[i]>>] = J[<<Left[1], l[i]>>]
  BY <1>5 DEF AllHold
<1>8. J[Left] = J[Right] <=> AllHold(J, ps)
  BY <1>3, <1>6, <1>7
<1>9. ps \in Seq(Pairs(uidLast))
  <2> DEFINE P == Pairs(uidLast)
             e(i) == << <<Right[1], r[i]>>, <<Left[1], l[i]>> >>
  <2>1. \A i \in 1..Len(r) : e(i) \in P
    BY <1>3, <1>4 DEF Pairs, Terms
  <2>2. ps = [i \in 1..Len(r) |-> e(i)] /\ Len(r) \in Nat
    BY <1>3, <1>5
  <2> HIDE DEF P, e
  <2>3. [i \in 1..Len(r) |-> e(i)] \in Seq(P)
    BY <2>1, <2>2
  <2> QED BY <2>2, <2>3 DEF P
<1> QED BY <1>1, <1>8, <1>9, RecurseKeepsMeaning

\* A candidate adds one equation, which is all that is left to unify.
LEMMA TryMeaning ==
  ASSUME IInv, OriginsInv, NEW J, MeaningInv(J), NEW i \in DOMAIN branch, NEW c \in branch[i], Try(c)
  PROVE  MeaningInv(J)' /\ OriginsInv'
<1> DEFINE N == Len(chain)
           x == Context(uidLast + 1, c)
<1>1. c \in Candidates
  <2>1. branch \in Seq(SUBSET Candidates)
    BY BindingsAssumption DEF IInv
  <2> QED BY <2>1
<1>2. /\ c.scope \in 1..N /\ N \in Nat /\ N # 0 /\ ~unifying /\ unifying' /\ uidLast' = uidLast + 1
      /\ chain' = Append(chain, x)
      /\ todo' = << << <<Origin(c), c.left>>,
                       <<IF c.head THEN uidLast + 1 ELSE Origin(c), c.right>> >> >>
  BY DEF Try, IInv
<1>3. /\ x.id = uidLast + 1 /\ x.candidate = c /\ x.lossy = FALSE
      /\ DOMAIN x.binding = {} /\ DOMAIN x.instance = {}
  BY DEF Context
<1> HIDE DEF x
<1>4. /\ Len(chain') = N + 1 /\ chain'[N + 1] = x /\ \A k \in 1..N : chain'[k] = chain[k]
  BY <1>2 DEF IInv
<1> HIDE DEF N
<1>5. PICK k \in Nat : k = N + 1
  BY <1>2
<1>6. Equation(k)' = todo'[1]
  <2>1. chain'[k].candidate = c /\ chain'[k].id = uidLast + 1
    BY <1>3, <1>4, <1>5
  <2>2. chain'[c.scope] = chain[c.scope]
    BY <1>2, <1>4
  <2> QED BY <1>2, <2>1, <2>2 DEF Equation, Origin
<1>7. AllHold(J, todo') <=> J[todo'[1][1]] = J[todo'[1][2]]
  <2> DEFINE p == << <<Origin(c), c.left>>,
                     <<IF c.head THEN uidLast + 1 ELSE Origin(c), c.right>> >>
  <2>1. todo' = <<p>>
    BY <1>2
  <2> HIDE DEF p
  <2>2. DOMAIN todo' = {1}
    BY <2>1
  <2> QED BY <2>2 DEF AllHold
<1>8. OriginsInv'
  <2> SUFFICES ASSUME NEW j \in 2..k
               PROVE  chain'[j].candidate \in Candidates /\ chain'[j].candidate.scope \in 1..(j - 1)
    BY <1>4, <1>5 DEF OriginsInv
  <2>1. CASE j = k
    BY <1>1, <1>2, <1>3, <1>4, <1>5, <2>1
  <2>2. CASE j # k
    <3>1. j \in 2..N /\ j \in 1..N
      BY <1>2, <1>5, <2>2
    <3> QED BY <1>4, <3>1 DEF OriginsInv, N
  <2> QED BY <2>1, <2>2
<1>9. \A n \in 1..N : Satisfied(J, n)' <=> Satisfied(J, n)
  <2> SUFFICES ASSUME NEW n \in 1..N PROVE Satisfied(J, n)' <=> Satisfied(J, n)
    OBVIOUS
  <2>1. n \in Nat /\ n <= Len(chain) /\ Len(chain) \in Nat
    BY <1>2 DEF N
  <2>2. \A j \in 1..n : chain'[j].id = chain[j].id /\ chain'[j].candidate = chain[j].candidate
    BY <1>2, <1>4
  <2> QED BY <2>1, <2>2, EquationsKept
<1>10. \A n \in 1..N : Remaining(J, n) /\ Remaining(J, n)'
  BY <1>2, <1>4 DEF Remaining
<1>11. ASSUME NEW n \in 1..N
       PROVE  /\ \A H : Respected(J, H, chain', n) <=> Respected(J, H, chain, n)
              /\ \A H : Agrees(J, H, chain', n) <=> Agrees(J, H, chain, n)
              /\ LossyAt(chain', n) <=> LossyAt(chain, n)
  <2>1. n \in Nat /\ \A j \in 1..n : chain'[j] = chain[j]
    BY <1>2, <1>4
  <2>2. /\ \A a : BindingAt(chain', n, a) = BindingAt(chain, n, a)
        /\ \A iid : InstanceAt(chain', n, iid) = InstanceAt(chain, n, iid)
    BY <2>1, LookupsBelow
  <2> QED BY <2>1, <2>2 DEF Respected, Agrees, LossyAt
<1>12. ASSUME NEW n \in 1..N
       PROVE  /\ Satisfied(J, n)' => (\E H : Respected(J, H, chain', n)) /\ Remaining(J, n)'
              /\ \A H : Agrees(J, H, chain', n) /\ ~LossyAt(chain', n) /\ Remaining(J, n)'
                        => Satisfied(J, n)'
  BY <1>9, <1>10, <1>11 DEF MeaningInv, N
<1>13. N \in 1..N /\ k \in 1..k /\ \A j \in 1..k : j = k \/ j \in 1..N
  BY <1>2, <1>5
<1>14. Satisfied(J, k)' <=> Satisfied(J, N) /\ AllHold(J, todo')
  <2>1. Satisfied(J, k)' <=> \A j \in 2..k : J[Equation(j)'[1]] = J[Equation(j)'[2]]
    BY DEF Satisfied
  <2>2. \A j \in 2..k : j = k \/ j \in 2..N
    BY <1>2, <1>5
  <2>3. k \in 2..k /\ \A j \in 2..N : j \in 2..k
    BY <1>2, <1>5
  <2>4. \A j \in 2..N : Equation(j)' = Equation(j)
    <3>1. Len(chain) \in Nat /\ N \in Nat /\ N <= Len(chain)
      BY <1>2 DEF N
    <3>2. \A j \in 1..N : chain'[j].id = chain[j].id /\ chain'[j].candidate = chain[j].candidate
      BY <1>4
    <3> QED BY <3>1, <3>2, EquationsKept
  <2> QED BY <1>6, <1>7, <2>1, <2>2, <2>3, <2>4 DEF Satisfied
<1>15. Satisfied(J, k)' => (\E H : Respected(J, H, chain', k)) /\ Remaining(J, k)'
  <2> SUFFICES ASSUME Satisfied(J, k)' PROVE (\E H : Respected(J, H, chain', k)) /\ Remaining(J, k)'
    OBVIOUS
  <2>1. Satisfied(J, N) /\ AllHold(J, todo')
    BY <1>14
  <2>2. PICK H : Respected(J, H, chain, N)
    BY <1>13, <2>1 DEF MeaningInv, N
  <2>3. RespectedBy(J, H, chain'[k])
    BY <1>3, <1>4, <1>5 DEF RespectedBy
  <2>4. Respected(J, H, chain', k)
    BY <1>4, <1>13, <2>2, <2>3 DEF Respected
  <2>5. Remaining(J, k)'
    BY <2>1 DEF Remaining
  <2> QED BY <2>4, <2>5
<1>16. ASSUME NEW H, Agrees(J, H, chain', k), ~LossyAt(chain', k), Remaining(J, k)'
       PROVE  Satisfied(J, k)'
  <2>1. AllHold(J, todo')
    BY <1>2, <1>4, <1>5, <1>16 DEF Remaining
  <2>2. Agrees(J, H, chain, N)
    <3>1. /\ \A a : BindingAt(chain', k, a) = Known(chain', k - 1, chain'[k], a)
          /\ \A iid : InstanceAt(chain', k, iid) = Valued(chain', k - 1, chain'[k], iid)
      <4>1. k \in Nat \ {0}
        BY <1>2, <1>5
      <4> QED BY <4>1, TopFirst
    <3>2. k - 1 = N
      BY <1>2, <1>5
    <3>3. /\ \A a : BindingAt(chain', k, a) = BindingAt(chain', N, a)
          /\ \A iid : InstanceAt(chain', k, iid) = InstanceAt(chain', N, iid)
      BY <1>3, <1>4, <1>5, <3>1, <3>2 DEF Known, Valued
    <3>4. Agrees(J, H, chain', N)
      BY <1>16, <3>3 DEF Agrees
    <3> QED BY <1>11, <1>13, <3>4
  <2>3. ~LossyAt(chain, N)
    <3>1. \A j \in 1..N : j \in 1..k
      BY <1>2, <1>5
    <3> QED BY <1>4, <1>16, <3>1 DEF LossyAt
  <2>4. Satisfied(J, N)
    BY <1>10, <1>13, <2>2, <2>3 DEF MeaningInv, N
  <2> QED BY <1>14, <2>1, <2>4
<1>17. MeaningInv(J)'
  <2>1. Len(chain') = k
    BY <1>4, <1>5
  <2>2. \A n \in 1..k : /\ Satisfied(J, n)' => (\E H : Respected(J, H, chain', n)) /\ Remaining(J, n)'
                        /\ \A H : Agrees(J, H, chain', n) /\ ~LossyAt(chain', n) /\ Remaining(J, n)'
                                  => Satisfied(J, n)'
    BY <1>12, <1>13, <1>15, <1>16
  <2> QED BY <2>1, <2>2 DEF MeaningInv
<1> QED BY <1>8, <1>17

\* What is left when a context is dropped holds as before.
LEMMA DropMeaning ==
  ASSUME IInv, OriginsInv, NEW J, MeaningInv(J), Len(chain) > 1, DropTop, unifying' = FALSE
  PROVE  MeaningInv(J)' /\ OriginsInv'
<1> DEFINE N == Len(chain) - 1
           C == Contexts(uidLast, iidLast)
<1>1. chain \in Seq(C) /\ Len(chain) \in Nat /\ N \in Nat /\ N # 0 /\ chain' = SubSeq(chain, 1, N)
  BY DEF IInv, DropTop
<1> HIDE DEF C
<1>2. N < Len(chain) /\ \A n \in 1..N : n \in 1..Len(chain) /\ n # Len(chain)
  BY <1>1
<1>3. Len(chain') = N /\ \A n \in 1..N : chain'[n] = chain[n]
  <2>1. \A n \in 1..N : chain[n] \in C
    BY <1>1
  <2>2. N \in Int /\ 1 \in Int /\ 1 <= N
    BY <1>1
  <2> HIDE DEF N
  <2>3. chain' \in Seq(C) /\ Len(chain') = N /\ \A n \in 1..N : chain'[n] = chain[n]
    BY <1>1, <2>1, <2>2, SubSeqProperties
  <2> QED BY <2>3
<1> HIDE DEF N
<1>4. OriginsInv'
  <2>1. \A n \in 2..N : n \in 2..Len(chain) /\ n \in 1..N
    BY <1>1, <1>2
  <2> QED BY <1>3, <2>1 DEF OriginsInv
<1>5. ASSUME NEW n \in 1..N
      PROVE  /\ Satisfied(J, n)' => (\E H : Respected(J, H, chain', n)) /\ Remaining(J, n)'
             /\ \A H : Agrees(J, H, chain', n) /\ ~LossyAt(chain', n) /\ Remaining(J, n)'
                       => Satisfied(J, n)'
  <2>1. n \in Nat /\ n <= Len(chain) /\ \A j \in 1..n : chain'[j] = chain[j]
    BY <1>1, <1>2, <1>3
  <2>2. Satisfied(J, n)' <=> Satisfied(J, n)
    BY <1>1, <2>1, EquationsKept
  <2>3. Remaining(J, n) /\ Remaining(J, n)'
    BY <1>2 DEF Remaining
  <2>4. /\ \A a : BindingAt(chain', n, a) = BindingAt(chain, n, a)
        /\ \A iid : InstanceAt(chain', n, iid) = InstanceAt(chain, n, iid)
    BY <2>1, LookupsBelow
  <2>5. /\ \A H : Respected(J, H, chain', n) <=> Respected(J, H, chain, n)
        /\ \A H : Agrees(J, H, chain', n) <=> Agrees(J, H, chain, n)
        /\ LossyAt(chain', n) <=> LossyAt(chain, n)
    BY <2>1, <2>4 DEF Respected, Agrees, LossyAt
  <2> QED BY <1>2, <2>2, <2>3, <2>5 DEF MeaningInv
<1>6. MeaningInv(J)'
  BY <1>3, <1>5 DEF MeaningInv
<1> QED BY <1>4, <1>6

LEMMA InitMeaning == ASSUME Init, NEW J PROVE MeaningInv(J) /\ OriginsInv
<1> DEFINE r == Context(1, [left |-> 0])
<1>1. chain = <<r>> /\ DOMAIN r.binding = {} /\ DOMAIN r.instance = {} /\ unifying = FALSE
  BY DEF Init, Context
<1> HIDE DEF r
<1>2. Len(chain) = 1 /\ chain[1] = r
  BY <1>1
<1>3. \A n \in 1..1 : n = 1
  OBVIOUS
<1>4. OriginsInv /\ Satisfied(J, 1)
  BY <1>2 DEF OriginsInv, Satisfied
<1>5. \A H : Respected(J, H, chain, 1)
  BY <1>1, <1>2, <1>3 DEF Respected, RespectedBy
<1>6. Remaining(J, 1)
  BY <1>1 DEF Remaining
<1> QED BY <1>2, <1>3, <1>4, <1>5, <1>6 DEF MeaningInv

LEMMA NextMeaning ==
  ASSUME IInv, OriginsInv, NEW J, Reading(J), MeaningInv(J), [Next]_vars
  PROVE  MeaningInv(J)' /\ OriginsInv'
<1>1. ASSUME NEW i \in DOMAIN branch, NEW c \in branch[i], Try(c) PROVE MeaningInv(J)' /\ OriginsInv'
  BY <1>1, TryMeaning
<1>2. CASE Backtrack
  BY <1>2, DropMeaning DEF Backtrack, IInv
<1>3. CASE Clash
  <2>1. Len(chain) > 1
    BY <1>3 DEF Clash, NextPair, IInv
  <2> QED BY <1>3, <2>1, DropMeaning DEF Clash
<1>4. CASE Unified
  <2>1. UNCHANGED chain /\ unifying' = FALSE /\ todo = <<>> /\ AllHold(J, todo)
    BY <1>4 DEF Unified, AllHold
  <2>2. \A n \in 1..Len(chain) : /\ Satisfied(J, n)' <=> Satisfied(J, n)
                                 /\ Remaining(J, n) /\ Remaining(J, n)'
    BY <2>1 DEF Satisfied, Equation, Origin, Remaining
  <2>3. MeaningInv(J)'
    BY <2>1, <2>2 DEF MeaningInv
  <2> QED BY <2>1, <2>3 DEF OriginsInv
<1>5. CASE UNCHANGED vars
  <2>1. UNCHANGED <<chain, todo, unifying>>
    BY <1>5 DEF vars
  <2>2. \A n \in 1..Len(chain) : /\ Satisfied(J, n)' <=> Satisfied(J, n)
                                 /\ Remaining(J, n)' <=> Remaining(J, n)
    BY <2>1 DEF Satisfied, Equation, Origin, Remaining
  <2>3. MeaningInv(J)'
    BY <2>1, <2>2 DEF MeaningInv
  <2> QED BY <2>1, <2>3 DEF OriginsInv
<1>6. ASSUME UnifyVarVar \/ UnifyVarKnown \/ UnifyIdentical \/ UnifyCons \/ UnifyMap \/ UnifyArray
      PROVE  MeaningInv(J)' /\ OriginsInv'
  <2>1. MeaningInv(J)'
    BY <1>6, VarVarMeaning, VarKnownMeaning, IdenticalMeaning, DescendMeaning
       DEF UnifyCons, UnifyMap, UnifyArray
  <2>2. \/ UNCHANGED chain
        \/ \E uc : /\ chain' = [chain EXCEPT ![Len(chain)] = uc]
                   /\ uc.candidate = Top.candidate
    <3>1. CASE UnifyCons \/ UnifyMap \/ UnifyArray
      BY <3>1 DEF UnifyCons, UnifyMap, UnifyArray, Descend, Recurse
    <3>2. CASE UnifyIdentical
      <4>1. Top \in Contexts(uidLast, iidLast)
        BY TopTyped
      <4> DEFINE uc == [Top EXCEPT !.lossy = @ \/ (Left[1] /= Right[1] /\ Term[Left[2]].args /= <<>>)]
      <4>2. uc.candidate = Top.candidate
        BY <4>1 DEF Contexts
      <4> QED BY <3>2, <4>2 DEF UnifyIdentical, Write, OnTop
    <3>3. CASE UnifyVarKnown
      <4>1. \A a, n, t : WithInstance(WithBinding(Top, a, n), n, t).candidate = Top.candidate
        BY TopTyped DEF Contexts, WithBinding, WithInstance
      <4>2. \A n, t : WithInstance(Top, n, t).candidate = Top.candidate
        BY TopTyped DEF Contexts, WithInstance
      <4> QED BY <3>3, <4>1, <4>2 DEF UnifyVarKnown, Write, OnTop, Recurse
    <3>4. CASE UnifyVarVar
      <4>1. \A a, b, n : WithBinding(WithBinding(Top, a, n), b, n).candidate = Top.candidate
        BY TopTyped DEF Contexts, WithBinding
      <4>2. \A n, t : WithInstance(Top, n, t).candidate = Top.candidate
        BY TopTyped DEF Contexts, WithInstance
      <4>3. \A a, n : WithBinding(Top, a, n).candidate = Top.candidate
        BY TopTyped DEF Contexts, WithBinding
      <4>4. \A a, n, l : [WithBinding(Top, a, n) EXCEPT !.lossy = l].candidate = Top.candidate
        BY TopTyped DEF Contexts, WithBinding
      <4>5. (\E uc : Write(uc) /\ uc.candidate = Top.candidate) \/ \E ps : Recurse(ps)
        <5> DEFINE m == FindBinding(chain, Right)
                   o == FindBinding(chain, Left)
                   im == FindInstance(chain, m)
                   io == FindInstance(chain, o)
                   new == iidLast + 1
        <5>1. \/ \E ps : Recurse(ps)
              \/ Write(WithBinding(WithBinding(Top, Right, new), Left, new))
              \/ Write(WithBinding(Top, Right, o))
              \/ Write(WithBinding(Top, Left, m))
              \/ Write([WithBinding(Top, Left, m) EXCEPT !.lossy = @ \/ Group(o) # {Left}])
              \/ Write(WithInstance(Top, m, io[1]))
              \/ Write(WithInstance(Top, o, im[1]))
          BY <3>4, Zenon DEF UnifyVarVar
        <5> HIDE DEF m, o, im, io, new
        <5>2. CASE Write([WithBinding(Top, Left, m) EXCEPT !.lossy = @ \/ Group(o) # {Left}])
          <6> DEFINE l == WithBinding(Top, Left, m).lossy \/ Group(o) # {Left}
          <6>1. Write([WithBinding(Top, Left, m) EXCEPT !.lossy = l])
            BY <5>2
          <6> HIDE DEF l
          <6> DEFINE uc == [WithBinding(Top, Left, m) EXCEPT !.lossy = l]
          <6>2. uc.candidate = Top.candidate /\ Write(uc)
            BY <4>4, <6>1
          <6> HIDE DEF uc
          <6> QED BY <6>2, Zenon
        <5>3. CASE Write(WithBinding(WithBinding(Top, Right, new), Left, new))
          BY <4>1, <5>3
        <5>4. CASE Write(WithBinding(Top, Right, o)) \/ Write(WithBinding(Top, Left, m))
          BY <4>3, <5>4
        <5>5. CASE Write(WithInstance(Top, m, io[1])) \/ Write(WithInstance(Top, o, im[1]))
          BY <4>2, <5>5
        <5> QED BY <5>1, <5>2, <5>3, <5>4, <5>5, Zenon
      <4> QED BY <4>5 DEF Write, OnTop, Recurse
    <3> QED BY <1>6, <3>1, <3>2, <3>3, <3>4
  <2>3. OriginsInv'
    <3>1. CASE UNCHANGED chain
      BY <3>1 DEF OriginsInv
    <3>2. ASSUME NEW uc, chain' = [chain EXCEPT ![Len(chain)] = uc], uc.candidate = Top.candidate
          PROVE  OriginsInv'
      <4> DEFINE N == Len(chain)
      <4>1. N \in Nat /\ DOMAIN chain = 1..N /\ chain[N] = Top
        BY DEF IInv, Top
      <4>2. chain' = [n \in 1..N |-> IF n = N THEN uc ELSE chain[n]]
        BY <3>2, <4>1
      <4> HIDE DEF N
      <4>3. Len(chain') = N
        BY <4>1, <4>2
      <4>4. \A n \in 2..N : n \in 1..N /\ chain'[n].candidate = chain[n].candidate
        BY <3>2, <4>1, <4>2
      <4> QED BY <4>3, <4>4 DEF OriginsInv, N
    <3> QED BY <2>2, <3>1, <3>2
  <2> QED BY <2>1, <2>3
<1> QED BY <1>1, <1>2, <1>3, <1>4, <1>5, <1>6 DEF Next, UnifyStep

LEMMA MeaningInductive ==
  ASSUME NEW J, Reading(J) PROVE Spec => [](IInv /\ OriginsInv /\ MeaningInv(J))
<1>1. Init => OriginsInv /\ MeaningInv(J)
  BY InitMeaning
<1>2. IInv /\ OriginsInv /\ MeaningInv(J) /\ [Next]_vars => OriginsInv' /\ MeaningInv(J)'
  BY NextMeaning
<1> QED BY <1>1, <1>2, Inductive, PTL DEF Spec

\* A clash is reported only of equations that no reading solves: a candidate
\* that could be unified is never passed over, whatever was bound before it in
\* the branch, and though a step before it may have lost a join.
THEOREM ClashesHaveNoSolution ==
  ASSUME NEW J, Reading(J) PROVE Spec => [][Clash => ~Solves(J)]_vars
<1>1. ASSUME IInv, OriginsInv, MeaningInv(J), Clash PROVE ~Solves(J)
  <2> SUFFICES ASSUME Solves(J) PROVE FALSE
    OBVIOUS
  <2>1. Satisfied(J, Len(chain)) /\ Len(chain) \in 1..Len(chain)
    BY <1>1, LookupsAtTop DEF Solves, Equations, Satisfied
  <2>2. AllHold(J, todo)
    BY <1>1, <2>1, NextPairHolds DEF MeaningInv, Remaining, Clash
  <2>3. J[Left] = J[Right]
    BY <1>1, <2>2, NextPairHolds DEF Clash
  <2>4. Left \in Scoped /\ Right \in Scoped
    BY <1>1, NextPairTyped DEF Clash, Terms, Scoped, IInv
  <2> QED BY <1>1, <2>3, <2>4 DEF Reading, Clash
<1> QED BY <1>1, MeaningInductive, PTL

\* Between candidates, the readings that solve the equations of a branch are
\* those that its bindings hold in, where no step lost a join; the bindings
\* never say more than the equations, even where one did.
THEOREM BindingsAreTheSolution ==
  ASSUME NEW J, Reading(J)
  PROVE  Spec => [](~unifying => /\ Solves(J) => BindingsHold(J)
                                 /\ ~Lossy /\ BindingsHold(J) => Solves(J))
<1>1. ASSUME IInv, OriginsInv, MeaningInv(J), ~unifying
      PROVE  /\ Solves(J) => BindingsHold(J)
             /\ ~Lossy /\ BindingsHold(J) => Solves(J)
  <2>1. /\ Len(chain) \in 1..Len(chain) /\ DOMAIN chain = 1..Len(chain)
        /\ \A a : FindBinding(chain, a) = BindingAt(chain, Len(chain), a)
        /\ \A iid : FindInstance(chain, iid) = InstanceAt(chain, Len(chain), iid)
    BY <1>1, LookupsAtTop DEF IInv
  <2>2. Satisfied(J, Len(chain)) <=> Solves(J)
    BY DEF Solves, Equations, Satisfied
  <2>3. Remaining(J, Len(chain))
    BY <1>1 DEF Remaining
  <2>4. \A a : FindBinding(chain, a) \in Nat
    BY <1>1, FindBindingTyped DEF IInv
  <2>5. ASSUME Solves(J) PROVE BindingsHold(J)
    <3>1. PICK H : Respected(J, H, chain, Len(chain))
      BY <1>1, <2>1, <2>2, <2>5 DEF MeaningInv
    <3>2. Agrees(J, H, chain, Len(chain))
      BY <1>1, <2>1, <3>1, RespectedAgrees
    <3> QED BY <2>1, <2>4, <3>2 DEF BindingsHold, Agrees, Instance
  <2>6. ASSUME ~Lossy, BindingsHold(J) PROVE Solves(J)
    <3> DEFINE A(x) == {a \in Nat \X Vars : FindBinding(chain, a) = x}
               H == [x \in Nat |-> IF x # 0 /\ A(x) # {} THEN J[CHOOSE a \in A(x) : TRUE]
                                   ELSE J[FindInstance(chain, x)[1]]]
    <3>1. ASSUME NEW a \in Nat \X Vars, FindBinding(chain, a) # 0
          PROVE  J[a] = H[FindBinding(chain, a)]
      <4> DEFINE x == FindBinding(chain, a)
                 b == CHOOSE b \in A(x) : TRUE
      <4>1. x \in Nat /\ x # 0 /\ a \in A(x)
        BY <2>4, <3>1
      <4>2. b \in A(x) /\ H[x] = J[b]
        BY <4>1
      <4> HIDE DEF b, H
      <4>3. b \in Nat \X Vars /\ FindBinding(chain, b) = x
        BY <4>2
      <4> QED BY <2>6, <3>1, <4>2, <4>3 DEF BindingsHold
    <3>2. ASSUME NEW x \in Nat, FindInstance(chain, x) # <<>>
          PROVE  H[x] = J[FindInstance(chain, x)[1]]
      <4>1. CASE x # 0 /\ A(x) # {}
        <5> DEFINE b == CHOOSE b \in A(x) : TRUE
        <5>1. b \in A(x) /\ H[x] = J[b]
          BY <4>1
        <5> HIDE DEF b, H
        <5>2. b \in Nat \X Vars /\ FindBinding(chain, b) = x
          BY <5>1
        <5> QED BY <2>6, <3>2, <4>1, <5>1, <5>2 DEF BindingsHold, Instance
      <4>2. CASE ~(x # 0 /\ A(x) # {})
        BY <4>2
      <4> QED BY <4>1, <4>2
    <3> HIDE DEF H
    <3>3. Agrees(J, H, chain, Len(chain))
      BY <2>1, <3>1, <3>2 DEF Agrees
    <3>4. ~LossyAt(chain, Len(chain))
      BY <2>1, <2>6 DEF Lossy, LossyAt
    <3> QED BY <1>1, <2>1, <2>2, <2>3, <3>3, <3>4 DEF MeaningInv
  <2> QED BY <2>5, <2>6
<1> QED BY <1>1, MeaningInductive, PTL
=============================================================================
