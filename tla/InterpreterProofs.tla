------------------------- MODULE InterpreterProofs -------------------------
(***************************************************************************)
(* The searches of the interpreter are exhaustive on every system, finite   *)
(* or not, and for every hash function, they expand a state twice only      *)
(* because of a collision, and what they count adds up: every maximal path  *)
(* is reported once, and no pending state is lost or reported twice.        *)
(***************************************************************************)
EXTENDS Interpreter, SequenceTheorems, TLAPS

Succs(s) == {enabled(s)[i] : i \in DOMAIN enabled(s)}

(* Every state met is still pending or its successors have been met; what   *)
(* the table holds has been expanded.                                       *)
Frontier ==
  /\ syst \in Systems
  /\ syst.init \in seen
  /\ Set(pending) \subseteq seen
  /\ \A s \in DOMAIN syst.succ : <<hash(s), s>> \in visited => Succs(s) \subseteq seen
  /\ mode \in {"IPDFS", "IPDFST"} => \A s \in seen : s \in Set(pending) \/ Succs(s) \subseteq seen
  /\ out = "end" => pending = << >>

(* An expanded state is in the table until one with the same hash is        *)
(* expanded.                                                                *)
Remembered ==
  mode = "IPDFS" =>
    \A i \in 1..Len(expanded) :
      \/ <<hash(expanded[i]), expanded[i]>> \in visited
      \/ \E k \in (i + 1)..Len(expanded) :
           expanded[k] # expanded[i] /\ hash(expanded[k]) = hash(expanded[i])

IInv == TypeOK /\ Frontier /\ Remembered /\ ExpandedAgainAfterCollision

-----------------------------------------------------------------------------
(* ts ++ ss holds the elements of both. *)
LEMMA SetOfConcat ==
  ASSUME NEW S, NEW s \in Seq(S), NEW t \in Seq(S)
  PROVE  Set(s \o t) = Set(s) \cup Set(t) /\ s \o t \in Seq(S)
<1>1. \A x : x \in Set(s \o t) <=> \E i \in 1..(Len(s) + Len(t)) : x = (s \o t)[i]
  BY DEF Set
<1>2. ASSUME NEW i \in 1..(Len(s) + Len(t)) PROVE (s \o t)[i] \in Set(s) \cup Set(t)
  <2>1. CASE i <= Len(s)  BY <2>1 DEF Set
  <2>2. CASE i > Len(s)   BY <2>2 DEF Set
  <2> QED BY <2>1, <2>2
<1>3. ASSUME NEW i \in 1..Len(s) PROVE s[i] \in Set(s \o t)
  <2>1. i \in 1..(Len(s) + Len(t)) /\ (s \o t)[i] = s[i]  OBVIOUS
  <2> QED BY <2>1, <1>1
<1>4. ASSUME NEW i \in 1..Len(t) PROVE t[i] \in Set(s \o t)
  <2>1. Len(s) + i \in 1..(Len(s) + Len(t)) /\ (s \o t)[Len(s) + i] = t[i]  OBVIOUS
  <2> QED BY <2>1, <1>1
<1>5. Set(s \o t) \subseteq Set(s) \cup Set(t)
  BY <1>1, <1>2
<1>6. Set(s) \subseteq Set(s \o t) /\ Set(t) \subseteq Set(s \o t)
  <2>1. DOMAIN s = 1..Len(s) /\ DOMAIN t = 1..Len(t)  OBVIOUS
  <2>2. \A x \in Set(s) : \E i \in 1..Len(s) : x = s[i]  BY <2>1 DEF Set
  <2>3. \A x \in Set(t) : \E i \in 1..Len(t) : x = t[i]  BY <2>1 DEF Set
  <2> QED BY <1>3, <1>4, <2>2, <2>3
<1>7. s \o t \in Seq(S)
  OBVIOUS
<1> QED BY <1>5, <1>6, <1>7

(* A list is its head and its tail. *)
LEMMA SetOfTail ==
  ASSUME NEW S, NEW s \in Seq(S), s # << >>
  PROVE  /\ Head(s) \in S /\ Tail(s) \in Seq(S)
         /\ Head(s) \in Set(s) /\ Set(s) = {Head(s)} \cup Set(Tail(s))
<1>1. Head(s) \in S /\ Tail(s) \in Seq(S) /\ Head(s) = s[1] /\ 1 \in DOMAIN s
  OBVIOUS
<1>2. ASSUME NEW i \in DOMAIN s PROVE s[i] \in {Head(s)} \cup Set(Tail(s))
  <2>1. CASE i = 1  BY <2>1
  <2>2. CASE i # 1
    <3>1. i - 1 \in DOMAIN Tail(s) /\ Tail(s)[i - 1] = s[i]  BY <2>2
    <3> QED BY <3>1 DEF Set
  <2> QED BY <2>1, <2>2
<1>3. ASSUME NEW i \in DOMAIN Tail(s) PROVE Tail(s)[i] \in Set(s)
  <2>1. i + 1 \in DOMAIN s /\ Tail(s)[i] = s[i + 1]  OBVIOUS
  <2> QED BY <2>1 DEF Set
<1> QED BY <1>1, <1>2, <1>3 DEF Set

(* A list with one element. *)
LEMMA SingletonList ==
  ASSUME NEW S, NEW a \in S
  PROVE  <<a>> \in Seq(S) /\ Set(<<a>>) = {a}
<1>1. <<a>> \in Seq(S) /\ DOMAIN <<a>> = {1} /\ <<a>>[1] = a
  OBVIOUS
<1> QED BY <1>1 DEF Set

-----------------------------------------------------------------------------
(* What a system is, for the states of the one being run. *)
LEMMA SystemFacts ==
  ASSUME IInv
  PROVE  /\ syst.init \in DOMAIN syst.succ
         /\ \A s \in DOMAIN syst.succ : enabled(s) \in Seq(DOMAIN syst.succ) /\ Set(enabled(s)) = Succs(s)
         /\ pending # << >> =>
              /\ Head(pending) \in seen /\ Head(pending) \in DOMAIN syst.succ
              /\ Tail(pending) \in Seq(DOMAIN syst.succ)
              /\ Set(pending) = {Head(pending)} \cup Set(Tail(pending))
<1>1. syst.init \in DOMAIN syst.succ /\ \A s \in DOMAIN syst.succ : syst.succ[s] \in Seq(DOMAIN syst.succ)
  BY SystemsAssumption DEF IInv, Frontier
<1>2. ASSUME pending # << >>
      PROVE  /\ Head(pending) \in seen /\ Head(pending) \in DOMAIN syst.succ
             /\ Tail(pending) \in Seq(DOMAIN syst.succ)
             /\ Set(pending) = {Head(pending)} \cup Set(Tail(pending))
  BY <1>2, SetOfTail DEF IInv, TypeOK, Frontier
<1> QED BY <1>1, <1>2, Zenon DEF enabled, Succs, Set

(* The initial states satisfy the invariant. *)
LEMMA InitInv == Init => IInv
<1> SUFFICES ASSUME NEW y \in Systems, NEW md \in Modes, interpreter(y, md) PROVE IInv
  BY DEF Init
<1>1. y.init \in DOMAIN y.succ
  BY SystemsAssumption
<1>2. Set(pending) = {syst.init} /\ pending \in Seq(DOMAIN syst.succ)
  BY <1>1, SingletonList DEF interpreter
<1>3. TypeOK
  BY <1>1, <1>2 DEF interpreter, TypeOK
<1>4. Frontier
  BY <1>2 DEF interpreter, Frontier
<1>5. Remembered /\ ExpandedAgainAfterCollision
  BY DEF interpreter, Remembered, ExpandedAgainAfterCollision
<1> QED BY <1>3, <1>4, <1>5 DEF IInv

(* Pop keeps the invariant when the popped state has no successors or has   *)
(* been expanded before.                                                    *)
LEMMA PopInv ==
  ASSUME IInv, pending # << >>, Pop, UNCHANGED <<mode, syst, visited, out>>,
         n' \in Nat, m' \in Nat, out = "running",
         Succs(Head(pending)) \subseteq seen
  PROVE  IInv'
<1> DEFINE h == Head(pending)
<1>1. /\ pending' \in Seq(DOMAIN syst.succ) /\ Set(pending) = {h} \cup Set(pending')
      /\ UNCHANGED <<seen, expanded>>
  BY SystemFacts, Zenon DEF Pop, Set
<1>2. TypeOK'
  BY <1>1 DEF IInv, TypeOK, hash
<1>3. Frontier'
  <2>1. Frontier /\ UNCHANGED <<mode, syst, visited, out, seen>>  BY <1>1 DEF IInv
  <2>2. \A s : Succs(s)' = Succs(s) /\ hash(s)' = hash(s)  BY <2>1 DEF Succs, enabled, hash
  <2>3. Set(pending') \subseteq seen'  BY <1>1, <2>1 DEF Frontier
  <2>4. mode \in {"IPDFS", "IPDFST"} => \A s \in seen : s \in Set(pending') \/ Succs(s) \subseteq seen
    BY <1>1, <2>1 DEF Frontier
  <2> QED BY <2>1, <2>2, <2>3, <2>4 DEF Frontier
<1>4. Remembered' /\ ExpandedAgainAfterCollision'
  BY <1>1 DEF IInv, Remembered, ExpandedAgainAfterCollision, hash
<1> QED BY <1>2, <1>3, <1>4 DEF IInv

(* Push meets states the current one leads to. *)
LEMMA PushFacts ==
  ASSUME IInv, pending # << >>, NEW ts \in Seq(DOMAIN syst.succ), Set(ts) \subseteq Succs(Head(pending)),
         Push(ts)
  PROVE  /\ pending' \in Seq(DOMAIN syst.succ) /\ expanded' \in Seq(DOMAIN syst.succ)
         /\ Set(pending') = Set(ts) \cup Set(Tail(pending))
         /\ seen' = seen \cup Set(ts) /\ seen' \subseteq DOMAIN syst.succ
         /\ expanded' = Append(expanded, Head(pending))
<1>1. /\ Head(pending) \in DOMAIN syst.succ /\ Tail(pending) \in Seq(DOMAIN syst.succ)
      /\ expanded \in Seq(DOMAIN syst.succ) /\ seen \subseteq DOMAIN syst.succ
  BY SystemFacts DEF IInv, TypeOK
<1>2. Set(ts) \subseteq DOMAIN syst.succ
  BY DEF Set
<1>3. Set(ts \o Tail(pending)) = Set(ts) \cup Set(Tail(pending)) /\ ts \o Tail(pending) \in Seq(DOMAIN syst.succ)
  BY <1>1, SetOfConcat, Zenon
<1>4. pending' = ts \o Tail(pending) /\ seen' = seen \cup Set(ts) /\ expanded' = Append(expanded, Head(pending))
  BY DEF Push
<1>5. expanded' \in Seq(DOMAIN syst.succ)
  BY <1>1, <1>4
<1> QED BY <1>1, <1>2, <1>3, <1>4, <1>5

(* Expanding a state keeps the invariant: all its successors are pushed (in *)
(* the searches), and dfs stores it in the table.                           *)
LEMMA PushInv ==
  ASSUME IInv, pending # << >>, out = "running", UNCHANGED <<mode, syst, m, n, out>>,
         NEW ts \in Seq(DOMAIN syst.succ), Set(ts) \subseteq Succs(Head(pending)), Push(ts),
         mode \in {"IPDFS", "IPDFST"} => Set(ts) = Succs(Head(pending)),
         \/ mode # "IPDFS" /\ visited' = visited
         \/ mode = "IPDFS" /\ ~isCutoff(Head(pending)) /\ visited' = H_insert(Head(pending))
  PROVE  IInv'
<1> DEFINE h == Head(pending)
<1>1. /\ pending' \in Seq(DOMAIN syst.succ) /\ expanded' \in Seq(DOMAIN syst.succ)
      /\ Set(pending') = Set(ts) \cup Set(Tail(pending))
      /\ seen' = seen \cup Set(ts) /\ seen' \subseteq DOMAIN syst.succ
      /\ expanded' = Append(expanded, h)
  BY PushFacts
<1>2. /\ h \in seen /\ h \in DOMAIN syst.succ
      /\ Set(pending) = {h} \cup Set(Tail(pending))
  BY SystemFacts
<1>3. \A s : Succs(s)' = Succs(s) /\ hash(s)' = hash(s)
  BY DEF Succs, enabled, hash
<1>4. TypeOK'
  <2>1. \A e \in visited' : \E s \in DOMAIN syst.succ : e = <<hash(s), s>>
    BY <1>2 DEF IInv, TypeOK, H_insert
  <2>2. \A e1, e2 \in visited' : e1[1] = e2[1] => e1 = e2
    BY DEF IInv, TypeOK, H_insert
  <2> QED BY <1>1, <1>3, <2>1, <2>2 DEF IInv, TypeOK
<1>5. Frontier'
  <2>1. Frontier  BY DEF IInv
  <2>2. Set(pending') \subseteq seen'  BY <1>1, <1>2, <2>1 DEF Frontier
  <2>3. ASSUME NEW s \in DOMAIN syst.succ, <<hash(s), s>> \in visited' PROVE Succs(s) \subseteq seen'
    <3>1. CASE <<hash(s), s>> \in visited  BY <3>1, <1>1, <2>1 DEF Frontier
    <3>2. CASE <<hash(s), s>> \notin visited
      <4>1. mode = "IPDFS" /\ s = h  BY <3>2, <2>3 DEF H_insert
      <4> QED BY <4>1, <1>1
    <3> QED BY <3>1, <3>2
  <2>4. ASSUME mode \in {"IPDFS", "IPDFST"}, NEW s \in seen' PROVE s \in Set(pending') \/ Succs(s) \subseteq seen'
    <3>1. CASE s = h  BY <3>1, <2>4, <1>1
    <3>2. CASE s # h  BY <3>2, <2>4, <2>1, <1>1, <1>2 DEF Frontier
    <3> QED BY <3>1, <3>2
  <2> QED BY <1>1, <1>3, <2>1, <2>2, <2>3, <2>4 DEF Frontier
<1>6. /\ expanded \in Seq(DOMAIN syst.succ) /\ Len(expanded) \in Nat /\ Len(expanded') = Len(expanded) + 1
      /\ \A i \in 1..Len(expanded) : expanded'[i] = expanded[i]
      /\ expanded'[Len(expanded) + 1] = h
  BY <1>1 DEF IInv, TypeOK
<1>7. ExpandedAgainAfterCollision'
  <2> SUFFICES ASSUME mode = "IPDFS", NEW i \in 1..(Len(expanded) + 1), NEW j \in 1..(Len(expanded) + 1),
                      i < j, expanded'[i] = expanded'[j]
               PROVE  \E k \in (i + 1)..(j - 1) :
                        expanded'[k] # expanded'[i] /\ hash(expanded'[k]) = hash(expanded'[i])
    BY <1>3, <1>6 DEF ExpandedAgainAfterCollision
  <2>1. CASE j = Len(expanded) + 1
    <3>1. expanded[i] = h /\ <<hash(h), h>> \notin visited  BY <2>1, <1>6 DEF isCutoff
    <3>2. \E k \in (i + 1)..Len(expanded) : expanded[k] # expanded[i] /\ hash(expanded[k]) = hash(expanded[i])
      BY <3>1, <2>1, <1>6 DEF IInv, Remembered
    <3> QED BY <3>2, <2>1, <1>6
  <2>2. CASE j # Len(expanded) + 1
    BY <2>2, <1>6 DEF IInv, ExpandedAgainAfterCollision
  <2> QED BY <2>1, <2>2
<1>8. Remembered'
  <2> SUFFICES ASSUME mode = "IPDFS", NEW i \in 1..(Len(expanded) + 1)
               PROVE  \/ <<hash(expanded'[i]), expanded'[i]>> \in visited'
                      \/ \E k \in (i + 1)..(Len(expanded) + 1) :
                           expanded'[k] # expanded'[i] /\ hash(expanded'[k]) = hash(expanded'[i])
    BY <1>3, <1>6 DEF Remembered
  <2>1. CASE expanded'[i] = h  BY <2>1 DEF H_insert
  <2>2. CASE expanded'[i] # h
    <3>1. i \in 1..Len(expanded) /\ expanded'[i] = expanded[i]  BY <2>2, <1>6
    <3>2. CASE hash(expanded[i]) = hash(h)  BY <3>1, <3>2, <2>2, <1>6
    <3>3. CASE hash(expanded[i]) # hash(h)
      <4>1. <<hash(expanded[i]), expanded[i]>> \in visited => <<hash(expanded[i]), expanded[i]>> \in visited'
        BY <3>3 DEF H_insert
      <4>2. \/ <<hash(expanded[i]), expanded[i]>> \in visited
            \/ \E k \in (i + 1)..Len(expanded) : expanded[k] # expanded[i] /\ hash(expanded[k]) = hash(expanded[i])
        BY <3>1 DEF IInv, Remembered
      <4> QED BY <4>1, <4>2, <3>1, <1>6
    <3> QED BY <3>2, <3>3
  <2> QED BY <2>1, <2>2
<1> QED BY <1>4, <1>5, <1>7, <1>8 DEF IInv

(* The invariant holds in every reachable state. *)
THEOREM Invariance == Spec => []IInv
<1>1. ASSUME IInv, [Next]_vars PROVE IInv'
  <2> USE <1>1
  <2> DEFINE h == Head(pending)
  <2>0. /\ \A s \in DOMAIN syst.succ : enabled(s) \in Seq(DOMAIN syst.succ) /\ Set(enabled(s)) = Succs(s)
        /\ pending # << >> => h \in DOMAIN syst.succ
        /\ n \in Nat /\ m \in Nat
    BY SystemFacts DEF IInv, TypeOK
  <2>1. ASSUME pending # << >>, enabled(h) = << >> PROVE Succs(h) \subseteq seen
    BY <2>1 DEF Succs
  <2>2. CASE Execute
    <3>1. CASE enabled(h) = << >>  BY <2>2, <3>1, <2>0, <2>1, PopInv DEF Execute, At
    <3>2. CASE enabled(h) # << >>
      <4>1. pending # << >> /\ enabled(h) \in Seq(DOMAIN syst.succ) /\ Set(enabled(h)) = Succs(h)
        BY <2>2, <2>0 DEF Execute
      <4>2. Head(enabled(h)) \in DOMAIN syst.succ /\ Head(enabled(h)) \in Succs(h)
        BY <3>2, <4>1, SetOfTail
      <4>3. <<Head(enabled(h))>> \in Seq(DOMAIN syst.succ) /\ Set(<<Head(enabled(h))>>) \subseteq Succs(h)
        BY <4>2, SingletonList
      <4> QED BY <2>2, <3>2, <4>1, <4>3, PushInv DEF Execute, At
    <3> QED BY <3>1, <3>2
  <2>3. CASE bfs
    <3>1. CASE enabled(h) = << >>  BY <2>3, <3>1, <2>0, <2>1, PopInv DEF bfs, At
    <3>2. CASE enabled(h) # << >>
      <4>1. out' = "TODO!" /\ UNCHANGED <<mode, syst, pending, visited, n, m, seen, expanded>>  BY <2>3, <3>2 DEF bfs
      <4>2. TypeOK'  BY <4>1 DEF IInv, TypeOK, hash
      <4>3. Frontier'  BY <4>1 DEF IInv, Frontier, Succs, enabled, hash, Set
      <4>4. Remembered' /\ ExpandedAgainAfterCollision'
        BY <4>1 DEF IInv, Remembered, ExpandedAgainAfterCollision, hash
      <4> QED BY <4>2, <4>3, <4>4 DEF IInv
    <3> QED BY <3>1, <3>2
  <2>4. CASE dfs_tree
    <3>1. CASE enabled(h) = << >>  BY <2>4, <3>1, <2>0, <2>1, PopInv DEF dfs_tree, At
    <3>2. CASE enabled(h) # << >>  BY <2>4, <3>2, <2>0, PushInv DEF dfs_tree, At
    <3> QED BY <3>1, <3>2
  <2>5. CASE dfs_cutoff
    <3>1. Succs(h) \subseteq seen  BY <2>5, <2>0 DEF dfs_cutoff, isCutoff, IInv, Frontier
    <3> QED BY <2>5, <3>1, <2>0, PopInv DEF dfs_cutoff, At
  <2>6. CASE dfs
    <3>1. CASE enabled(h) = << >>  BY <2>6, <3>1, <2>0, <2>1, PopInv DEF dfs, At
    <3>2. CASE enabled(h) # << >>  BY <2>6, <3>2, <2>0, PushInv DEF dfs, At
    <3> QED BY <3>1, <3>2
  <2>7. CASE End
    <3>1. TypeOK'  BY <2>7 DEF End, IInv, TypeOK, hash
    <3>2. Frontier'  BY <2>7 DEF End, IInv, Frontier, Succs, enabled, hash, Set
    <3>3. Remembered' /\ ExpandedAgainAfterCollision'
      BY <2>7 DEF End, IInv, Remembered, ExpandedAgainAfterCollision, hash
    <3> QED BY <3>1, <3>2, <3>3 DEF IInv
  <2>8. CASE UNCHANGED vars
    <3>1. TypeOK' /\ Frontier'  BY <2>8 DEF vars, IInv, TypeOK, Frontier, Succs, enabled, hash, Set
    <3>2. Remembered' /\ ExpandedAgainAfterCollision'
      BY <2>8 DEF vars, IInv, Remembered, ExpandedAgainAfterCollision, hash
    <3> QED BY <3>1, <3>2 DEF IInv
  <2> QED BY <2>2, <2>3, <2>4, <2>5, <2>6, <2>7, <2>8 DEF Next
<1> QED BY <1>1, InitInv, PTL DEF Spec

(* The table and the pending list stay well formed. *)
THEOREM TypeCorrect == Spec => []TypeOK
BY Invariance, PTL DEF IInv

(* dfs expands a state a second time only after another state with the same *)
(* hash value took its place in the table.                                  *)
THEOREM CollisionsOnly == Spec => []ExpandedAgainAfterCollision
BY Invariance, PTL DEF IInv

-----------------------------------------------------------------------------
(* Pushing successors of the head is a step of Search. *)
LEMMA PushIsMeet ==
  ASSUME IInv, pending # << >>, out = "running", UNCHANGED <<mode, syst, out>>,
         NEW ts, Set(ts) \subseteq Succs(Head(pending)), Push(ts)
  PROVE  Abstract!Next
<1>1. Head(pending) \in seen
  BY SystemFacts
<1>2. Set(ts) \in SUBSET Abstract!Successors(Head(pending))
  BY DEF Abstract!Successors, Succs, enabled
<1>3. seen' = seen \cup Set(ts)
  BY DEF Push
<1> QED BY <1>1, <1>2, <1>3 DEF Abstract!Next, Abstract!Meet

(* The searches of the interpreter are exhaustive: they meet reachable      *)
(* states only, and they report the end only when all of them were met, for *)
(* every graph and every hash function.                                     *)
THEOREM Refinement == Spec => ImplementsSearch
<1>1. Init => Abstract!Init
  BY DEF Init, interpreter, Abstract!Init
<1>2. ASSUME IInv, [Next]_vars PROVE [Abstract!Next]_(Abstract!vars)
  <2> USE <1>2
  <2> DEFINE h == Head(pending)
  <2>0. pending # << >> =>
          /\ enabled(h) \in Seq(DOMAIN syst.succ) /\ Set(enabled(h)) = Succs(h)
          /\ enabled(h) # << >> => Set(<<Head(enabled(h))>>) \subseteq Succs(h)
    BY SystemFacts, SetOfTail, SingletonList
  <2>1. ASSUME Pop, UNCHANGED <<mode, syst, out>> PROVE UNCHANGED Abstract!vars
    BY <2>1 DEF Pop, Abstract!vars
  <2>2. CASE Execute  BY <2>2, <2>0, <2>1, PushIsMeet DEF Execute, At
  <2>3. CASE bfs
    <3>1. CASE enabled(h) = << >>  BY <2>3, <3>1, <2>1 DEF bfs
    <3>2. CASE enabled(h) # << >>  BY <2>3, <3>2 DEF bfs, At, Abstract!vars
    <3> QED BY <3>1, <3>2
  <2>4. CASE dfs_tree  BY <2>4, <2>0, <2>1, PushIsMeet DEF dfs_tree, At
  <2>5. CASE dfs_cutoff  BY <2>5, <2>1 DEF dfs_cutoff
  <2>6. CASE dfs  BY <2>6, <2>0, <2>1, PushIsMeet DEF dfs, At
  <2>7. CASE End
    <3>1. CASE mode \in {"IPDFS", "IPDFST"}
      <4>1. Set(pending) = {}  BY <2>7 DEF End, Set
      <4>2. Abstract!Closed(seen)
        BY <3>1, <4>1 DEF IInv, Frontier, Succs, enabled, Abstract!Closed, Abstract!Successors
      <4> QED BY <2>7, <3>1, <4>2 DEF End, Abstract!Next, Abstract!Finish
    <3>2. CASE mode \notin {"IPDFS", "IPDFST"}  BY <2>7, <3>2 DEF End, Abstract!vars
    <3> QED BY <3>1, <3>2
  <2>8. CASE UNCHANGED vars  BY <2>8 DEF vars, Abstract!vars
  <2> QED BY <2>2, <2>3, <2>4, <2>5, <2>6, <2>7, <2>8 DEF Next
<1> QED BY <1>1, <1>2, Invariance, PTL DEF Spec, ImplementsSearch, Abstract!Spec

-----------------------------------------------------------------------------
(* W is a sum over lists of the states of y: it counts something of each    *)
(* element, with repetition.                                                *)
SumsOver(W, y) ==
  /\ W \in [Seq(DOMAIN y.succ) -> Nat]
  /\ W[<< >>] = 0
  /\ \A s, t \in Seq(DOMAIN y.succ) : W[s \o t] = W[s] + W[t]

(* W counts the maximal paths that start in the states of a list: one in a  *)
(* state without successors, elsewhere those of the successors.             *)
CountsPaths(W, y) ==
  /\ SumsOver(W, y)
  /\ \A s \in DOMAIN y.succ : W[<<s>>] = IF y.succ[s] = << >> THEN 1 ELSE W[y.succ[s]]

(* F counts the states of a list without successors, I the others, and FS   *)
(* and IS count them among the successors of the states of a list.          *)
CountsSuccessors(F, I, FS, IS, y) ==
  /\ SumsOver(F, y) /\ SumsOver(I, y) /\ SumsOver(FS, y) /\ SumsOver(IS, y)
  /\ \A s \in DOMAIN y.succ :
       /\ F[<<s>>] = IF y.succ[s] = << >> THEN 1 ELSE 0
       /\ I[<<s>>] = IF y.succ[s] = << >> THEN 0 ELSE 1
       /\ FS[<<s>>] = F[y.succ[s]]
       /\ IS[<<s>>] = I[y.succ[s]]

(* The traces dfs_tree has reported and the paths of the pending states are *)
(* together the paths from the initial state.                               *)
PathsLeft(W) ==
  mode = "IPDFST" /\ CountsPaths(W, syst) => n - 1 + W[pending] = W[<<syst.init>>]

(* The traces dfs has reported and the final states that are pending are    *)
(* together the steps taken into final states; likewise for the cutoffs,    *)
(* the expanded states and the other steps.  The table holds inner states.  *)
StepsLeft(F, I, FS, IS) ==
  mode = "IPDFS" =>
    /\ \A s \in DOMAIN syst.succ : <<hash(s), s>> \in visited => enabled(s) # << >>
    /\ CountsSuccessors(F, I, FS, IS, syst) =>
         /\ n - 1 + F[pending] = F[<<syst.init>>] + FS[expanded]
         /\ m - 1 + I[pending] + Len(expanded) = I[<<syst.init>>] + IS[expanded]

(* A sum over a list is its head's and its tail's. *)
LEMMA SumOfTail ==
  ASSUME NEW y, NEW W, SumsOver(W, y), NEW s \in Seq(DOMAIN y.succ), s # << >>
  PROVE  /\ Head(s) \in DOMAIN y.succ /\ Tail(s) \in Seq(DOMAIN y.succ)
         /\ W[s] = W[<<Head(s)>>] + W[Tail(s)]
         /\ W[s] \in Nat /\ W[<<Head(s)>>] \in Nat /\ W[Tail(s)] \in Nat
<1>1. Head(s) \in DOMAIN y.succ /\ Tail(s) \in Seq(DOMAIN y.succ) /\ <<Head(s)>> \in Seq(DOMAIN y.succ)
  BY SetOfTail, SingletonList, Zenon
<1>2. s = <<Head(s)>> \o Tail(s)
  OBVIOUS
<1> QED BY <1>1, <1>2 DEF SumsOver

(* A sum over ts ++ ss. *)
LEMMA SumOfConcat ==
  ASSUME NEW y, NEW W, SumsOver(W, y), NEW s \in Seq(DOMAIN y.succ), NEW t \in Seq(DOMAIN y.succ)
  PROVE  W[s \o t] = W[s] + W[t] /\ W[s] \in Nat /\ W[t] \in Nat
BY DEF SumsOver

(* A sum over a list with one more element at its end. *)
LEMMA SumOfAppend ==
  ASSUME NEW y, NEW W, SumsOver(W, y), NEW s \in Seq(DOMAIN y.succ), NEW a \in DOMAIN y.succ
  PROVE  W[Append(s, a)] = W[s] + W[<<a>>]
<1>1. <<a>> \in Seq(DOMAIN y.succ)
  BY SingletonList, Zenon
<1>2. Append(s, a) = s \o <<a>>
  BY AppendIsConcat, Zenon
<1> QED BY <1>1, <1>2, SumOfConcat

(* Reporting a trace removes one path, and expanding a state replaces its   *)
(* paths by those of its successors.                                        *)
LEMMA PathsStep ==
  ASSUME NEW CONSTANT W, IInv, [Next]_vars, PathsLeft(W)
  PROVE  PathsLeft(W)'
<1> SUFFICES ASSUME mode' = "IPDFST", CountsPaths(W, syst')
             PROVE  n' - 1 + W[pending'] = W[<<syst'.init>>]
  BY DEF PathsLeft
<1>0. syst' = syst /\ mode' = mode
  BY DEF Next, vars, Execute, bfs, dfs_tree, dfs_cutoff, dfs, End
<1>1. /\ SumsOver(W, syst) /\ n \in Nat /\ pending \in Seq(DOMAIN syst.succ)
      /\ n - 1 + W[pending] = W[<<syst.init>>]
  BY <1>0 DEF CountsPaths, IInv, TypeOK, PathsLeft
<1>2. CASE dfs_tree
  <2> DEFINE h == Head(pending)
  <2>1. /\ h \in DOMAIN syst.succ /\ Tail(pending) \in Seq(DOMAIN syst.succ)
        /\ W[pending] = W[<<h>>] + W[Tail(pending)] /\ W[Tail(pending)] \in Nat
    BY <1>1, <1>2, SumOfTail DEF dfs_tree
  <2>2. enabled(h) \in Seq(DOMAIN syst.succ) /\ W[<<h>>] = IF enabled(h) = << >> THEN 1 ELSE W[enabled(h)]
    BY <2>1, <1>0, SystemFacts DEF CountsPaths, enabled
  <2>3. CASE enabled(h) = << >>
    <3>1. pending' = Tail(pending) /\ n' = n + 1 /\ W[<<h>>] = 1
      BY <2>2, <2>3, <1>2 DEF dfs_tree, Pop
    <3> QED BY <3>1, <2>1, <1>0, <1>1
  <2>4. CASE enabled(h) # << >>
    <3>1. pending' = enabled(h) \o Tail(pending) /\ n' = n
      BY <2>4, <1>2 DEF dfs_tree, Push
    <3>2. W[enabled(h) \o Tail(pending)] = W[enabled(h)] + W[Tail(pending)]
      BY <2>1, <2>2, <1>1, SumOfConcat, Zenon
    <3> QED BY <3>1, <3>2, <2>1, <2>2, <2>4, <1>0, <1>1
  <2> QED BY <2>3, <2>4
<1>3. CASE ~dfs_tree
  <2>1. pending' = pending /\ n' = n
    BY <1>0, <1>3 DEF Next, vars, Execute, bfs, dfs_cutoff, dfs, End, At
  <2> QED BY <2>1, <1>0, <1>1
<1> QED BY <1>2, <1>3

(* dfs_tree, run to its end, reports every maximal path from the initial    *)
(* state exactly once: as many traces as there are schedules, on every      *)
(* system whose paths can be counted.                                       *)
THEOREM EverySchedule ==
  ASSUME NEW CONSTANT W
  PROVE  Spec => [](mode = "IPDFST" /\ out = "end" /\ CountsPaths(W, syst) => n - 1 = W[<<syst.init>>])
<1>1. Init => PathsLeft(W)
  <2> SUFFICES ASSUME Init, CountsPaths(W, syst) PROVE n - 1 + W[pending] = W[<<syst.init>>]
    BY DEF PathsLeft
  <2>1. n = 1 /\ pending = <<syst.init>> /\ <<syst.init>> \in Seq(DOMAIN syst.succ)
    BY SystemsAssumption, SingletonList DEF Init, interpreter
  <2>2. W[<<syst.init>>] \in Nat
    BY <2>1 DEF CountsPaths, SumsOver
  <2> QED BY <2>1, <2>2
<1>2. ASSUME IInv, PathsLeft(W)
      PROVE  mode = "IPDFST" /\ out = "end" /\ CountsPaths(W, syst) => n - 1 = W[<<syst.init>>]
  BY <1>2 DEF IInv, TypeOK, Frontier, PathsLeft, CountsPaths, SumsOver
<1> QED BY <1>1, <1>2, PathsStep, Invariance, PTL DEF Spec

(* A report removes one pending state of its kind; an expansion replaces an *)
(* inner one by all its successors.                                         *)
LEMMA StepsStep ==
  ASSUME NEW CONSTANT F, NEW CONSTANT I, NEW CONSTANT FS, NEW CONSTANT IS,
         IInv, [Next]_vars, StepsLeft(F, I, FS, IS)
  PROVE  StepsLeft(F, I, FS, IS)'
<1> DEFINE h == Head(pending)
<1>0. syst' = syst /\ mode' = mode
  BY DEF Next, vars, Execute, bfs, dfs_tree, dfs_cutoff, dfs, End
<1> SUFFICES ASSUME mode = "IPDFS" PROVE StepsLeft(F, I, FS, IS)'
  BY <1>0 DEF StepsLeft
<1>1. \A s : enabled(s)' = enabled(s) /\ hash(s)' = hash(s)
  BY <1>0 DEF enabled, hash
<1>2. \A s \in DOMAIN syst.succ : <<hash(s), s>> \in visited => enabled(s) # << >>
  BY DEF StepsLeft
<1>3. \A s \in DOMAIN syst.succ : <<hash(s), s>> \in visited' => enabled(s) # << >>
  <2>1. CASE visited' = visited  BY <2>1, <1>2
  <2>2. CASE visited' # visited
    <3>1. visited' = H_insert(h) /\ enabled(h) # << >>
      BY <2>2 DEF Next, vars, Execute, bfs, dfs_tree, dfs_cutoff, dfs, End
    <3> QED BY <3>1, <1>2 DEF H_insert
  <2> QED BY <2>1, <2>2
<1>4. ASSUME CountsSuccessors(F, I, FS, IS, syst)
      PROVE  /\ n' - 1 + F[pending'] = F[<<syst.init>>] + FS[expanded']
             /\ m' - 1 + I[pending'] + Len(expanded') = I[<<syst.init>>] + IS[expanded']
  <2>1. /\ SumsOver(F, syst) /\ SumsOver(I, syst) /\ SumsOver(FS, syst) /\ SumsOver(IS, syst)
        /\ pending \in Seq(DOMAIN syst.succ) /\ expanded \in Seq(DOMAIN syst.succ)
    BY <1>4 DEF CountsSuccessors, IInv, TypeOK
  <2>2. /\ F[<<syst.init>>] \in Nat /\ I[<<syst.init>>] \in Nat /\ FS[expanded] \in Nat /\ IS[expanded] \in Nat
        /\ n \in Nat /\ m \in Nat /\ Len(expanded) \in Nat
    <3>1. <<syst.init>> \in Seq(DOMAIN syst.succ)  BY SystemFacts, SingletonList
    <3>2. n \in Nat /\ m \in Nat /\ Len(expanded) \in Nat  BY <2>1 DEF IInv, TypeOK
    <3> QED BY <3>1, <3>2, <2>1 DEF SumsOver
  <2>0. PICK fb \in Nat, ib \in Nat, fe \in Nat, ie \in Nat, l \in Nat :
          fb = F[<<syst.init>>] /\ ib = I[<<syst.init>>] /\ fe = FS[expanded] /\ ie = IS[expanded] /\ l = Len(expanded)
    BY <2>2
  <2>3. n - 1 + F[pending] = fb + fe /\ m - 1 + I[pending] + l = ib + ie /\ n \in Nat /\ m \in Nat
    BY <1>4, <2>0, <2>2 DEF StepsLeft
  <2>4. ASSUME pending # << >>
        PROVE  /\ F[pending] = F[<<h>>] + F[Tail(pending)] /\ F[Tail(pending)] \in Nat
               /\ I[pending] = I[<<h>>] + I[Tail(pending)] /\ I[Tail(pending)] \in Nat
               /\ F[<<h>>] = IF enabled(h) = << >> THEN 1 ELSE 0
               /\ I[<<h>>] = IF enabled(h) = << >> THEN 0 ELSE 1
               /\ h \in DOMAIN syst.succ /\ Tail(pending) \in Seq(DOMAIN syst.succ)
    <3>1. h \in DOMAIN syst.succ /\ Tail(pending) \in Seq(DOMAIN syst.succ)
      BY <2>4, SystemFacts
    <3>2. F[pending] = F[<<h>>] + F[Tail(pending)] /\ F[Tail(pending)] \in Nat
      BY <2>1, <2>4, SumOfTail, Zenon
    <3>3. I[pending] = I[<<h>>] + I[Tail(pending)] /\ I[Tail(pending)] \in Nat
      BY <2>1, <2>4, SumOfTail, Zenon
    <3>4. F[<<h>>] = (IF enabled(h) = << >> THEN 1 ELSE 0) /\ I[<<h>>] = (IF enabled(h) = << >> THEN 0 ELSE 1)
      BY <3>1, <1>4, Zenon DEF CountsSuccessors, enabled
    <3> QED BY <3>1, <3>2, <3>3, <3>4
  <2>5. CASE dfs_cutoff
    <3>1. /\ pending # << >> /\ isCutoff(h) /\ pending' = Tail(pending) /\ m' = m + 1
          /\ n' = n /\ expanded' = expanded
      BY <2>5 DEF dfs_cutoff, Pop
    <3>2. enabled(h) # << >>
      BY <3>1, <2>4, <1>2 DEF isCutoff
    <3>3. F[<<h>>] = 0 /\ I[<<h>>] = 1
      BY <3>1, <3>2, <2>4
    <3>4. PICK p \in Nat, q \in Nat : p = F[pending'] /\ F[pending] = 0 + p /\ q = I[pending'] /\ I[pending] = 1 + q
      BY <3>1, <3>3, <2>4, Zenon
    <3>5. n - 1 + (0 + p) = fb + fe /\ m - 1 + (1 + q) + l = ib + ie /\ n \in Nat /\ m \in Nat
      BY <3>4, <2>3, Zenon
    <3>6. n' = n /\ m' = m + 1
      BY <3>1
    <3>7. n' - 1 + p = fb + fe /\ m' - 1 + q + l = ib + ie
      BY <3>5, <3>6
    <3> QED BY <3>1, <3>4, <3>7, <2>0, Zenon
  <2>6. CASE dfs /\ enabled(h) = << >>
    <3>1. pending # << >> /\ pending' = Tail(pending) /\ n' = n + 1 /\ m' = m /\ expanded' = expanded
      BY <2>6 DEF dfs, Pop
    <3>2. F[<<h>>] = 1 /\ I[<<h>>] = 0
      BY <3>1, <2>6, <2>4
    <3>3. PICK p \in Nat, q \in Nat : p = F[pending'] /\ F[pending] = 1 + p /\ q = I[pending'] /\ I[pending] = 0 + q
      BY <3>1, <3>2, <2>4, Zenon
    <3>4. n - 1 + (1 + p) = fb + fe /\ m - 1 + (0 + q) + l = ib + ie /\ n \in Nat /\ m \in Nat
      BY <3>3, <2>3, Zenon
    <3>5. n' = n + 1 /\ m' = m
      BY <3>1
    <3>6. n' - 1 + p = fb + fe /\ m' - 1 + q + l = ib + ie
      BY <3>4, <3>5
    <3> QED BY <3>1, <3>3, <3>6, <2>0, Zenon
  <2>7. CASE dfs /\ enabled(h) # << >>
    <3>1. /\ pending # << >> /\ pending' = enabled(h) \o Tail(pending) /\ n' = n /\ m' = m
          /\ expanded' = Append(expanded, h)
      BY <2>7 DEF dfs, Push
    <3>2. F[<<h>>] = 0 /\ I[<<h>>] = 1
      BY <3>1, <2>7, <2>4
    <3>3. h \in DOMAIN syst.succ /\ Tail(pending) \in Seq(DOMAIN syst.succ) /\ enabled(h) \in Seq(DOMAIN syst.succ)
      BY <3>1, <2>4, SystemFacts
    <3>4. PICK p \in Nat, q \in Nat :
            p = F[Tail(pending)] /\ F[pending] = 0 + p /\ q = I[Tail(pending)] /\ I[pending] = 1 + q
      BY <3>1, <3>2, <2>4, Zenon
    <3>5. PICK f \in Nat : f = F[enabled(h)] /\ F[pending'] = f + p
      <4>1. F[enabled(h) \o Tail(pending)] = F[enabled(h)] + F[Tail(pending)] /\ F[enabled(h)] \in Nat
        BY <3>3, <2>1, SumOfConcat, Zenon
      <4> QED BY <4>1, <3>1, <3>4, Zenon
    <3>6. PICK i \in Nat : i = I[enabled(h)] /\ I[pending'] = i + q
      <4>1. I[enabled(h) \o Tail(pending)] = I[enabled(h)] + I[Tail(pending)] /\ I[enabled(h)] \in Nat
        BY <3>3, <2>1, SumOfConcat, Zenon
      <4> QED BY <4>1, <3>1, <3>4, Zenon
    <3>7. FS[expanded'] = fe + f /\ IS[expanded'] = ie + i
      <4>1. FS[<<h>>] = F[enabled(h)] /\ IS[<<h>>] = I[enabled(h)]
        BY <3>3, <1>4, Zenon DEF CountsSuccessors, enabled
      <4>2. FS[Append(expanded, h)] = FS[expanded] + FS[<<h>>] /\ IS[Append(expanded, h)] = IS[expanded] + IS[<<h>>]
        BY <3>3, <2>1, SumOfAppend, Zenon
      <4> QED BY <4>1, <4>2, <3>1, <3>5, <3>6, <2>0, Zenon
    <3>8. Len(expanded') = l + 1
      BY <3>1, <3>3, <2>0, <2>1
    <3>9. n - 1 + (0 + p) = fb + fe /\ m - 1 + (1 + q) + l = ib + ie /\ n \in Nat /\ m \in Nat
      BY <3>4, <2>3, Zenon
    <3>10. n - 1 + (f + p) = fb + (fe + f) /\ m - 1 + (i + q) + (l + 1) = ib + (ie + i)
      BY <3>9
    <3> QED BY <3>1, <3>5, <3>6, <3>7, <3>8, <3>10, <2>0, Zenon
  <2>8. CASE ~dfs /\ ~dfs_cutoff
    <3>1. pending' = pending /\ n' = n /\ m' = m /\ expanded' = expanded
      BY <2>8 DEF Next, vars, Execute, bfs, dfs_tree, End, At
    <3> QED BY <3>1, <1>4 DEF StepsLeft
  <2> QED BY <2>5, <2>6, <2>7, <2>8
<1> QED BY <1>0, <1>1, <1>3, <1>4 DEF StepsLeft

(* dfs, run to its end, reports one trace for every step into a state       *)
(* without successors and one cutoff for every step into another state,     *)
(* less one for every expansion, whatever states share a hash value: no     *)
(* pending state is lost or reported twice.                                 *)
THEOREM EveryStep ==
  ASSUME NEW CONSTANT F, NEW CONSTANT I, NEW CONSTANT FS, NEW CONSTANT IS
  PROVE  Spec => [](mode = "IPDFS" /\ out = "end" /\ CountsSuccessors(F, I, FS, IS, syst) =>
                      /\ n - 1 = F[<<syst.init>>] + FS[expanded]
                      /\ m - 1 = I[<<syst.init>>] + IS[expanded] - Len(expanded))
<1>1. Init => StepsLeft(F, I, FS, IS)
  <2> SUFFICES ASSUME Init PROVE StepsLeft(F, I, FS, IS)
    OBVIOUS
  <2>1. /\ n = 1 /\ m = 1 /\ visited = {} /\ pending = <<syst.init>> /\ expanded = << >>
        /\ <<syst.init>> \in Seq(DOMAIN syst.succ)
    BY SystemsAssumption, SingletonList DEF Init, interpreter
  <2>2. CountsSuccessors(F, I, FS, IS, syst) =>
          F[<<syst.init>>] \in Nat /\ I[<<syst.init>>] \in Nat /\ FS[<< >>] = 0 /\ IS[<< >>] = 0
    BY <2>1 DEF CountsSuccessors, SumsOver
  <2>3. Len(expanded) = 0
    BY <2>1
  <2> QED BY <2>1, <2>2, <2>3 DEF StepsLeft
<1>2. ASSUME IInv, StepsLeft(F, I, FS, IS), mode = "IPDFS", out = "end", CountsSuccessors(F, I, FS, IS, syst)
      PROVE  /\ n - 1 = F[<<syst.init>>] + FS[expanded]
             /\ m - 1 = I[<<syst.init>>] + IS[expanded] - Len(expanded)
  <2>1. /\ pending = << >> /\ n \in Nat /\ m \in Nat /\ Len(expanded) \in Nat
        /\ <<syst.init>> \in Seq(DOMAIN syst.succ) /\ expanded \in Seq(DOMAIN syst.succ)
    <3>1. pending = << >> /\ n \in Nat /\ m \in Nat /\ expanded \in Seq(DOMAIN syst.succ)
      BY <1>2 DEF IInv, TypeOK, Frontier
    <3>2. <<syst.init>> \in Seq(DOMAIN syst.succ)
      BY <1>2, SystemFacts, SingletonList, Zenon
    <3> QED BY <3>1, <3>2
  <2>2. /\ F[pending] = 0 /\ I[pending] = 0 /\ I[<<syst.init>>] \in Nat /\ F[<<syst.init>>] \in Nat
        /\ FS[expanded] \in Nat /\ IS[expanded] \in Nat
    BY <1>2, <2>1 DEF CountsSuccessors, SumsOver
  <2> QED BY <1>2, <2>1, <2>2 DEF StepsLeft
<1> QED BY <1>1, <1>2, StepsStep, Invariance, PTL DEF Spec
=============================================================================
