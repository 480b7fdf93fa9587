------------------------ MODULE EventStructureProofs ------------------------
(***************************************************************************)
(* The invariants of EventStructure for prefixes of any size.  IInv, their  *)
(* conjunction, is inductive; no part is inductive alone.  Every part is    *)
(* carried through the four operations add_ev, del_event, push and pop.     *)
(***************************************************************************)
EXTENDS EventStructure, TLAPS

(* Causality is well founded. *)
Founded == \A S \in SUBSET evs : S # {} => \E x \in S : past[x] \cap S = {}

IInv ==
  /\ TypeOK /\ Rooted /\ PredSuccInverse /\ Causality
  /\ LocalConfigurations /\ ConflictsNotInherited /\ StackIsConfiguration /\ Founded

(* The prefix with bottom alone satisfies the invariant. *)
LEMMA InitInv == Init => IInv
  <1> SUFFICES ASSUME Init PROVE IInv
    OBVIOUS
  <1>1. /\ TypeOK /\ Rooted /\ PredSuccInverse /\ Causality
        /\ LocalConfigurations /\ ConflictsNotInherited /\ StackIsConfiguration
    BY DEF Init, TypeOK, Rooted, PredSuccInverse, Causality, LocalConfigurations,
           ConflictsNotInherited, StackIsConfiguration, ConflictFree, Antichain, bot
  <1>2. Founded
    BY DEF Init, Founded
  <1> QED BY <1>1, <1>2 DEF IInv

(* The history of a new event is closed under causes and holds bottom, and  *)
(* the identifier of the event is fresh.                                    *)
LEMMA LocalHistory ==
  ASSUME IInv, NEW h \in SUBSET evs, h # {}
  PROVE  /\ localHistory(h) \subseteq evs
         /\ bot \in localHistory(h)
         /\ \A p \in localHistory(h) : past[p] \subseteq localHistory(h)
         /\ cntr \notin evs
  <1>1. localHistory(h) \subseteq evs
    <2>1. \A p \in h : past[p] \subseteq evs
      BY DEF IInv, TypeOK
    <2> QED BY <2>1 DEF localHistory
  <1>2. bot \in localHistory(h)
    BY DEF IInv, Rooted, localHistory
  <1>3. \A p \in localHistory(h) : past[p] \subseteq localHistory(h)
    BY DEF IInv, TypeOK, Causality, localHistory
  <1>4. cntr \notin evs
    BY DEF IInv, TypeOK, Rooted
  <1> QED BY <1>1, <1>2, <1>3, <1>4

(* add_ev preserves the invariant: the new event is maximal, and conflicts  *)
(* with nothing in its own history.                                         *)
LEMMA AddInv ==
  ASSUME IInv, NEW h \in SUBSET evs, NEW cnfls \in SUBSET evs, Add(h, cnfls)
  PROVE  IInv'
  <1> DEFINE lh == localHistory(h)
  <1>h. /\ lh \subseteq evs /\ bot \in lh /\ cntr \notin evs
        /\ \A p \in lh : past[p] \subseteq lh
    BY LocalHistory DEF Add, CanAdd
  <1>hh. h \subseteq lh
    BY DEF localHistory
  <1>n. /\ evs' = evs \cup {cntr} /\ conf' = conf /\ cntr' = cntr + 1
        /\ pred'[cntr] = h /\ succ'[cntr] = {} /\ icnf'[cntr] = cnfls /\ past'[cntr] = lh
    BY DEF Add, AddTo
  <1>o. \A e \in evs : /\ pred'[e] = pred[e] /\ past'[e] = past[e]
                       /\ succ'[e] = IF e \in h THEN succ[e] \cup {cntr} ELSE succ[e]
                       /\ icnf'[e] = IF e \in cnfls THEN icnf[e] \cup {cntr} ELSE icnf[e]
    BY <1>h DEF Add, AddTo
  <1>c. /\ cnfls \cap lh = {} /\ ConflictFree(lh) /\ Antichain(h)
        /\ \A a \in lh : \A c \in cnfls : (past[c] \cup {c}) \cap icnf[a] = {}
    BY DEF Add, CanAdd
  <1>t. TypeOK
    BY DEF IInv
  <1>p. \A e \in evs : past[e] \subseteq evs /\ cntr \notin past[e] /\ cntr \notin icnf[e] /\ cntr \notin pred[e]
    BY <1>t, <1>h DEF TypeOK
  <1>i. \A e, x \in evs : /\ x \in icnf'[e] <=> x \in icnf[e]
                          /\ x \in succ'[e] <=> x \in succ[e]
    BY <1>o, <1>h, Zenon
  <1>j. \A e \in evs : /\ cntr \in icnf'[e] <=> e \in cnfls
                       /\ cntr \in succ'[e] <=> e \in h
    BY <1>t, <1>o, <1>h, Zenon DEF TypeOK
  <1> HIDE DEF lh
  <1>1. TypeOK'
    <2>1. evs' \in SUBSET Nat /\ conf' \in SUBSET evs' /\ cntr' \in Nat
      BY <1>t, <1>n DEF TypeOK
    <2>2. pred' \in [evs' -> SUBSET evs'] /\ past' \in [evs' -> SUBSET evs']
      BY <1>t, <1>h, <1>n DEF TypeOK, Add, AddTo, lh
    <2>3. succ' \in [evs' -> SUBSET evs'] /\ icnf' \in [evs' -> SUBSET evs']
      BY <1>t, <1>h, <1>n DEF TypeOK, Add, AddTo
    <2> QED BY <2>1, <2>2, <2>3 DEF TypeOK
  <1>2. Rooted'
    <2>1. bot \in conf' /\ past'[bot] = {} /\ icnf'[bot] = {}
      BY <1>h, <1>n, <1>o, <1>c, Zenon DEF IInv, Rooted
    <2>r. /\ cntr \in Nat /\ \A e \in evs : e \in Nat
          /\ \A e \in evs : e < cntr /\ (e # bot => bot \in past[e])
          /\ \A e \in evs : \A p \in past[e] : p < e
      BY DEF IInv, TypeOK, Rooted
    <2>2. ASSUME NEW e \in evs' PROVE e < cntr' /\ (e # bot => bot \in past'[e])
      <3>1. CASE e = cntr
        BY <3>1, <2>r, <1>h, <1>n
      <3>2. CASE e \in evs
        <4>1. e < cntr + 1
          BY <3>2, <2>r
        <4> QED BY <3>2, <4>1, <2>r, <1>n, <1>o, Zenon
      <3> QED BY <3>1, <3>2, <1>n
    <2>3. ASSUME NEW e \in evs', NEW p \in past'[e] PROVE p < e
      <3>1. CASE e = cntr
        BY <3>1, <2>r, <1>h, <1>n
      <3>2. CASE e \in evs
        BY <3>2, <2>r, <1>o, Zenon
      <3> QED BY <3>1, <3>2, <1>n
    <2> QED BY <2>1, <2>2, <2>3 DEF Rooted, bot
  <1>3. PredSuccInverse'
    <2> SUFFICES ASSUME NEW e \in evs', NEW p \in evs'
                 PROVE  p \in pred'[e] <=> e \in succ'[p]
      BY DEF PredSuccInverse
    <2>1. CASE p = cntr
      BY <2>1, <1>n, <1>o, <1>p, <1>h, Zenon
    <2>2. CASE e = cntr /\ p \in evs
      BY <2>2, <1>n, <1>j
    <2>3. CASE e \in evs /\ p \in evs
      BY <2>3, <1>i, <1>o, Zenon DEF IInv, PredSuccInverse
    <2> QED BY <2>1, <2>2, <2>3, <1>n
  <1>4. Causality'
    <2> SUFFICES ASSUME NEW e \in evs'
                 PROVE  /\ pred'[e] \subseteq past'[e]
                        /\ \A p \in past'[e] : past'[p] \subseteq past'[e]
                        /\ \A p \in past'[e] : p \in pred'[e] \/ \E q \in pred'[e] : p \in past'[q]
                        /\ Antichain(pred[e])'
      BY DEF Causality
    <2>1. CASE e = cntr
      <3>1. \A p \in lh : p \in h \/ \E q \in h : p \in past[q]
        BY DEF lh, localHistory
      <3>2. pred'[e] = h /\ past'[e] = lh /\ \A p \in lh : past'[p] = past[p]
        BY <2>1, <1>n, <1>o, <1>h, Zenon
      <3>3. h \subseteq lh /\ \A p \in lh : past'[p] \subseteq lh
        BY <3>2, <1>h, <1>hh, Zenon
      <3>4. \A p \in lh : p \in h \/ \E q \in h : p \in past'[q]
        BY <3>1, <3>2, <1>hh, Zenon
      <3>5. Antichain(h)'
        BY <3>2, <1>hh, <1>c, Zenon DEF Antichain
      <3> QED BY <3>2, <3>3, <3>4, <3>5, Zenon DEF Antichain
    <2>2. CASE e \in evs
      <3>1. pred[e] \subseteq evs
        BY <2>2, <1>t DEF TypeOK
      <3>2. pred'[e] = pred[e] /\ past'[e] = past[e]
        BY <2>2, <1>o, Zenon
      <3>3. past[e] \subseteq evs /\ \A p \in evs : past'[p] = past[p]
        BY <2>2, <1>p, <1>o, Zenon
      <3>4. /\ pred[e] \subseteq past[e]
            /\ \A p \in past[e] : past[p] \subseteq past[e]
            /\ \A p \in past[e] : p \in pred[e] \/ \E q \in pred[e] : p \in past[q]
            /\ \A p, q \in pred[e] : p \notin past[q]
        BY <2>2 DEF IInv, Causality, Antichain
      <3>5. Antichain(pred[e])'
        BY <3>1, <3>2, <3>3, <3>4, Zenon DEF Antichain
      <3>6. \A p \in past[e] : p \in pred[e] \/ \E q \in pred[e] : p \in past'[q]
        BY <3>1, <3>3, <3>4, Zenon
      <3>7. \A p \in past[e] : past'[p] \subseteq past[e]
        BY <3>3, <3>4, Zenon
      <3> QED BY <3>2, <3>4, <3>5, <3>6, <3>7, Zenon
    <2> QED BY <2>1, <2>2, <1>n
  <1>5. LocalConfigurations'
    <2>1. ASSUME NEW a \in evs', NEW b \in evs', a \in icnf'[b]
          PROVE  b \in icnf'[a]
      <3>1. CASE a = cntr /\ b \in evs
        BY <2>1, <3>1, <1>j, <1>n
      <3>2. CASE b = cntr
        BY <2>1, <3>2, <1>j, <1>n
      <3>3. CASE a \in evs /\ b \in evs
        BY <2>1, <3>3, <1>i DEF IInv, LocalConfigurations
      <3> QED BY <3>1, <3>2, <3>3, <1>n
    <2>2. ASSUME NEW e \in evs'
          PROVE  ConflictFree(past[e] \cup {e})'
      <3>0. SUFFICES ASSUME NEW a \in past'[e] \cup {e}, NEW b \in past'[e] \cup {e}
                     PROVE  b \notin icnf'[a]
        BY DEF ConflictFree
      <3>1. CASE e = cntr
        <4>1. a \in lh \cup {cntr} /\ b \in lh \cup {cntr}
          BY <3>1, <1>n
        <4>2. CASE a \in lh /\ b \in lh
          BY <4>2, <1>h, <1>i, <1>c DEF ConflictFree
        <4>3. CASE a = cntr
          BY <4>1, <4>3, <1>n, <1>c, <1>h
        <4>4. CASE a \in lh /\ b = cntr
          BY <4>4, <1>j, <1>c, <1>h
        <4> QED BY <4>1, <4>2, <4>3, <4>4
      <3>2. CASE e \in evs
        <4>1. a \in past[e] \cup {e} /\ b \in past[e] \cup {e} /\ a \in evs /\ b \in evs
          BY <3>2, <1>o, <1>p, Zenon
        <4> QED BY <3>2, <4>1, <1>i DEF IInv, LocalConfigurations, ConflictFree
      <3> QED BY <3>1, <3>2, <1>n
    <2> QED BY <2>1, <2>2 DEF LocalConfigurations
  <1>6. ConflictsNotInherited'
    <2> SUFFICES ASSUME NEW a \in evs', NEW b \in icnf'[a],
                        NEW x \in past'[a] \cup past'[b], NEW y \in past'[a] \cup past'[b]
                 PROVE  y \notin icnf'[x]
      BY DEF ConflictsNotInherited, ConflictFree
    <2>s. \A u, v \in evs : u \in icnf[v] => v \in icnf[u]
      BY DEF IInv, LocalConfigurations
    <2>f. \A e \in evs : \A u, v \in past[e] : v \notin icnf[u]
      BY DEF IInv, LocalConfigurations, ConflictFree
    <2>c. \A c \in cnfls : \A u, v \in past[c] \cup lh : v \notin icnf[u]
      BY <2>s, <2>f, <1>c, <1>h, <1>p DEF ConflictFree
    <2>b. b \in evs'
      BY <1>1 DEF TypeOK
    <2>d. x \in evs /\ y \in evs
      BY <2>b, <1>n, <1>o, <1>p, <1>h, Zenon
    <2>1. CASE a = cntr
      <3>1. b \in cnfls
        BY <2>1, <1>n
      <3>2. x \in past[b] \cup lh /\ y \in past[b] \cup lh
        BY <3>1, <2>1, <1>n, <1>o, Zenon
      <3> QED BY <3>1, <3>2, <2>c, <2>d, <1>i
    <2>2. CASE a \in evs /\ b = cntr
      <3>1. a \in cnfls
        BY <2>2, <1>o, <1>p, Zenon
      <3>2. x \in past[a] \cup lh /\ y \in past[a] \cup lh
        BY <2>2, <1>n, <1>o, Zenon
      <3> QED BY <3>1, <3>2, <2>c, <2>d, <1>i
    <2>3. CASE a \in evs /\ b \in evs
      <3>1. b \in icnf[a]
        BY <2>3, <1>o, <1>h, Zenon
      <3>2. y \notin icnf[x]
        BY <3>1, <2>3, <1>o, Zenon DEF IInv, ConflictsNotInherited, ConflictFree
      <3> QED BY <3>2, <2>d, <1>i
    <2> QED BY <2>1, <2>2, <2>3, <2>b, <1>n
  <1>7. StackIsConfiguration'
    <2>1. conf \subseteq evs
      BY <1>t DEF TypeOK
    <2>2. \A e \in conf' : past'[e] \subseteq conf'
      BY <2>1, <1>n, <1>o, Zenon DEF IInv, StackIsConfiguration
    <2>3. ConflictFree(conf)'
      BY <2>1, <1>n, <1>i DEF IInv, StackIsConfiguration, ConflictFree
    <2> QED BY <2>2, <2>3 DEF StackIsConfiguration
  <1>8. Founded'
    <2> SUFFICES ASSUME NEW S, S \subseteq evs', S # {} PROVE \E x \in S : past'[x] \cap S = {}
      BY Zenon DEF Founded
    <2>1. CASE S = {cntr}
      BY <2>1, <1>n, <1>h
    <2>2. CASE S # {cntr}
      <3>1. S \ {cntr} \in SUBSET evs /\ S \ {cntr} # {}
        BY <2>2, <1>n
      <3>2. PICK x \in S \ {cntr} : past[x] \cap (S \ {cntr}) = {}
        BY <3>1 DEF IInv, Founded
      <3>3. x \in evs /\ cntr \notin past[x] /\ past'[x] = past[x]
        BY <3>1, <1>o, <1>p
      <3> QED BY <3>2, <3>3
    <2> QED BY <2>1, <2>2
  <1> QED BY <1>1, <1>2, <1>3, <1>4, <1>5, <1>6, <1>7, <1>8 DEF IInv

(* del_event preserves the invariant: what is left is closed under causes,  *)
(* and the configuration, which does not hold e, loses nothing.             *)
LEMMA DeleteInv ==
  ASSUME IInv, NEW e \in evs, Delete(e)
  PROVE  IInv'
  <1>t. TypeOK
    BY DEF IInv
  <1>n. /\ evs' = evs \ Above(e) /\ evs' \subseteq evs /\ conf' = conf /\ cntr' = cntr /\ e \notin conf
        /\ \A x \in evs' : /\ pred'[x] = pred[x] /\ past'[x] = past[x]
                            /\ succ'[x] = succ[x] \ Above(e) /\ icnf'[x] = icnf[x] \ Above(e)
    BY DEF Delete, del_event
  <1>a. \A x \in evs : x \in Above(e) <=> (x = e \/ e \in past[x])
    BY DEF Above
  <1>p. \A x \in evs' : past[x] \subseteq evs' /\ pred[x] \subseteq evs'
    <2> SUFFICES ASSUME NEW x \in evs', NEW y \in past[x] \cup pred[x] PROVE y \in evs'
      OBVIOUS
    <2>1. x \in evs /\ e \notin past[x] /\ x # e
      BY <1>n, <1>a
    <2>2. y \in past[x] /\ past[y] \subseteq past[x] /\ y \in evs
      BY <2>1, <1>t DEF IInv, Causality, TypeOK
    <2> QED BY <2>1, <2>2, <1>n, <1>a
  <1>c. conf \subseteq evs'
    BY <1>t, <1>n, <1>a DEF IInv, StackIsConfiguration, TypeOK
  <1>i. \A x, y \in evs' : (y \in icnf'[x] <=> y \in icnf[x]) /\ (y \in succ'[x] <=> y \in succ[x])
    BY <1>n
  <1>1. TypeOK'
    <2>1. evs' \in SUBSET Nat /\ conf' \in SUBSET evs' /\ cntr' \in Nat
      BY <1>t, <1>n, <1>c, Zenon DEF TypeOK
    <2>2. pred' \in [evs' -> SUBSET evs'] /\ past' \in [evs' -> SUBSET evs']
      BY <1>n, <1>p DEF Delete, del_event
    <2>3. succ' \in [evs' -> SUBSET evs'] /\ icnf' \in [evs' -> SUBSET evs']
      BY <1>t, <1>n, Zenon DEF TypeOK, Delete, del_event
    <2> QED BY <2>1, <2>2, <2>3 DEF TypeOK
  <1>2. Rooted'
    <2>1. bot \in conf /\ bot \in evs'
      BY <1>c DEF IInv, Rooted
    <2> QED BY <2>1, <1>n DEF IInv, Rooted, bot
  <1>3. PredSuccInverse'
    BY <1>n, <1>i DEF IInv, PredSuccInverse
  <1>4. Causality'
    BY <1>n, <1>p DEF IInv, Causality, Antichain
  <1>5. LocalConfigurations'
    <2>1. \A a, b \in evs' : a \in icnf'[b] => b \in icnf'[a]
      BY <1>n, <1>i DEF IInv, LocalConfigurations
    <2>2. \A x \in evs' : ConflictFree(past[x] \cup {x})'
      BY <1>n, <1>i, <1>p DEF IInv, LocalConfigurations, ConflictFree
    <2> QED BY <2>1, <2>2 DEF LocalConfigurations
  <1>6. ConflictsNotInherited'
    <2> SUFFICES ASSUME NEW a \in evs', NEW b \in icnf'[a]
                 PROVE  ConflictFree(past[a] \cup past[b])'
      BY DEF ConflictsNotInherited
    <2>1. b \in evs' /\ b \in icnf[a] /\ a \in evs
      BY <1>1, <1>n DEF TypeOK
    <2>2. ConflictFree(past[a] \cup past[b])
      BY <2>1 DEF IInv, ConflictsNotInherited
    <2> QED BY <2>1, <2>2, <1>n, <1>i, <1>p DEF ConflictFree
  <1>7. StackIsConfiguration'
    <2>1. \A x \in conf' : past'[x] \subseteq conf'
      BY <1>n, <1>c DEF IInv, StackIsConfiguration
    <2>2. ConflictFree(conf)'
      BY <1>n, <1>c, <1>i DEF IInv, StackIsConfiguration, ConflictFree
    <2> QED BY <2>1, <2>2 DEF StackIsConfiguration
  <1>8. Founded'
    BY <1>n DEF IInv, Founded
  <1> QED BY <1>1, <1>2, <1>3, <1>4, <1>5, <1>6, <1>7, <1>8 DEF IInv

(* push and pop leave the prefix alone; the configuration stays one because *)
(* it grows by an extension and shrinks by a maximal event.                 *)
LEMMA PushPopInv ==
  ASSUME IInv, NEW e \in evs, Push(e) \/ Pop(e)
  PROVE  IInv'
  <1>n. UNCHANGED <<evs, pred, succ, icnf, past, cntr>>
    BY DEF Push, Pop, push, pop, prefix
  <1>1. TypeOK' /\ bot \in conf'
    BY <1>n, Zenon DEF IInv, TypeOK, Rooted, Push, Pop, push, pop
  <1>2. Rooted'
    BY <1>1, <1>n DEF IInv, Rooted, bot
  <1>3. PredSuccInverse' /\ Causality' /\ LocalConfigurations' /\ ConflictsNotInherited'
    BY <1>n DEF IInv, PredSuccInverse, Causality, LocalConfigurations, ConflictsNotInherited,
                ConflictFree, Antichain
  <1>4. StackIsConfiguration'
    <2>1. CASE Push(e)
      <3>1. \A x \in conf' : past'[x] \subseteq conf'
        BY <2>1, <1>n DEF Push, Extends, push, IInv, StackIsConfiguration
      <3>2. ConflictFree(conf)'
        <4>1. e \notin icnf[e]
          BY DEF IInv, LocalConfigurations, ConflictFree
        <4>2. \A a \in conf : a \notin icnf[e] /\ e \notin icnf[a]
          BY <2>1 DEF Push, Extends, IInv, TypeOK, LocalConfigurations
        <4> QED BY <2>1, <4>1, <4>2, <1>n DEF Push, push, IInv, StackIsConfiguration, ConflictFree
      <3> QED BY <3>1, <3>2 DEF StackIsConfiguration
    <2>2. CASE Pop(e)
      BY <2>2, <1>n DEF Pop, pop, IInv, StackIsConfiguration, ConflictFree
    <2> QED BY <2>1, <2>2
  <1>5. Founded'
    BY <1>n DEF IInv, Founded
  <1> QED BY <1>1, <1>2, <1>3, <1>4, <1>5 DEF IInv

(* Every step preserves the invariant. *)
LEMMA NextInv == IInv /\ [Next]_vars => IInv'
  <1> SUFFICES ASSUME IInv, [Next]_vars PROVE IInv'
    OBVIOUS
  <1>1. ASSUME NEW h \in SUBSET evs, NEW cnfls \in SUBSET evs, Add(h, cnfls) PROVE IInv'
    BY <1>1, AddInv
  <1>2. ASSUME NEW e \in evs, Delete(e) PROVE IInv'
    BY <1>2, DeleteInv
  <1>3. ASSUME NEW e \in evs, Push(e) \/ Pop(e) PROVE IInv'
    BY <1>3, PushPopInv
  <1>4. CASE UNCHANGED vars
    BY <1>4 DEF vars, IInv, TypeOK, Rooted, PredSuccInverse, Causality, LocalConfigurations,
                ConflictsNotInherited, StackIsConfiguration, Founded, ConflictFree, Antichain, bot
  <1> QED BY <1>1, <1>2, <1>3, <1>4 DEF Next

(* The invariants together hold of every behaviour: whatever add_ev,        *)
(* del_event, push and pop do, in any order, the prefix stays an event      *)
(* structure and the stack one of its configurations.                       *)
THEOREM Invariance == Spec => []IInv
  BY InitInv, NextInv, PTL DEF Spec

(* The table stays well formed: every link leads to an event of the table,  *)
(* so no get_event on a neighbour fails, whatever is added and deleted.     *)
THEOREM TypeCorrect == Spec => []TypeOK
  <1>1. IInv => TypeOK BY DEF IInv
  <1> QED BY <1>1, Invariance, PTL

(* Identifiers grow along causality and bottom is below every event: the    *)
(* recursive walks predecessors and successors (API.hs) end.                *)
THEOREM RootedAlways == Spec => []Rooted
  <1>1. IInv => Rooted BY DEF IInv
  <1> QED BY <1>1, Invariance, PTL

(* The call stack of explore is a configuration at every moment, and no     *)
(* deletion of stateless mode takes one of its events away.                 *)
THEOREM StackAlwaysConfiguration == Spec => []StackIsConfiguration
  <1>1. IInv => StackIsConfiguration BY DEF IInv
  <1> QED BY <1>1, Invariance, PTL

(* pred and succ describe one order: add_succ and del_event (API.hs) keep   *)
(* the two directions of every link together, what predecessors (API.hs)    *)
(* computes is the closure of pred, and the history of an event stays an    *)
(* antichain.                                                               *)
THEOREM OneOrder == Spec => []CausalOrder
  <1>1. IInv => CausalOrder BY DEF IInv, CausalOrder
  <1> QED BY <1>1, Invariance, PTL

(* An identifier means the same event, with the same past, for as long as   *)
(* it is in the prefix, and is never used again once deleted.               *)
THEOREM PastStaysFixed == Spec => PastIsFixed
  <1> DEFINE Fixed == /\ cntr' >= cntr
                      /\ \A e \in evs' : e \in evs \/ e >= cntr
                      /\ \A e \in evs \cap evs' : past'[e] = past[e] /\ pred'[e] = pred[e]
  <1>1. IInv /\ [Next]_vars => [Fixed]_vars
    <2> SUFFICES ASSUME IInv, Next PROVE Fixed
      OBVIOUS
    <2>0. cntr \in Nat /\ cntr \notin evs
      BY DEF IInv, TypeOK, Rooted
    <2>1. ASSUME NEW h \in SUBSET evs, NEW cnfls \in SUBSET evs, Add(h, cnfls) PROVE Fixed
      BY <2>0, <2>1 DEF Add, AddTo
    <2>2. ASSUME NEW e \in evs, Delete(e) PROVE Fixed
      BY <2>0, <2>2 DEF Delete, del_event
    <2>3. ASSUME NEW e \in evs, Push(e) \/ Pop(e) PROVE Fixed
      BY <2>0, <2>3 DEF Push, Pop, push, pop, prefix
    <2> QED BY <2>1, <2>2, <2>3 DEF Next
  <1> QED BY <1>1, Invariance, PTL DEF Spec, PastIsFixed
=============================================================================
