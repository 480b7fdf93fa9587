--------------------------- MODULE FixpointProofs ---------------------------
(***************************************************************************)
(* The fixpoint engine, for every set of graphs, every widening level and  *)
(* every set of variables: when the worklist is empty the facts are a post-*)
(* fixpoint, and every error call the table reaches has a warning.         *)
(* On graphs without the condition != it meets no error, its facts contain *)
(* every store a run of the block can have, and they only grow.            *)
(***************************************************************************)
EXTENDS FixpointFacts

(* An edge that yields bottom preserves the invariant ... *)
LEMMA BottomInv ==
  ASSUME IInv, worklist_bottom
  PROVE  IInv'
<1>1. PICK e \in Edges(graph) : AtEdge(e) /\ Fine(e) /\ Effect(e).bot /\ add_warns(e)
  BY DEF worklist_bottom
<1>2. /\ wlist' = Tail(wlist)
      /\ UNCHANGED <<graph, fs_wid, table, fs_mark, fs_wide, marks, results, out, local>>
  BY DEF worklist_bottom
<1>3. /\ out = "worklist" /\ e \in Set(wlist) /\ src(e) \in DOMAIN table
      /\ Tail(wlist) \in Seq(Edges(graph)) /\ Distinct(Tail(wlist))
      /\ Set(wlist) = {e} \cup Set(Tail(wlist)) /\ e \notin Set(Tail(wlist))
  BY <1>1, AtEdgeFacts DEF IInv
<1>4. fs_warns \subseteq fs_warns' /\ fs_warns' \subseteq Nodes(graph) /\ (code(e).k = "error" => src(e) \in fs_warns')
  BY <1>1, WarnFacts DEF IInv
<1>5. /\ \A d : src(d)' = src(d) /\ dst(d)' = dst(d) /\ tags(d)' = tags(d) /\ code(d)' = code(d) /\ Ends(d)' = Ends(d)
      /\ StartEnds' = StartEnds
  BY <1>2, SameGraph
<1>6. Set(wlist') = Set(Tail(wlist))
  BY <1>2
<1>7. Typed'
  BY <1>2, <1>3, <1>4 DEF IInv, Typed, TypeOK, Distinct, Set
<1>8. ASSUME NEW d \in Edges(graph), src(d) \in DOMAIN table, d \notin Set(Tail(wlist))
      PROVE  Settled(table, d)'
  <2>1. CASE d = e
    <3>1. ~aborts(table[src(e)].st, code(e)) /\ EffectIn(table, e).bot
      BY <1>1, <1>3, FineFacts, SMTT(30) DEF Effect, EffectIn
    <3> QED BY <1>2, <1>4, <1>5, <2>1, <3>1 DEF Settled, EffectIn
  <2>2. CASE d # e
    <3>1. Settled(table, d)
      BY <1>3, <1>8, <2>2, SMTT(30) DEF IInv, WorkInv
    <3> QED BY <1>2, <1>4, <1>5, <3>1, SMTT(30) DEF Settled, EffectIn
  <2> QED BY <2>1, <2>2
<1>9. WorkInv'
  <2>1. /\ marks' = {} /\ results' = << >>
        /\ graph'.start \in DOMAIN table' /\ leqState(graph'.st, table'[graph'.start].st)
        /\ (StartEnds => DOMAIN table = {graph.start})'
    BY <1>2, <1>3, <1>5, Zenon DEF IInv, WorkInv
  <2>2. \A p \in DOMAIN table' :
          /\ ~isGlobal(table'[p].act)
          /\ p = graph'.start \/ \E d \in Edges(graph') : dst(d)' = p /\ ~Ends(d)'
    BY <1>2, <1>3, <1>5, ZenonT(30) DEF IInv, WorkInv
  <2>3. \A d \in Set(wlist') \cup fs_mark' : src(d)' \in DOMAIN table'
    BY <1>2, <1>3, <1>5, <1>6, SMTT(30) DEF IInv, WorkInv
  <2>4. \A d \in fs_mark' : Ends(d)'
    BY <1>2, <1>3, <1>5, SMTT(30) DEF IInv, WorkInv
  <2>5. \A d \in Edges(graph') : src(d)' \in DOMAIN table' /\ d \notin Set(wlist') => Settled(table, d)'
    BY <1>2, <1>5, <1>6, <1>8, SMTT(30)
  <2> QED BY <2>1, <2>2, <2>3, <2>4, <2>5 DEF WorkInv, Set
<1>10. MarkInv'
  BY <1>2, <1>3 DEF MarkInv
<1> QED BY <1>7, <1>9, <1>10 DEF IInv
(* ... and one that reaches a mark ... *)
LEMMA MarkEdgeInv ==
  ASSUME IInv, worklist_mark
  PROVE  IInv'
<1>1. PICK e \in Edges(graph) : /\ AtEdge(e) /\ Fine(e) /\ ~Effect(e).bot /\ Marked(e) /\ add_warns(e)
                                 /\ fs_mark' = fs_mark \cup {e}
  BY DEF worklist_mark
<1>2. /\ wlist' = Tail(wlist)
      /\ UNCHANGED <<graph, fs_wid, table, fs_wide, marks, results, out, local>>
  BY DEF worklist_mark
<1>3. /\ out = "worklist" /\ e \in Set(wlist) /\ src(e) \in DOMAIN table
      /\ Tail(wlist) \in Seq(Edges(graph)) /\ Distinct(Tail(wlist))
      /\ Set(wlist) = {e} \cup Set(Tail(wlist)) /\ e \notin Set(Tail(wlist))
  BY <1>1, AtEdgeFacts DEF IInv
<1>4. fs_warns \subseteq fs_warns' /\ fs_warns' \subseteq Nodes(graph) /\ (code(e).k = "error" => src(e) \in fs_warns')
  BY <1>1, WarnFacts DEF IInv
<1>5. /\ \A d : src(d)' = src(d) /\ dst(d)' = dst(d) /\ tags(d)' = tags(d) /\ code(d)' = code(d) /\ Ends(d)' = Ends(d)
      /\ StartEnds' = StartEnds
  BY <1>2, SameGraph
<1>m. Ends(e)
  <2>1. ~isGlobal(table[src(e)].act)
    BY <1>3 DEF IInv, WorkInv
  <2> QED BY <1>1, <2>1, MarkedEnds DEF IInv, Typed
<1>6. Set(wlist') = Set(Tail(wlist))
  BY <1>2, SMTT(30)
<1>7. Typed'
  BY <1>1, <1>2, <1>3, <1>4, SMTT(30) DEF IInv, Typed, TypeOK, Distinct, Set
<1>8. ASSUME NEW d \in Edges(graph), src(d) \in DOMAIN table, d \notin Set(Tail(wlist))
      PROVE  Settled(table, d)'
  <2>1. CASE d = e
    <3>1. ~aborts(table[src(e)].st, code(e))
      BY <1>1, <1>3, FineFacts, SMTT(30)
    <3> QED BY <1>1, <1>2, <1>4, <1>5, <1>m, <2>1, <3>1 DEF Settled, EffectIn
  <2>2. CASE d # e
    <3>1. Settled(table, d)
      BY <1>3, <1>8, <2>2 DEF IInv, WorkInv
    <3> QED BY <1>1, <1>2, <1>4, <1>5, <3>1, SMTT(30) DEF Settled, EffectIn
  <2> QED BY <2>1, <2>2
<1>9. WorkInv'
  <2>1. /\ marks' = {} /\ results' = << >>
        /\ graph'.start \in DOMAIN table' /\ leqState(graph'.st, table'[graph'.start].st)
        /\ (StartEnds => DOMAIN table = {graph.start})'
    BY <1>2, <1>3, <1>5, Zenon DEF IInv, WorkInv
  <2>2. \A p \in DOMAIN table' :
          /\ ~isGlobal(table'[p].act)
          /\ p = graph'.start \/ \E d \in Edges(graph') : dst(d)' = p /\ ~Ends(d)'
    BY <1>2, <1>3, <1>5, ZenonT(30) DEF IInv, WorkInv
  <2>3. \A d \in Set(wlist') \cup fs_mark' : src(d)' \in DOMAIN table'
    BY <1>1, <1>2, <1>3, <1>5, <1>6, SMTT(30) DEF IInv, WorkInv
  <2>4. \A d \in fs_mark' : Ends(d)'
    BY <1>1, <1>2, <1>3, <1>5, <1>m, SMTT(30) DEF IInv, WorkInv
  <2>5. \A d \in Edges(graph') : src(d)' \in DOMAIN table' /\ d \notin Set(wlist') => Settled(table, d)'
    BY <1>2, <1>5, <1>6, <1>8, SMTT(30)
  <2> QED BY <2>1, <2>2, <2>3, <2>4, <2>5 DEF WorkInv, Set
<1>10. MarkInv'
  BY <1>2, <1>3, SMTT(30) DEF MarkInv
<1> QED BY <1>7, <1>9, <1>10 DEF IInv

(* ... and one that updates the table ... *)
LEMMA UpdateInv ==
  ASSUME IInv, worklist_update
  PROVE  IInv'
<1>1. PICK e \in Edges(graph) :
        /\ AtEdge(e) /\ Fine(e) /\ ~Effect(e).bot /\ ~Marked(e) /\ add_warns(e) /\ inc_wide(e)
        /\ table' = update_node_table(dst(e), update(e, Effect(e).st, Acts(e)))
        /\ wlist' = IF is_fix(dst(e), update(e, Effect(e).st, Acts(e))) THEN Tail(wlist)
                    ELSE nub_append(Tail(wlist), succs(dst(e)))
  BY DEF worklist_update
<1>2. UNCHANGED <<graph, fs_wid, fs_mark, marks, results, out, local>>
  BY DEF worklist_update
<1> DEFINE p == dst(e)
           f == update(e, Effect(e).st, Acts(e))
<1>3. /\ out = "worklist" /\ e \in Set(wlist) /\ src(e) \in DOMAIN table
      /\ Tail(wlist) \in Seq(Edges(graph)) /\ Distinct(Tail(wlist))
      /\ Set(wlist) = {e} \cup Set(Tail(wlist)) /\ e \notin Set(Tail(wlist))
  BY <1>1, AtEdgeFacts DEF IInv
<1>4. fs_warns \subseteq fs_warns' /\ fs_warns' \subseteq Nodes(graph) /\ (code(e).k = "error" => src(e) \in fs_warns')
  BY <1>1, WarnFacts DEF IInv
<1>5. /\ \A d : src(d)' = src(d) /\ dst(d)' = dst(d) /\ tags(d)' = tags(d) /\ code(d)' = code(d) /\ Ends(d)' = Ends(d)
      /\ StartEnds' = StartEnds
  BY <1>2, SameGraph
<1>6. ~aborts(table[src(e)].st, code(e)) /\ ~widens_empty(e)
  BY <1>1, <1>3, FineFacts, WideningNonEmpty DEF IInv
<1>7. /\ DOMAIN table' = DOMAIN table \cup {p}
      /\ \A q \in DOMAIN table : q # p => table'[q] = table[q]
      /\ table'[p].st \in States /\ leqState(Effect(e).st, table'[p].st)
      /\ Joins(tags(e)) /\ p \in DOMAIN table => leqState(table[p].st, table'[p].st)
      /\ is_fix(p, f) => table' = table
      /\ ~isGlobal(Acts(e)) /\ (p \in DOMAIN table => ~isGlobal(table[p].act)) => ~isGlobal(table'[p].act)
  BY <1>1, <1>3, <1>6, UpdateTable, ZenonT(30) DEF IInv
<1>8. ~Ends(e) /\ ~isGlobal(Acts(e))
  <2>1. ~isGlobal(table[src(e)].act)
    BY <1>3 DEF IInv, WorkInv
  <2> QED BY <1>1, <2>1, MarkedEnds, ZenonT(30) DEF IInv, Typed, Marked
<1>9. /\ graph \in Graphs /\ p \in Nodes(graph) /\ succs(p) \in Seq(Edges(graph)) /\ Len(succs(p)) <= 2
      /\ \A d \in Set(succs(p)) : d \in Edges(graph) /\ src(d) = p
      /\ \A d \in Edges(graph) : d \in Set(succs(src(d)))
  BY GraphFacts DEF IInv, Typed
<1>10. /\ wlist' \in Seq(Edges(graph)) /\ Distinct(wlist')
       /\ is_fix(p, f) => Set(wlist') = Set(Tail(wlist))
       /\ ~is_fix(p, f) => Set(wlist') = Set(Tail(wlist)) \cup Set(succs(p))
  <2> DEFINE n == nub_append(Tail(wlist), succs(p))
  <2>1. n \in Seq(Edges(graph)) /\ Distinct(n) /\ Set(n) = Set(Tail(wlist)) \cup Set(succs(p))
    <3>1. \A s, t \in Seq(Edges(graph)) : Len(t) <= 2 /\ Distinct(s) =>
            LET u == nub_append(s, t) IN u \in Seq(Edges(graph)) /\ Distinct(u) /\ Set(u) = Set(s) \cup Set(t)
      BY NubList
    <3> QED BY <1>3, <1>9, <3>1, Zenon
  <2>2. (is_fix(p, f) => wlist' = Tail(wlist)) /\ (~is_fix(p, f) => wlist' = n)
    BY <1>1, SMTT(30)
  <2> QED BY <1>3, <2>1, <2>2, Zenon
<1> HIDE DEF p, f
<1>11. Typed'
  <2>1. \A q \in DOMAIN table' : table'[q].st \in States
    BY <1>7 DEF IInv, Typed, TypeOK
  <2>2. DOMAIN table' \subseteq Nodes(graph')
    BY <1>2, <1>7, <1>9, Zenon DEF IInv, Typed, TypeOK
  <2>3. wlist' \in Seq(Edges(graph')) /\ \A i, j \in DOMAIN wlist' : wlist'[i] = wlist'[j] => i = j
    BY <1>2, <1>10, SMTT(30) DEF Distinct
  <2>4. TypeOK'
    BY <1>2, <1>4, <2>1, <2>2, <2>3 DEF IInv, Typed, TypeOK
  <2>5. fs_wide' \in [Nodes(graph) -> Nat] /\ \A q \in Nodes(graph) : fs_wide'[q] > 0 => q \in DOMAIN table'
    BY <1>1, <1>2, <1>7, WideFacts, ZenonT(30) DEF IInv, p
  <2> QED BY <1>2, <2>4, <2>5, ZenonT(30) DEF IInv, Typed, Set
<1>12. ASSUME NEW d \in Edges(graph), src(d) \in DOMAIN table', d \notin Set(wlist')
       PROVE  Settled(table, d)'
  <2>1. src(d) \in DOMAIN table /\ table'[src(d)] = table[src(d)]
    <3>1. CASE is_fix(p, f)
      BY <1>7, <1>12, <3>1, SMTT(30)
    <3>2. CASE ~is_fix(p, f)
      <4>1. src(d) # p
        BY <1>9, <1>10, <1>12, <3>2
      <4> QED BY <1>7, <1>12, <4>1
    <3> QED BY <3>1, <3>2, SMTT(30)
  <2>2. CASE d = e
    <3>1. EffectIn(table', e) = Effect(e) /\ EffectIn(table, e)' = Effect(e)
      BY <1>5, <2>1, <2>2 DEF Effect, EffectIn
    <3> QED BY <1>4, <1>5, <1>6, <1>7, <1>8, <2>1, <2>2, <3>1, ZenonT(30) DEF Settled, p
  <2>3. CASE d # e
    <3>1. d \notin Set(wlist)
      BY <1>3, <1>10, <1>12, <2>3, SMTT(30)
    <3>2. Settled(table, d)
      BY <1>3, <2>1, <3>1, SMTT(30) DEF IInv, WorkInv
    <3>3. EffectIn(table, d)' = EffectIn(table, d)
      BY <1>5, <2>1 DEF EffectIn
    <3>4. ASSUME ~Ends(d), ~EffectIn(table, d).bot, dst(d) \in DOMAIN table,
                 leqState(EffectIn(table, d).st, table[dst(d)].st)
          PROVE  leqState(EffectIn(table, d).st, table'[dst(d)].st)
      <4>1. CASE dst(d) # p
        BY <1>7, <3>4, <4>1, SMTT(30)
      <4>2. CASE dst(d) = p
        <5>1. Joins(tags(e))
          BY <1>9, <2>3, <4>2, StructuredGraph, SMTT(30) DEF p
        <5>2. leqState(table[p].st, table'[p].st)
          BY <1>7, <3>4, <4>2, <5>1
        <5>3. EffectIn(table, d).st \in States /\ table[p].st \in States
          BY <1>9, <2>1, <3>2, <3>4, <4>2, TransformerType, GraphFacts, ZenonT(30) DEF EffectIn, Settled, IInv, Typed, TypeOK
        <5> QED BY <1>7, <3>4, <4>2, <5>2, <5>3, LeqStateOrder, SMTT(30)
      <4> QED BY <4>1, <4>2, SMTT(30)
    <3>5. /\ ~aborts(table[src(d)].st, code(d))
          /\ code(d).k = "error" => src(d) \in fs_warns'
      BY <1>4, <3>2 DEF Settled
    <3>6. \/ EffectIn(table, d).bot
          \/ Ends(d) /\ d \in fs_mark
          \/ ~Ends(d) /\ dst(d) \in DOMAIN table' /\ leqState(EffectIn(table, d).st, table'[dst(d)].st)
      BY <1>7, <3>2, <3>4, ZenonT(30) DEF Settled
    <3> QED BY <1>2, <1>5, <2>1, <3>3, <3>5, <3>6, ZenonT(30) DEF Settled
  <2> QED BY <2>2, <2>3
<1>13. WorkInv'
  <2>1. marks' = {} /\ results' = << >>
    BY <1>2, <1>3 DEF IInv, WorkInv
  <2>2. graph'.start \in DOMAIN table' /\ leqState(graph'.st, table'[graph'.start].st)
    <3>1. graph.start \in DOMAIN table /\ leqState(graph.st, table[graph.start].st)
      BY <1>3 DEF IInv, WorkInv
    <3>2. CASE graph.start # p
      BY <1>2, <1>7, <3>1, <3>2, ZenonT(30)
    <3>3. CASE graph.start = p
      <4>1. Joins(tags(e))
        BY <1>8, <1>9, <3>3, StructuredGraph, SMTT(30) DEF p
      <4>2. leqState(table[p].st, table'[p].st)
        BY <1>7, <3>1, <3>3, <4>1, SMTT(30)
      <4>3. graph.st \in States /\ table[p].st \in States
        BY <1>9, <3>1, <3>3, GraphFacts, ZenonT(30) DEF IInv, Typed, TypeOK
      <4> QED BY <1>2, <1>7, <3>1, <3>3, <4>2, <4>3, LeqStateOrder, SMTT(30)
    <3> QED BY <3>2, <3>3, SMTT(30)
  <2>3. ASSUME NEW q \in DOMAIN table'
        PROVE  ~isGlobal(table'[q].act) /\ (q = graph.start \/ \E d \in Edges(graph) : dst(d) = q /\ ~Ends(d))
    <3>1. CASE q = p
      BY <1>3, <1>7, <1>8, <3>1, Zenon DEF IInv, WorkInv, p
    <3>2. CASE q # p
      BY <1>3, <1>7, <3>2, ZenonT(30) DEF IInv, WorkInv
    <3> QED BY <3>1, <3>2
  <2>4. \A d \in Set(wlist') \cup fs_mark' : src(d)' \in DOMAIN table'
    <3>1. \A d \in Set(wlist) \cup fs_mark : src(d) \in DOMAIN table
      BY <1>3 DEF IInv, WorkInv
    <3>2. \A d \in Set(wlist') : d \in Set(wlist) \/ src(d) = p
      BY <1>3, <1>9, <1>10, SMTT(30)
    <3> QED BY <1>2, <1>5, <1>7, <3>1, <3>2, SMTT(30)
  <2>5. \A d \in fs_mark' : Ends(d)'
    BY <1>2, <1>3, <1>5, SMTT(30) DEF IInv, WorkInv
  <2>6. \A d \in Edges(graph') : src(d)' \in DOMAIN table' /\ d \notin Set(wlist') => Settled(table, d)'
    BY <1>2, <1>5, <1>12
  <2>7. ~StartEnds
    <3>1. ASSUME StartEnds
          PROVE  FALSE
      <4>1. src(e) = graph.start
        BY <1>3, <3>1 DEF IInv, WorkInv
      <4>2. e \in From(graph, graph.start)
        BY <4>1, SMTT(30) DEF From, src
      <4> QED BY <1>8, <3>1, <4>2, SMTT(30) DEF StartEnds
    <3> QED BY <3>1
  <2>8. \A q \in DOMAIN table' :
          /\ ~isGlobal(table'[q].act)
          /\ q = graph'.start \/ \E d \in Edges(graph') : dst(d)' = q /\ ~Ends(d)'
    BY <1>2, <1>5, <2>3, SMTT(30)
  <2> QED BY <1>5, <2>1, <2>2, <2>4, <2>5, <2>6, <2>7, <2>8, SMTT(30) DEF WorkInv, Set
<1>14. MarkInv'
  BY <1>2, <1>3 DEF MarkInv
<1> QED BY <1>11, <1>13, <1>14 DEF IInv

(* ... and the end of a call of fixpt ... *)
LEMMA ResultInv ==
  ASSUME IInv, fixpt_result
  PROVE  IInv'
<1>1. /\ out = "worklist" /\ wlist = << >> /\ out' = "marks" /\ marks' = fs_mark /\ local' = table
      /\ UNCHANGED <<graph, fs_wid, table, wlist, fs_mark, fs_wide, fs_warns, results>>
  BY DEF fixpt_result
<1>2. \A d : src(d)' = src(d) /\ dst(d)' = dst(d) /\ tags(d)' = tags(d) /\ code(d)' = code(d) /\ Ends(d)' = Ends(d)
  BY <1>1, SameGraph
<1>3. Set(wlist) = {}
  BY <1>1 DEF Set
<1>4. Typed'
  BY <1>1, SMTT(30) DEF IInv, Typed, TypeOK, Set
<1>5. WorkInv'
  BY <1>1, SMTT(30) DEF WorkInv
<1>6. ASSUME NEW d \in fs_mark, NEW e \in fs_mark, ~Joins(tags(d)), dst(d) = src(e)
      PROVE  FALSE
  <2>0. graph \in Graphs /\ d \in Edges(graph) /\ e \in Edges(graph)
    BY ZenonT(30) DEF IInv, Typed, TypeOK
  <2>1. /\ \A c \in Edges(graph) : dst(c) = dst(d) => c = d
        /\ src(d) # dst(d)
        /\ dst(d) = graph.start =>
              Ends(d) /\ \A d1, d2 \in From(graph, graph.start) : Ends(d1) <=> Ends(d2)
    BY <1>6, <2>0, StructuredGraph, SMTT(30)
  <2>2. src(e) \in DOMAIN table /\ src(d) \in DOMAIN table /\ Ends(e) /\ Ends(d)
    BY <1>1 DEF IInv, WorkInv
  <2>3. src(e) = graph.start
    <3>1. src(e) = graph.start \/ \E c \in Edges(graph) : dst(c) = src(e) /\ ~Ends(c)
      BY <1>1, <2>2 DEF IInv, WorkInv
    <3> QED BY <1>6, <2>1, <2>2, <3>1, SMTT(30)
  <2>4. e \in From(graph, graph.start)
    BY <2>0, <2>3, SMTT(30) DEF From, src
  <2>5. StartEnds
    BY <1>6, <2>1, <2>2, <2>3, <2>4, SMTT(30) DEF StartEnds
  <2>6. src(d) = graph.start
    BY <1>1, <2>2, <2>5, SMTT(30) DEF IInv, WorkInv
  <2> QED BY <1>6, <2>1, <2>3, <2>6, SMTT(30)
<1>7. MarkInv'
  <2>1. graph'.start \in DOMAIN local' /\ leqState(graph'.st, local'[graph'.start].st)
    BY <1>1 DEF IInv, WorkInv
  <2>2. \A p \in DOMAIN local' : local'[p].st \in States
    BY <1>1, SMTT(30) DEF IInv, Typed, TypeOK
  <2>3. \A e \in Edges(graph') : src(e)' \in DOMAIN local' => Settled(local, e)'
    <3>1. \A e \in Edges(graph) : src(e) \in DOMAIN table => Settled(table, e)
      BY <1>1, <1>3, SMTT(30) DEF IInv, WorkInv
    <3>2. \A e : Settled(local, e)' <=> Settled(table, e)
      BY <1>1, <1>2 DEF Settled, EffectIn
    <3> QED BY <1>1, <1>2, <3>1, <3>2, SMTT(30)
  <2>4. \A e \in fs_mark' : Ends(e)' /\ src(e)' \in DOMAIN local'
    BY <1>1, <1>2, Zenon DEF IInv, WorkInv
  <2>5. \A d, e \in fs_mark' : Joins(tags(d)') \/ dst(d)' # src(e)'
    BY <1>1, <1>2, <1>6
  <2>6. \A e \in marks' : src(e)' \in DOMAIN table' /\ leqState(local'[src(e)'].st, table'[src(e)'].st)
    BY <1>1, <1>2, LeqStateOrder, ZenonT(30) DEF IInv, WorkInv, Typed, TypeOK
  <2> QED BY <1>1, <2>1, <2>2, <2>3, <2>4, <2>5, <2>6, SMTT(30) DEF MarkInv, Joins
<1> QED BY <1>4, <1>5, <1>7 DEF IInv

(* A result is added at the end of the list of results. *)
LEMMA AppendResult ==
  ASSUME NEW s, s \in Seq(Set(s)), NEW r
  PROVE  /\ Append(s, r) \in Seq(Set(Append(s, r)))
         /\ \E i \in DOMAIN Append(s, r) : Append(s, r)[i] = r
         /\ \A i \in DOMAIN s : i \in DOMAIN Append(s, r) /\ Append(s, r)[i] = s[i]
<1> DEFINE S == Set(s) \cup {r}
           t == Append(s, r)
<1>1. s \in Seq(S)
  OBVIOUS
<1> HIDE DEF S
<1>2. r \in S
  BY DEF S
<1>3. /\ t \in Seq(S) /\ Len(s) \in Nat /\ DOMAIN s = 1..Len(s) /\ DOMAIN t = 1..(Len(s) + 1) /\ Len(t) = Len(s) + 1
      /\ t[Len(s) + 1] = r /\ \A i \in 1..Len(s) : t[i] = s[i]
  BY <1>1, <1>2
<1> HIDE DEF t
<1>4. t \in Seq(Set(t))
  BY <1>3, SMTT(30) DEF Set
<1>5. /\ \E i \in DOMAIN t : t[i] = r
      /\ \A i \in DOMAIN s : i \in DOMAIN t /\ t[i] = s[i]
  BY <1>3
<1> QED BY <1>4, <1>5 DEF t

(* the marked edge handle_mark treats *)
LEMMA AtMarkFacts ==
  ASSUME IInv, NEW e \in Edges(graph), AtMark(e), Fine(e)
  PROVE  /\ out = "marks" /\ e \in marks /\ e \in fs_mark /\ src(e) \in DOMAIN table /\ src(e) \in DOMAIN local
         /\ leqState(local[src(e)].st, table[src(e)].st)
         /\ table[src(e)].st \in States /\ local[src(e)].st \in States
         /\ ~aborts(table[src(e)].st, code(e)) /\ ~Effect(e).bot /\ ~widens_empty(e)
<1>1. /\ out = "marks" /\ e \in marks /\ e \in fs_mark
  BY DEF AtMark, IInv, Typed, TypeOK
<1>2. /\ src(e) \in DOMAIN table /\ leqState(local[src(e)].st, table[src(e)].st) /\ src(e) \in DOMAIN local
  BY <1>1, Zenon DEF IInv, MarkInv
<1>3. table[src(e)].st \in States /\ local[src(e)].st \in States
  BY <1>1, <1>2, ZenonT(30) DEF IInv, MarkInv, Typed, TypeOK
<1> QED BY <1>1, <1>2, <1>3, FineFacts, WideningNonEmpty, Zenon DEF IInv

(* ... and the mark that starts another call ... *)
LEMMA HandleInv ==
  ASSUME IInv, handle_mark
  PROVE  IInv'
<1>1. PICK e \in Edges(graph) :
        /\ AtMark(e) /\ Fine(e) /\ add_warns(e) /\ inc_wide(e)
        /\ table' = update_node_table(dst(e), update(e, Effect(e).st, Acts(e)))
        /\ \E r : results' = Append(results, r)
        /\ marks' = marks \ {e}
  BY DEF handle_mark
<1>2. UNCHANGED <<graph, fs_wid, wlist, fs_mark, out, local>>
  BY DEF handle_mark
<1> DEFINE p == dst(e)
<1>3. /\ out = "marks" /\ e \in marks /\ e \in fs_mark /\ src(e) \in DOMAIN table /\ src(e) \in DOMAIN local
      /\ ~aborts(table[src(e)].st, code(e)) /\ ~widens_empty(e)
  BY <1>1, AtMarkFacts, Zenon
<1>4. fs_warns \subseteq fs_warns' /\ fs_warns' \subseteq Nodes(graph)
  BY <1>1, WarnFacts DEF IInv
<1>5. \A d : src(d)' = src(d) /\ dst(d)' = dst(d) /\ tags(d)' = tags(d) /\ code(d)' = code(d) /\ Ends(d)' = Ends(d)
  BY <1>2, SameGraph
<1>6. /\ DOMAIN table' = DOMAIN table \cup {p}
      /\ \A q \in DOMAIN table : q # p => table'[q] = table[q]
      /\ table'[p].st \in States
      /\ Joins(tags(e)) /\ p \in DOMAIN table => leqState(table[p].st, table'[p].st)
  BY <1>1, <1>3, UpdateTable, Zenon DEF IInv
<1>7. p \in Nodes(graph)
  BY GraphFacts, Zenon DEF IInv, Typed
<1> HIDE DEF p
<1>8. Typed'
  <2>1. \A q \in DOMAIN table' : table'[q].st \in States
    BY <1>6, ZenonT(30) DEF IInv, Typed, TypeOK
  <2>2. DOMAIN table' \subseteq Nodes(graph')
    BY <1>2, <1>6, <1>7 DEF IInv, Typed, TypeOK
  <2>3. TypeOK'
    BY <1>1, <1>2, <1>4, <2>1, <2>2, Zenon DEF IInv, Typed, TypeOK
  <2>4. fs_wide' \in [Nodes(graph) -> Nat] /\ \A q \in Nodes(graph) : fs_wide'[q] > 0 => q \in DOMAIN table'
    BY <1>1, <1>2, <1>6, WideFacts, Zenon DEF IInv, p
  <2>5. results' \in Seq(Set(results'))
    <3>1. PICK r : results' = Append(results, r)
      BY <1>1
    <3>2. results \in Seq(Set(results))
      BY DEF IInv, Typed
    <3>3. Append(results, r) \in Seq(Set(Append(results, r)))
      BY <3>2, AppendResult
    <3> QED BY <3>1, <3>3
  <2>6. graph' \in Graphs /\ fs_wid' \in Levels /\ out' \notin {"invalid pre states", "widening empty"}
    BY <1>2 DEF IInv, Typed
  <2>7. fs_wide' \in [Nodes(graph') -> Nat] /\ \A q \in Nodes(graph') : fs_wide'[q] > 0 => q \in DOMAIN table'
    BY <1>2, <2>4
  <2> QED BY <2>3, <2>5, <2>6, <2>7, ZenonT(30) DEF Typed, Set
<1>9. WorkInv'
  BY <1>2, <1>3, Zenon DEF WorkInv
<1>10. MarkInv'
  <2>1. \A d \in Edges(graph') : src(d)' \in DOMAIN local' => Settled(local, d)'
    <3>1. \A d \in Edges(graph) : src(d) \in DOMAIN local => Settled(local, d)
      BY <1>3, ZenonT(30) DEF IInv, MarkInv
    <3>2. \A d : Settled(local, d) => Settled(local, d)'
      BY <1>2, <1>4, <1>5, SMTT(30) DEF Settled, EffectIn
    <3> QED BY <1>2, <1>5, <3>1, <3>2, ZenonT(30)
  <2>2. ASSUME NEW d \in marks'
        PROVE  src(d) \in DOMAIN table' /\ leqState(local[src(d)].st, table'[src(d)].st)
    <3>1. /\ d \in fs_mark /\ src(d) \in DOMAIN table /\ leqState(local[src(d)].st, table[src(d)].st)
          /\ src(d) \in DOMAIN local
      BY <1>1, <1>3, Zenon DEF IInv, MarkInv, Typed, TypeOK
    <3>2. CASE src(d) # p
      BY <1>6, <3>1, <3>2, ZenonT(30)
    <3>3. CASE src(d) = p
      <4>1. Joins(tags(e))
        BY <1>3, <3>1, <3>3, ZenonT(30) DEF IInv, MarkInv, p
      <4>2. leqState(table[p].st, table'[p].st)
        BY <1>6, <3>1, <3>3, <4>1
      <4>3. table[p].st \in States /\ local[p].st \in States
        BY <1>3, <3>1, <3>3, Zenon DEF IInv, MarkInv, Typed, TypeOK
      <4> QED BY <1>6, <3>1, <3>3, <4>2, <4>3, LeqStateOrder, SMTT(30)
    <3> QED BY <3>2, <3>3
  <2>3. \A d \in marks' : src(d)' \in DOMAIN table' /\ leqState(local'[src(d)'].st, table'[src(d)'].st)
    BY <1>2, <1>5, <2>2, Zenon
  <2>4. /\ graph'.start \in DOMAIN local' /\ leqState(graph'.st, local'[graph'.start].st)
        /\ \A q \in DOMAIN local' : local'[q].st \in States
    BY <1>2, <1>3, Zenon DEF IInv, MarkInv
  <2>5. /\ \A d \in fs_mark' : Ends(d)' /\ src(d)' \in DOMAIN local'
        /\ \A c, d \in fs_mark' : Joins(tags(c)') \/ dst(c)' # src(d)'
    BY <1>2, <1>3, <1>5, ZenonT(30) DEF IInv, MarkInv
  <2> QED BY <1>2, <1>3, <2>1, <2>3, <2>4, <2>5, Zenon DEF MarkInv, Joins
<1> QED BY <1>8, <1>9, <1>10 DEF IInv

(* the edge treated when the engine stops on an error *)
LEMMA ErrorFacts ==
  ASSUME IInv, NEW e \in Current
  PROVE  /\ out \in {"worklist", "marks"} /\ e \in Edges(graph)
         /\ error(e) \in {"infinite bounds", "bottom result", "none"}
         /\ error(e) = "bottom result" => out = "marks" /\ e \in marks /\ Effect(e).bot
<1>1. e \in Edges(graph) /\ (AtEdge(e) \/ AtMark(e))
  BY DEF Current
<1>2. src(e) \in DOMAIN table
  <2>1. CASE AtEdge(e)
    BY <1>1, <2>1, AtEdgeFacts, SMTT(30) DEF IInv
  <2>2. CASE AtMark(e)
    BY <2>2 DEF AtMark, IInv, MarkInv
  <2> QED BY <1>1, <2>1, <2>2
<1>3. ~widens_empty(e)
  BY <1>1, WideningNonEmpty DEF IInv
<1>4. out \in {"worklist", "marks"} /\ (out = "marks" => e \in marks)
  BY <1>1 DEF AtEdge, AtMark
<1> QED BY <1>1, <1>2, <1>3, <1>4 DEF error

(* ... and an error ... *)
LEMMA AbortInv ==
  ASSUME IInv, Abort
  PROVE  IInv'
<1>1. PICK e \in Current : ~Fine(e) /\ out' = error(e)
  BY DEF Abort
<1>2. UNCHANGED <<graph, fs_wid, table, wlist, fs_mark, fs_wide, fs_warns, marks, results, local>>
  BY DEF Abort
<1>3. out' \in {"infinite bounds", "bottom result"}
  BY <1>1, ErrorFacts, ZenonT(30) DEF Fine
<1>4. Typed'
  BY <1>2, <1>3 DEF IInv, Typed, TypeOK, Set
<1> QED BY <1>3, <1>4, Zenon DEF IInv, WorkInv, MarkInv

(* ... and the return ... *)
LEMMA ReturnInv ==
  ASSUME IInv, Return
  PROVE  IInv'
<1>1. /\ out = "marks" /\ marks = {} /\ out' = "end"
      /\ UNCHANGED <<graph, fs_wid, table, wlist, fs_mark, fs_wide, fs_warns, marks, results, local>>
  BY DEF Return
<1>2. \A d : src(d)' = src(d) /\ dst(d)' = dst(d) /\ tags(d)' = tags(d) /\ code(d)' = code(d) /\ Ends(d)' = Ends(d)
  BY <1>1, SameGraph, SMTT(30)
<1>3. Typed'
  BY <1>1, SMTT(30) DEF IInv, Typed, TypeOK, Set
<1>4. \A d : Settled(local, d)' <=> Settled(local, d)
  BY <1>1, <1>2 DEF Settled, EffectIn
<1>5. MarkInv'
  BY <1>1, <1>2, <1>4, Zenon DEF IInv, MarkInv, Joins
<1> QED BY <1>1, <1>3, <1>5, Zenon DEF IInv, WorkInv

(* ... and a step that changes nothing. *)
LEMMA StutterInv ==
  ASSUME IInv, UNCHANGED vars
  PROVE  IInv'
<1>1. UNCHANGED <<graph, fs_wid, table, wlist, fs_mark, fs_wide, fs_warns, marks, results, out, local>>
  BY DEF vars
<1>2. /\ \A d : src(d)' = src(d) /\ dst(d)' = dst(d) /\ tags(d)' = tags(d) /\ code(d)' = code(d) /\ Ends(d)' = Ends(d)
      /\ StartEnds' = StartEnds
  BY <1>1, SameGraph
<1>3. /\ \A d : Settled(local, d)' <=> Settled(local, d)
      /\ \A d : Settled(table, d)' <=> Settled(table, d)
  BY <1>1, <1>2, ZenonT(30) DEF Settled, EffectIn
<1>4. Typed'
  BY <1>1 DEF IInv, Typed, TypeOK, Set
<1>5. WorkInv'
  BY <1>1, <1>2, <1>3, Zenon DEF IInv, WorkInv, Set
<1>6. MarkInv'
  BY <1>1, <1>2, <1>3, Zenon DEF IInv, MarkInv, Joins
<1> QED BY <1>4, <1>5, <1>6 DEF IInv

(* So every step preserves it. *)
LEMMA StepInv == IInv /\ [Next]_vars => IInv'
BY BottomInv, MarkEdgeInv, UpdateInv, ResultInv, HandleInv, ReturnInv, AbortInv, StutterInv, SMTT(30) DEF Next

(* IInv holds in every state of every run of the engine, on every graph. *)
THEOREM Invariance == Spec => []IInv
<1>1. Init => IInv
  BY InitInv
<1>2. IInv /\ [Next]_vars => IInv'
  BY StepInv
<1> QED BY <1>1, <1>2, PTL DEF Spec

(* The lists contain no edge twice, the facts are intervals that are not    *)
(* empty, for nodes of the graph.                                           *)
THEOREM TypeCorrect == Spec => []TypeOK
<1>1. IInv => TypeOK
  BY DEF IInv, Typed
<1> QED BY <1>1, Invariance, PTL

(* The table is a post-fixpoint when the worklist is empty: the test of     *)
(* weak_update and loop_head_update, and putting the successors of a node   *)
(* on the worklist only when its fact changed, lose no effect, on any graph *)
(* and with any widening level.                                             *)
THEOREM ReachesPostFixpoint == Spec => []PostFixpoint
<1>1. IInv => PostFixpoint
  BY Zenon DEF IInv, MarkInv, PostFixpoint, Settled, EffectIn
<1> QED BY <1>1, Invariance, PTL

(* Every error call of the block that the table reaches is in the warnings. *)
THEOREM WarningsComplete == Spec => []Warned
<1>1. IInv => Warned
  BY ZenonT(30) DEF IInv, MarkInv, Warned, Settled
<1> QED BY <1>1, Invariance, PTL

-----------------------------------------------------------------------------
(* The transformers are monotone, as long as none meets an error call; the  *)
(* condition != is not.                                                     *)

(* Subtraction grows with its arguments, where neither form aborts.         *)
LEMMA SubMono ==
  ASSUME NEW v \in Values, NEW w \in Values, NEW vv \in Values, NEW ww \in Values,
         leqValue(v, vv), leqValue(w, ww), ~subAborts(v, w), ~subAborts(vv, ww)
  PROVE  leqValue(subValue(v, w), subValue(vv, ww))
<1>1. leq(subIVal(vv.lo, ww.hi), subIVal(v.lo, w.hi))
  BY ValueType, BoundType, ValueBounds DEF leqValue, leq, subIVal, negateIVal, I, subAborts
<1>2. leq(subIVal(v.hi, w.lo), subIVal(vv.hi, ww.lo))
  BY ValueType, BoundType, ValueBounds DEF leqValue, leq, subIVal, negateIVal, I, subAborts
<1> QED BY <1>1, <1>2 DEF leqValue, subValue, InterVal

(* the four products of the bounds lie within the product of the intervals *)
LEMMA MulCorners ==
  ASSUME NEW v \in Values, NEW w \in Values
  PROVE  /\ \A a \in {v.lo, v.hi}, b \in {w.lo, w.hi} :
              leq(mulValue(v, w).lo, mulIVal(a, b)) /\ leq(mulIVal(a, b), mulValue(v, w).hi)
         /\ \E a \in {v.lo, v.hi}, b \in {w.lo, w.hi} : mulValue(v, w).lo = mulIVal(a, b)
         /\ \E a \in {v.lo, v.hi}, b \in {w.lo, w.hi} : mulValue(v, w).hi = mulIVal(a, b)
<1> DEFINE ac == mulIVal(v.lo, w.lo)
           ad == mulIVal(v.lo, w.hi)
           bc == mulIVal(v.hi, w.lo)
           bd == mulIVal(v.hi, w.hi)
           a == min(min(ac, ad), min(bc, bd))
           b == max(max(ac, ad), max(bc, bd))
<1>1. ac \in Bounds /\ ad \in Bounds /\ bc \in Bounds /\ bd \in Bounds
  BY MulType, ValueType
<1>2. mulValue(v, w).lo = a /\ mulValue(v, w).hi = b
  BY DEF mulValue, InterVal
<1> HIDE DEF ac, ad, bc, bd
<1>3. min(ac, ad) \in Bounds /\ min(bc, bd) \in Bounds /\ max(ac, ad) \in Bounds /\ max(bc, bd) \in Bounds
  BY <1>1, MinMax
<1>4. leq(a, ac) /\ leq(a, ad) /\ leq(a, bc) /\ leq(a, bd) /\ a \in {ac, ad, bc, bd}
  BY <1>1, <1>3, MinMax, LeqOrder
<1>5. leq(ac, b) /\ leq(ad, b) /\ leq(bc, b) /\ leq(bd, b) /\ b \in {ac, ad, bc, bd}
  BY <1>1, <1>3, MinMax, LeqOrder
<1> HIDE DEF a, b
<1>6. \A p \in {v.lo, v.hi}, q \in {w.lo, w.hi} : leq(a, mulIVal(p, q)) /\ leq(mulIVal(p, q), b)
  BY <1>4, <1>5 DEF ac, ad, bc, bd
<1>7. /\ \E p \in {v.lo, v.hi}, q \in {w.lo, w.hi} : a = mulIVal(p, q)
      /\ \E p \in {v.lo, v.hi}, q \in {w.lo, w.hi} : b = mulIVal(p, q)
  BY <1>4, <1>5 DEF ac, ad, bc, bd
<1> QED BY <1>2, <1>6, <1>7

(* the sign of a bound of an interval is the sign of a bound of a larger one *)
LEMMA SignGrows ==
  ASSUME NEW v \in Values, NEW w \in Values, leqValue(v, w), NEW a \in {v.lo, v.hi}, signum(a) # 0
  PROVE  \E b \in {w.lo, w.hi} : signum(b) = signum(a)
<1>1. /\ a \in Bounds /\ w.lo \in Bounds /\ w.hi \in Bounds /\ leq(w.lo, a) /\ leq(a, w.hi)
  BY ValueType, LeqOrder DEF leqValue
<1>2. a.inf \in {-1, 0, 1} /\ a.n \in Int /\ w.hi.n \in Int /\ w.hi.inf \in {0, 1} /\ w.lo.n \in Int /\ w.lo.inf \in {-1, 0}
  BY <1>1, BoundType, ValueBounds
<1>3. signum(a) = 1 => signum(w.hi) = 1
  BY <1>1, <1>2 DEF leq, signum
<1>4. signum(a) = -1 => signum(w.lo) = -1
  BY <1>1, <1>2 DEF leq, signum
<1>5. signum(a) \in {-1, 0, 1}
  BY <1>2 DEF signum
<1> QED BY <1>3, <1>4, <1>5

(* A bound that is infinite stays so in a larger interval. *)
LEMMA InfGrows ==
  ASSUME NEW v \in Values, NEW w \in Values, leqValue(v, w), NEW a \in {v.lo, v.hi}, a.inf # 0
  PROVE  a \in {w.lo, w.hi}
BY ValueType, BoundType, ValueBounds, LeqOrder DEF leqValue, leq
(* Multiplication is monotone. *)
LEMMA MulGrows ==
  ASSUME NEW v \in Values, NEW w \in Values, NEW vv \in Values, NEW ww \in Values,
         leqValue(v, vv), leqValue(w, ww), ~mulAborts(v, w), ~mulAborts(vv, ww)
  PROVE  leqValue(mulValue(v, w), mulValue(vv, ww))
<1> DEFINE m == mulValue(vv, ww)
<1>1. ASSUME NEW a \in {v.lo, v.hi}, NEW b \in {w.lo, w.hi}
      PROVE  leq(m.lo, mulIVal(a, b)) /\ leq(mulIVal(a, b), m.hi)
  <2>0. a \in Bounds /\ b \in Bounds
    BY ValueType, SMTT(30)
  <2>1. CASE a.inf = 0 /\ b.inf = 0
    <3>1. a.n \in Int /\ b.n \in Int /\ a = I(a.n) /\ b = I(b.n)
      BY <2>0, <2>1, BoundType
    <3>2. In(a.n, v) /\ In(b.n, w)
      BY <3>1, ValueType, LeqOrder DEF In
    <3>3. In(a.n, vv) /\ In(b.n, ww)
      BY <3>1, <3>2, InLeq
    <3>4. In(a.n * b.n, m)
      BY <3>1, <3>3, MulSound
    <3> QED BY <2>1, <3>4 DEF mulIVal, In
  <2>2. CASE a.inf # 0
    <3>1. a \in {vv.lo, vv.hi}
      BY <2>2, InfGrows
    <3>2. signum(b) # 0
      BY <2>2 DEF mulAborts, mulIValAborts
    <3>3. PICK c \in {ww.lo, ww.hi} : signum(c) = signum(b)
      BY <3>2, SignGrows
    <3>4. mulIVal(a, c) = mulIVal(a, b)
      BY <2>2, <3>3 DEF mulIVal
    <3> QED BY <3>1, <3>4, MulCorners
  <2>3. CASE b.inf # 0
    <3>1. b \in {ww.lo, ww.hi}
      BY <2>3, InfGrows
    <3>2. signum(a) # 0
      BY <2>3 DEF mulAborts, mulIValAborts
    <3>3. PICK c \in {vv.lo, vv.hi} : signum(c) = signum(a)
      BY <3>2, SignGrows
    <3>4. mulIVal(c, b) = mulIVal(a, b)
      BY <2>3, <3>3, SMTT(30) DEF mulIVal
    <3> QED BY <3>1, <3>4, MulCorners
  <2> QED BY <2>1, <2>2, <2>3
<1> QED BY <1>1, MulCorners DEF leqValue

(* So is each operation of an assignment ... *)
LEMMA OperateGrows ==
  ASSUME NEW st \in States, NEW tt \in States, leqState(st, tt), NEW i \in Codes, i.k = "assign",
         ~aborts(st, i), ~aborts(tt, i)
  PROVE  leqValue(operate(i.op, value(st, i.a), value(st, i.b)), operate(i.op, value(tt, i.a), value(tt, i.b)))
<1>1. /\ value(st, i.a) \in Values /\ value(st, i.b) \in Values
      /\ value(tt, i.a) \in Values /\ value(tt, i.b) \in Values
      /\ leqValue(value(st, i.a), value(tt, i.a)) /\ leqValue(value(st, i.b), value(tt, i.b))
  BY CodeFacts, TermType, TermMono
<1>2. CASE i.op = "+"
  BY <1>1, <1>2, PlusMono DEF operate
<1>3. CASE i.op = "-"
  BY <1>1, <1>3, SubMono DEF operate, aborts
<1>4. CASE i.op = "*"
  BY <1>1, <1>4, MulGrows DEF operate, aborts
<1> QED BY <1>2, <1>3, <1>4, CodeFacts, SMTT(30) DEF Operations

(* ... and the write of its result ... *)
LEMMA WriteGrows ==
  ASSUME NEW st \in States, NEW tt \in States, leqState(st, tt), NEW x \in Vars,
         NEW v \in Values, NEW w \in Values, leqValue(v, w)
  PROVE  leqState([st EXCEPT ![x] = v], [tt EXCEPT ![x] = w])
BY SMTT(30) DEF leqState, States

(* ... and with them the transformer of an edge. *)
LEMMA TransformerGrows ==
  ASSUME NEW st \in States, NEW tt \in States, leqState(st, tt), NEW i \in Codes,
         ~aborts(st, i), ~aborts(tt, i), ~(i.k = "cond" /\ i.op = "!="), ~code_transformer(st, i).bot
  PROVE  leqState(code_transformer(st, i).st, code_transformer(tt, i).st)
<1>0. /\ zero \in Values /\ one \in Values /\ leqValue(zero, zero) /\ leqValue(one, one) /\ i.x \in Vars
  BY ValueType, LeqValueOrder, CodeFacts DEF zero, one
<1>1. CASE i.k = "assign"
  <2> DEFINE v == operate(i.op, value(st, i.a), value(st, i.b))
             w == operate(i.op, value(tt, i.a), value(tt, i.b))
  <2>1. v \in Values /\ w \in Values /\ leqValue(v, w)
    BY <1>1, AssignSound, OperateGrows
  <2> HIDE DEF v, w
  <2>2. leqState([st EXCEPT ![i.x] = v], [tt EXCEPT ![i.x] = w])
    BY <1>0, <2>1, WriteGrows
  <2> QED BY <1>1, <2>2, SMTT(30) DEF code_transformer, assign_transformer, effect, v, w
<1>2. CASE i.k = "nondet"
  <2>1. InterVal(I(i.a.c), I(i.b.c)) \in Values
    BY <1>2, CodeFacts, ValueType, BoundType, LeqOrder, SMTT(30)
  <2>2. leqState([st EXCEPT ![i.x] = InterVal(I(i.a.c), I(i.b.c))], [tt EXCEPT ![i.x] = InterVal(I(i.a.c), I(i.b.c))])
    BY <1>0, <2>1, LeqValueOrder, WriteGrows
  <2> QED BY <1>2, <2>2 DEF code_transformer, nondet_transformer, effect
<1>3. CASE i.k = "cond"
  <2>0. i.a \in Terms /\ i.b \in Terms /\ add(i.b, -1) \in Terms /\ add(i.b, 1) \in Terms
    BY CodeFacts, AddTerm
  <2>1. CASE i.op \in {"<", ">", "<=", ">="}
    BY <1>3, <2>0, <2>1, IntervalLeqMono DEF code_transformer, apply_logic, apply_less, apply_greater
  <2>2. CASE i.op = "=="
    <3> DEFINE p  == interval_leq(st, i.a, i.b)
               pp == interval_leq(tt, i.a, i.b)
    <3>1. ~p.bot /\ ~interval_leq(p.st, i.b, i.a).bot
      BY <1>3, <2>2, Zenon DEF code_transformer, apply_logic, apply_equal, effect
    <3>2. leqState(p.st, pp.st) /\ p.st \in States /\ pp.st \in States
      BY <2>0, <3>1, IntervalLeqMono, IntervalLeq, ZenonT(30)
    <3>3. leqState(interval_leq(p.st, i.b, i.a).st, interval_leq(pp.st, i.b, i.a).st)
      BY <2>0, <3>1, <3>2, IntervalLeqMono, SMTT(30)
    <3> QED BY <1>3, <2>2, <3>3 DEF code_transformer, apply_logic, apply_equal, effect
  <2> QED BY <1>3, <2>1, <2>2, CodeFacts DEF Comparisons
<1>4. CASE i.k = "lock"
  <2>1. ~code_transformer(tt, i).bot
    BY TransformerMono
  <2>2. /\ code_transformer(st, i).st = [st EXCEPT ![i.x] = one]
        /\ code_transformer(tt, i).st = [tt EXCEPT ![i.x] = one]
    BY <1>4, <2>1 DEF code_transformer, lock_transformer, effect
  <2> QED BY <1>0, <2>2, WriteGrows
<1>5. CASE i.k \in {"unlock", "init"}
  <2>1. /\ code_transformer(st, i).st = [st EXCEPT ![i.x] = zero]
        /\ code_transformer(tt, i).st = [tt EXCEPT ![i.x] = zero]
    BY <1>5 DEF code_transformer, effect
  <2> QED BY <1>0, <2>1, WriteGrows
<1>6. CASE i.k \in {"skip", "error", "exit"}
  BY <1>6 DEF code_transformer, effect
<1> QED BY <1>1, <1>2, <1>3, <1>4, <1>5, <1>6, CodeFacts

-----------------------------------------------------------------------------
(* Without the condition !=, every edge carries an instruction for which    *)
(* the transformer is monotone.                                             *)
LEMMA EdgeCode ==
  ASSUME NoNotEqual, graph \in Graphs, NEW e \in Edges(graph)
  PROVE  code(e) \in Codes /\ ~(code(e).k = "cond" /\ code(e).op = "!=")
BY GraphFacts DEF NoNotEqual, code

(* A concrete step leads to a store. *)
LEMMA StepsType ==
  ASSUME NEW s \in Stores, NEW i \in Codes, NEW t \in Steps(s, i)
  PROVE  t \in Stores
<1>1. /\ i.x \in Vars /\ i.a \in Terms /\ i.b \in Terms
      /\ i.k \in {"assign", "nondet", "cond", "skip", "lock", "unlock", "init", "error", "exit"}
      /\ i.k = "assign" => i.op \in Operations
  BY CodeFacts
<1>2. \A k \in Int : [s EXCEPT ![i.x] = k] \in Stores
  BY <1>1 DEF Stores
<1>3. CASE i.k = "assign"
  <2>1. valueOf(s, i.a) \in Int /\ valueOf(s, i.b) \in Int
    BY <1>1 DEF valueOf, Stores, Terms
  <2>2. computes(i.op, valueOf(s, i.a), valueOf(s, i.b)) \in Int
    BY <1>1, <1>3, <2>1 DEF computes, Operations
  <2> QED BY <1>2, <1>3, <2>2, SMTT(30) DEF Steps
<1>4. CASE i.k = "nondet"
  <2>1. i.a.c..i.b.c \subseteq Int
    BY <1>4, CodeFacts
  <2> QED BY <1>2, <1>4, <2>1, SMTT(30) DEF Steps
<1>5. CASE i.k \notin {"assign", "nondet"}
  BY <1>1, <1>2, <1>5, SMTT(30) DEF Steps
<1> QED BY <1>3, <1>4, <1>5, SMTT(30)

(* An edge that is not bottom is not bottom on a larger fact. *)
LEMMA StaysEnabled ==
  ASSUME graph \in Graphs, NEW e \in Edges(graph), graph' = graph,
         src(e) \in DOMAIN table, table[src(e)].st \in States, table'[src(e)].st \in States,
         leqState(table[src(e)].st, table'[src(e)].st), ~Effect(e).bot
  PROVE  ~Effect(e)'.bot
<1>1. src(e)' = src(e) /\ code(e)' = code(e) /\ code(e) \in Codes
  BY SameGraph, GraphFacts, Zenon
<1> QED BY <1>1, TransformerMono DEF Effect

(***************************************************************************)
(* The step of worklist_update: the fact of the target grows, also when     *)
(* strong_update replaces it, since the transformers are monotone and the   *)
(* fact of the source has grown since it was stored.                        *)
(***************************************************************************)
LEMMA UpdateGrows ==
  ASSUME NoNotEqual, IInv, SInv, worklist_update
  PROVE  /\ \A q \in DOMAIN table : q \in DOMAIN table' /\ leqState(table[q].st, table'[q].st)
         /\ \A d \in Edges(graph) :
              ~Joins(tags(d)) /\ ~Ends(d) /\ dst(d) \in DOMAIN table' => FromOlder(d)'
<1>1. PICK e \in Edges(graph) :
        /\ AtEdge(e) /\ Fine(e) /\ ~Effect(e).bot /\ ~Marked(e)
        /\ table' = update_node_table(dst(e), update(e, Effect(e).st, Acts(e)))
  BY DEF worklist_update
<1>2. graph' = graph
  BY SMTT(30) DEF worklist_update
<1> DEFINE p == dst(e)
<1>3. /\ out = "worklist" /\ src(e) \in DOMAIN table /\ table[src(e)].st \in States
      /\ ~aborts(table[src(e)].st, code(e)) /\ ~widens_empty(e) /\ graph \in Graphs
  BY <1>1, AtEdgeFacts, FineFacts, WideningNonEmpty, ZenonT(30) DEF IInv, Typed
<1>4. \A d : src(d)' = src(d) /\ dst(d)' = dst(d) /\ code(d)' = code(d)
  BY <1>2, SameGraph
<1>5. /\ DOMAIN table' = DOMAIN table \cup {p}
      /\ \A q \in DOMAIN table : q # p => table'[q] = table[q]
      /\ table'[p].st \in States
      /\ Joins(tags(e)) /\ p \in DOMAIN table => leqState(table[p].st, table'[p].st)
      /\ ~Joins(tags(e)) => table'[p].st = Effect(e).st
  BY <1>1, <1>3, UpdateTable, ZenonT(30) DEF IInv
<1>6. \A q \in DOMAIN table : table[q].st \in States
  BY DEF IInv, Typed, TypeOK
<1>7. ~Ends(e)
  BY <1>1, <1>3, MarkedEnds, ZenonT(30) DEF IInv, WorkInv
<1>8. /\ code(e) \in Codes /\ ~(code(e).k = "cond" /\ code(e).op = "!=")
  BY <1>3, EdgeCode, SMTT(30)
<1>9. \A d \in Edges(graph) : ~Joins(tags(d)) => src(d) # dst(d) /\ \A c \in Edges(graph) : dst(c) = dst(d) => c = d
  BY <1>3, StructuredGraph, SMTT(30)
<1>10. \A d \in Edges(graph) : ~Joins(tags(d)) /\ ~Ends(d) /\ dst(d) \in DOMAIN table => FromOlder(d)
  BY <1>3, SMTT(30) DEF SInv
<1>11. p \in DOMAIN table => leqState(table[p].st, table'[p].st)
  <2>1. ASSUME p \in DOMAIN table, ~Joins(tags(e))
        PROVE  leqState(table[p].st, table'[p].st)
    <3>1. PICK st \in States :
            /\ leqState(st, table[src(e)].st) /\ ~aborts(st, code(e))
            /\ ~code_transformer(st, code(e)).bot /\ table[p].st = code_transformer(st, code(e)).st
      BY <1>7, <1>10, <2>1, Zenon DEF FromOlder
    <3>2. leqState(code_transformer(st, code(e)).st, code_transformer(table[src(e)].st, code(e)).st)
      BY <1>3, <1>8, <3>1, TransformerGrows, ZenonT(30)
    <3> QED BY <1>5, <2>1, <3>1, <3>2, Zenon DEF Effect
  <2> QED BY <1>5, <2>1
<1> HIDE DEF p
<1>12. \A q \in DOMAIN table : q \in DOMAIN table' /\ leqState(table[q].st, table'[q].st)
  BY <1>5, <1>6, <1>11, LeqStateOrder
<1>13. ASSUME NEW d \in Edges(graph), ~Joins(tags(d)), ~Ends(d), dst(d) \in DOMAIN table'
       PROVE  FromOlder(d)'
  <2>1. CASE dst(d) = p
    <3>1. d = e
      BY <1>9, <1>13, <2>1 DEF p
    <3>2. src(e) # p
      BY <1>9, <1>13, <3>1 DEF p
    <3>3. table'[src(e)] = table[src(e)] /\ src(e) \in DOMAIN table'
      BY <1>3, <1>5, <3>2, ZenonT(30)
    <3>4. leqState(table[src(e)].st, table'[src(e)].st)
      BY <1>3, <3>3, LeqStateOrder
    <3>5. table'[dst(e)].st = code_transformer(table[src(e)].st, code(e)).st
      BY <1>5, <1>13, <3>1, ZenonT(30) DEF Effect, p
    <3>6. ~code_transformer(table[src(e)].st, code(e)).bot
      BY <1>1 DEF Effect
    <3> QED BY <1>3, <1>4, <3>1, <3>3, <3>4, <3>5, <3>6, ZenonT(30) DEF FromOlder
  <2>2. CASE dst(d) # p
    <3>1. dst(d) \in DOMAIN table /\ table'[dst(d)] = table[dst(d)]
      BY <1>5, <1>13, <2>2
    <3>2. src(d) \in DOMAIN table
      BY <1>10, <1>13, <3>1, Zenon DEF FromOlder
    <3>3. PICK st \in States :
            /\ leqState(st, table[src(d)].st) /\ ~aborts(st, code(d))
            /\ ~code_transformer(st, code(d)).bot /\ table[dst(d)].st = code_transformer(st, code(d)).st
      BY <1>10, <1>13, <3>1, ZenonT(30) DEF FromOlder
    <3>4. src(d) \in DOMAIN table' /\ leqState(table[src(d)].st, table'[src(d)].st)
      BY <1>12, <3>2, SMTT(30)
    <3>5. table'[src(d)].st \in States /\ table[src(d)].st \in States
      BY <1>5, <1>6, <3>2, SMTT(30)
    <3>6. leqState(st, table'[src(d)].st)
      BY <3>3, <3>4, <3>5, LeqStateOrder, SMTT(30)
    <3> QED BY <1>4, <3>1, <3>3, <3>4, <3>6, ZenonT(30) DEF FromOlder
  <2> QED BY <2>1, <2>2
<1> QED BY <1>12, <1>13, ZenonT(30)

(* An update of the table keeps the facts sound ... *)
LEMMA UpdateSound ==
  ASSUME NoNotEqual, IInv, IInv', SInv, worklist_update
  PROVE  SInv'
<1>1. UNCHANGED <<graph, fs_mark, marks, results, out, local>> /\ out = "worklist"
  BY DEF worklist_update, AtEdge
<1>2. \A d : dst(d)' = dst(d) /\ tags(d)' = tags(d) /\ Ends(d)' = Ends(d) /\ src(d)' = src(d)
  BY <1>1, SameGraph, SMTT(30)
<1>3. ASSUME NEW d \in fs_mark
      PROVE  ~Effect(d)'.bot
  <2>1. d \in Edges(graph) /\ src(d) \in DOMAIN table /\ ~Effect(d).bot /\ graph \in Graphs
    BY <1>1, Zenon DEF IInv, Typed, TypeOK, WorkInv, SInv
  <2>2. src(d) \in DOMAIN table' /\ leqState(table[src(d)].st, table'[src(d)].st)
    BY <2>1, UpdateGrows, Zenon
  <2>3. table[src(d)].st \in States /\ table'[src(d)].st \in States
    BY <2>1, <2>2, Zenon DEF IInv, Typed, TypeOK
  <2> QED BY <1>1, <2>1, <2>2, <2>3, StaysEnabled, SMTT(30)
<1>4. \A d \in Edges(graph') : ~Joins(tags(d)') /\ ~Ends(d)' /\ dst(d)' \in DOMAIN table' => FromOlder(d)'
  BY <1>1, <1>2, UpdateGrows, Zenon
<1> QED BY <1>1, <1>3, <1>4, SMTT(30) DEF SInv, Joins

(* what SInv says of the facts, when neither the graph nor the facts change *)
LEMMA SameFacts ==
  ASSUME UNCHANGED <<graph, table>>
  PROVE  /\ \A d : src(d)' = src(d) /\ dst(d)' = dst(d) /\ tags(d)' = tags(d) /\ code(d)' = code(d) /\ Ends(d)' = Ends(d)
         /\ \A d : Effect(d)' = Effect(d)
         /\ \A d : FromOlder(d)' <=> FromOlder(d)
<1>1. \A d : src(d)' = src(d) /\ dst(d)' = dst(d) /\ tags(d)' = tags(d) /\ code(d)' = code(d) /\ Ends(d)' = Ends(d)
  BY SameGraph, SMTT(30)
<1> QED BY <1>1, ZenonT(30) DEF Effect, FromOlder

(* ... and the other edges ... *)
LEMMA WorklistSound ==
  ASSUME IInv, SInv, worklist_bottom \/ worklist_mark
  PROVE  SInv'
<1>1. /\ UNCHANGED <<graph, table, marks, results, out, local>> /\ out = "worklist"
      /\ \A d \in fs_mark' : d \in fs_mark \/ ~Effect(d).bot
  BY DEF worklist_bottom, worklist_mark, AtEdge
<1>2. /\ \A d : dst(d)' = dst(d) /\ tags(d)' = tags(d) /\ Ends(d)' = Ends(d)
      /\ \A d : Effect(d)' = Effect(d)
      /\ \A d : FromOlder(d)' <=> FromOlder(d)
  BY <1>1, SameFacts, SMTT(30)
<1>3. \A d \in fs_mark' : ~Effect(d)'.bot
  BY <1>1, <1>2, SMTT(30) DEF SInv
<1>4. \A d \in Edges(graph') : ~Joins(tags(d)') /\ ~Ends(d)' /\ dst(d)' \in DOMAIN table' => FromOlder(d)'
  BY <1>1, <1>2, SMTT(30) DEF SInv
<1> QED BY <1>1, <1>3, <1>4, SMTT(30) DEF SInv, Joins

(* ... and the end of a call ... *)
LEMMA ResultSound ==
  ASSUME SInv, fixpt_result
  PROVE  SInv'
<1>1. /\ UNCHANGED <<graph, table, fs_mark>> /\ out = "worklist" /\ out' = "marks" /\ marks' = fs_mark
  BY SMTT(30) DEF fixpt_result
<1>2. \A d \in marks' : ~Effect(d)'.bot
  BY <1>1, SameFacts, SMTT(30) DEF SInv
<1> QED BY <1>1, <1>2 DEF SInv

(* A marked edge treated earlier keeps its result. *)
LEMMA KeepsResult ==
  ASSUME NEW d, HasResult(d), UNCHANGED <<graph, local>>,
         \A i \in DOMAIN results : i \in DOMAIN results' /\ results'[i] = results[i]
  PROVE  HasResult(d)'
<1>1. src(d)' = src(d) /\ dst(d)' = dst(d) /\ code(d)' = code(d)
  BY SameGraph, ZenonT(30)
<1>2. PICK i \in DOMAIN results :
        /\ results[i].pos = dst(d)
        /\ \A s \in Stores : Has(local[src(d)].st, s) => \A t \in Steps(s, code(d)) : Has(results[i].st, t)
  BY ZenonT(30) DEF HasResult
<1>3. i \in DOMAIN results' /\ results'[i] = results[i]
  BY <1>2
<1> QED BY <1>1, <1>2, <1>3 DEF HasResult

(* ... and the treatment of a mark. *)
LEMMA HandleSound ==
  ASSUME NoNotEqual, IInv, SInv, handle_mark
  PROVE  SInv'
<1> DEFINE res(e) == [st |-> table'[dst(e)].st, pos |-> dst(e),
                      act |-> table'[dst(e)].act \cup (IF Last(e) THEN {<<"texit", NoVar>>} ELSE {})]
<1>1. PICK e \in Edges(graph) :
        /\ AtMark(e) /\ Fine(e)
        /\ table' = update_node_table(dst(e), update(e, Effect(e).st, Acts(e)))
        /\ results' = Append(results, res(e))
        /\ marks' = marks \ {e}
  BY ZenonT(30) DEF handle_mark
<1>2. UNCHANGED <<graph, fs_mark, out, local>>
  BY DEF handle_mark
<1> DEFINE p == dst(e)
           r == res(e)
<1>3. /\ out = "marks" /\ e \in marks /\ e \in fs_mark /\ src(e) \in DOMAIN table /\ src(e) \in DOMAIN local
      /\ leqState(local[src(e)].st, table[src(e)].st)
      /\ table[src(e)].st \in States /\ local[src(e)].st \in States
      /\ ~aborts(table[src(e)].st, code(e)) /\ ~widens_empty(e)
  BY <1>1, AtMarkFacts, Zenon
<1>4. /\ DOMAIN table' = DOMAIN table \cup {p}
      /\ \A q \in DOMAIN table : q # p => table'[q] = table[q]
      /\ table'[p].st \in States
      /\ leqState(Effect(e).st, table'[p].st)
      /\ Joins(tags(e)) /\ p \in DOMAIN table => leqState(table[p].st, table'[p].st)
  BY <1>1, <1>3, UpdateTable, ZenonT(30) DEF IInv
<1>5. \A d : src(d)' = src(d) /\ dst(d)' = dst(d) /\ code(d)' = code(d)
  BY <1>2, SameGraph
<1>6. graph \in Graphs /\ results \in Seq(Set(results))
  BY DEF IInv, Typed
<1>7. r.st = table'[p].st /\ r.pos = p /\ results' = Append(results, r)
  BY <1>1, ZenonT(30)
<1> HIDE DEF p, r, res
<1>8. /\ \A i \in DOMAIN results : i \in DOMAIN results' /\ results'[i] = results[i]
      /\ \E i \in DOMAIN results' : results'[i] = r
  BY <1>6, <1>7, AppendResult
<1>9. ASSUME NEW d \in marks'
      PROVE  ~Effect(d)'.bot
  <2>1. d \in marks /\ d \in fs_mark /\ d \in Edges(graph) /\ src(d) \in DOMAIN table /\ ~Effect(d).bot
    BY <1>1, <1>3, ZenonT(30) DEF IInv, Typed, TypeOK, MarkInv, SInv
  <2>2. table[src(d)].st \in States
    BY <2>1 DEF IInv, Typed, TypeOK
  <2>3. table'[src(d)].st \in States /\ leqState(table[src(d)].st, table'[src(d)].st)
    <3>1. CASE src(d) # p
      BY <1>4, <2>1, <2>2, <3>1, LeqStateOrder, ZenonT(30)
    <3>2. CASE src(d) = p
      <4>1. Joins(tags(e))
        BY <1>3, <2>1, <3>2, ZenonT(30) DEF IInv, MarkInv, p
      <4> QED BY <1>4, <2>1, <3>2, <4>1, Zenon
    <3> QED BY <3>1, <3>2, Zenon
  <2> QED BY <1>2, <1>6, <2>1, <2>2, <2>3, StaysEnabled, ZenonT(30)
<1>10. ASSUME NEW s \in Stores, Has(local[src(e)].st, s), NEW t \in Steps(s, code(e))
       PROVE  Has(r.st, t)
  <2>1. Has(table[src(e)].st, s)
    <3>1. ASSUME NEW x \in Vars PROVE In(s[x], table[src(e)].st[x])
      <4>1. /\ s[x] \in Int /\ local[src(e)].st[x] \in Values /\ table[src(e)].st[x] \in Values
            /\ leqValue(local[src(e)].st[x], table[src(e)].st[x]) /\ In(s[x], local[src(e)].st[x])
        BY <1>3, <1>10, ZenonT(30) DEF Stores, States, leqState, Has
      <4> QED BY <4>1, InLeq
    <3> QED BY <3>1, ZenonT(30) DEF Has
  <2>2. code(e) \in Codes /\ ~(code(e).k = "cond" /\ code(e).op = "!=")
    BY <1>6, EdgeCode
  <2>3. Has(Effect(e).st, t)
    BY <1>3, <1>10, <2>1, <2>2, TransformerSound, ZenonT(30) DEF Effect
  <2>4. Effect(e).st \in States
    BY <1>3, <2>2, TransformerType, ZenonT(30) DEF Effect
  <2>5. t \in Stores
    BY <1>10, <2>2, StepsType, SMTT(30)
  <2>6. ASSUME NEW x \in Vars PROVE In(t[x], r.st[x])
    <3>1. /\ t[x] \in Int /\ Effect(e).st[x] \in Values /\ table'[p].st[x] \in Values
          /\ leqValue(Effect(e).st[x], table'[p].st[x]) /\ In(t[x], Effect(e).st[x])
      BY <1>4, <2>3, <2>4, <2>5, ZenonT(30) DEF Stores, States, leqState, Has
    <3> QED BY <1>7, <3>1, InLeq, SMTT(30)
  <2> QED BY <2>6, ZenonT(30) DEF Has
<1>11. HasResult(e)'
  <2>1. PICK i \in DOMAIN results' : results'[i] = r
    BY <1>8
  <2> QED BY <1>2, <1>5, <1>7, <1>10, <2>1, ZenonT(30) DEF HasResult, p
<1>12. \A d \in fs_mark' \ marks' : HasResult(d)'
  <2>1. ASSUME NEW d \in fs_mark' \ marks' PROVE HasResult(d)'
    <3>1. d = e \/ d \in fs_mark \ marks
      BY <1>1, <1>2, SMTT(30)
    <3>2. ASSUME d \in fs_mark \ marks PROVE HasResult(d)'
      <4>1. HasResult(d)
        BY <1>3, <3>2, ZenonT(30) DEF SInv
      <4> QED BY <1>2, <1>8, <4>1, KeepsResult
    <3> QED BY <1>11, <3>1, <3>2, SMTT(30)
  <2> QED BY <2>1
<1> QED BY <1>2, <1>3, <1>9, <1>12, ZenonT(30) DEF SInv

(* So every step keeps them sound ... *)
LEMMA StepSound == NoNotEqual /\ IInv /\ IInv' /\ SInv /\ [Next]_vars => SInv'
<1> SUFFICES ASSUME NoNotEqual, IInv, IInv', SInv, [Next]_vars
             PROVE  SInv'
  BY SMTT(30)
<1>1. CASE Abort
  <2>1. PICK e \in Current : ~Fine(e) /\ out' = error(e)
    BY <1>1 DEF Abort
  <2>2. /\ error(e) \in {"infinite bounds", "bottom result"}
        /\ error(e) = "bottom result" => out = "marks" /\ e \in marks /\ Effect(e).bot
    BY <2>1, ErrorFacts, ZenonT(30) DEF Fine
  <2>3. out' = "infinite bounds"
    BY <2>1, <2>2, ZenonT(30) DEF SInv
  <2> QED BY <2>3 DEF SInv
<1>2. CASE Return
  <2>1. /\ UNCHANGED <<graph, table, fs_mark, marks, results, local>> /\ out = "marks" /\ out' = "end"
    BY <1>2 DEF Return
  <2>2. \A d : HasResult(d) => HasResult(d)'
    BY <2>1, KeepsResult, SMTT(30)
  <2> QED BY <2>1, <2>2 DEF SInv
<1>3. CASE UNCHANGED vars
  <2>1. UNCHANGED <<graph, table, fs_mark, marks, results, local, out>>
    BY <1>3, SMTT(30) DEF vars
  <2>2. /\ \A d : HasResult(d) => HasResult(d)'
        /\ \A d : dst(d)' = dst(d) /\ tags(d)' = tags(d) /\ Ends(d)' = Ends(d)
        /\ \A d : Effect(d)' = Effect(d)
        /\ \A d : FromOlder(d)' <=> FromOlder(d)
    BY <2>1, KeepsResult, SameFacts
  <2> QED BY <2>1, <2>2 DEF SInv, Joins
<1> QED BY <1>1, <1>2, <1>3, WorklistSound, UpdateSound, ResultSound, HandleSound, SMTT(30) DEF Next

(* ... and they are sound in every behaviour. *)
LEMMA SInvariance ==
  ASSUME NoNotEqual
  PROVE  Spec => [](IInv /\ SInv)
<1>1. Init => IInv /\ SInv
  BY InitInv
<1>2. (IInv /\ SInv) /\ [Next]_vars => (IInv /\ SInv)'
  BY StepInv, StepSound
<1> QED BY <1>1, <1>2, PTL DEF Spec

(* The concrete steps of an edge are in the fact of its target or in one of *)
(* the results.                                                             *)
LEMMA CoversStep ==
  ASSUME NoNotEqual, IInv, SInv, out = "end", NEW e \in Edges(graph), src(e) \in DOMAIN local,
         NEW s \in Stores, Has(local[src(e)].st, s), NEW t \in Steps(s, code(e))
  PROVE  Covered(e, t)
<1>1. /\ graph \in Graphs /\ local[src(e)].st \in States /\ Settled(local, e) /\ marks = {}
      /\ \A p \in DOMAIN local : local[p].st \in States
  BY ZenonT(30) DEF IInv, Typed, MarkInv
<1>2. code(e) \in Codes /\ ~(code(e).k = "cond" /\ code(e).op = "!=")
  BY <1>1, EdgeCode, SMTT(30)
<1>3. ~aborts(local[src(e)].st, code(e))
  BY <1>1 DEF Settled
<1>4. ~EffectIn(local, e).bot /\ Has(EffectIn(local, e).st, t) /\ EffectIn(local, e).st \in States
  BY <1>1, <1>2, <1>3, TransformerSound, TransformerType, Zenon DEF EffectIn
<1>5. CASE Ends(e)
  <2>1. e \in fs_mark \ marks
    BY <1>1, <1>4, <1>5, ZenonT(30) DEF Settled
  <2>2. HasResult(e)
    BY <2>1 DEF SInv
  <2> QED BY <1>5, <2>2, Zenon DEF HasResult, Covered
<1>6. CASE ~Ends(e)
  <2>1. dst(e) \in DOMAIN local /\ leqState(EffectIn(local, e).st, local[dst(e)].st)
    BY <1>1, <1>4, <1>6, ZenonT(30) DEF Settled
  <2>2. t \in Stores
    BY <1>2, StepsType
  <2>3. ASSUME NEW x \in Vars PROVE In(t[x], local[dst(e)].st[x])
    <3>1. /\ t[x] \in Int /\ EffectIn(local, e).st[x] \in Values /\ local[dst(e)].st[x] \in Values
          /\ leqValue(EffectIn(local, e).st[x], local[dst(e)].st[x]) /\ In(t[x], EffectIn(local, e).st[x])
      BY <1>1, <1>4, <2>1, <2>2, ZenonT(30) DEF Stores, States, leqState, Has
    <3> QED BY <3>1, InLeq, Zenon
  <2> QED BY <1>6, <2>1, <2>3, Zenon DEF Covered, Has
<1> QED BY <1>5, <1>6

(* On graphs without the condition !=, the engine never asks for a missing  *)
(* fact, never widens with nothing, and never stores bottom as a result.    *)
THEOREM ErrorFree ==
  ASSUME NoNotEqual
  PROVE  Spec => []NoError
<1>1. IInv /\ SInv => NoError
  BY DEF IInv, Typed, SInv, NoError
<1> QED BY <1>1, SInvariance, PTL

(* On these graphs the analysis is sound: what the thread can do before and *)
(* with its first global action is in the facts and in the results, for any *)
(* variables, integers, loops and widening level.                           *)
THEOREM AnalysisSound ==
  ASSUME NoNotEqual
  PROVE  Spec => []Sound
<1>1. IInv /\ SInv => Sound
  <2> SUFFICES ASSUME IInv, SInv, out = "end"
               PROVE  Sound
    BY ZenonT(30) DEF Sound
  <2>1. graph.start \in DOMAIN local /\ leqState(graph.st, local[graph.start].st)
    BY DEF IInv, MarkInv
  <2>2. [Vars -> Ints] \subseteq Stores
    BY IntsAssumption, ZenonT(30) DEF Stores
  <2>3. \A e \in Edges(graph) :
          src(e) \in DOMAIN local =>
            \A s \in [Vars -> Ints] : Has(local[src(e)].st, s) => \A t \in Steps(s, code(e)) : Covered(e, t)
    BY <2>2, CoversStep
  <2> QED BY <2>1, <2>3, Zenon DEF Sound
<1> QED BY <1>1, SInvariance, PTL

(* On these graphs no fact loses a state while the worklist runs. *)
THEOREM FactsOnlyGrow ==
  ASSUME NoNotEqual
  PROVE  Spec => FactsGrow
<1> DEFINE Grows == out = "worklist" => \A p \in DOMAIN table : p \in DOMAIN table' /\ leqState(table[p].st, table'[p].st)
<1>1. (IInv /\ SInv) /\ [Next]_vars => [Grows]_vars
  <2> SUFFICES ASSUME IInv, SInv, Next, out = "worklist"
               PROVE  \A p \in DOMAIN table : p \in DOMAIN table' /\ leqState(table[p].st, table'[p].st)
    BY SMTT(30)
  <2>1. CASE worklist_update
    BY <2>1, UpdateGrows, SMTT(30)
  <2>2. CASE ~worklist_update
    <3>1. table' = table
      BY <2>2, SMTT(30) DEF Next, worklist_bottom, worklist_mark, fixpt_result, handle_mark, AtMark, Return, Abort
    <3>2. \A p \in DOMAIN table : table[p].st \in States
      BY DEF IInv, Typed, TypeOK
    <3> QED BY <3>1, <3>2, LeqStateOrder, SMTT(30)
  <2> QED BY <2>1, <2>2, SMTT(30)
<1> QED BY <1>1, SInvariance, PTL DEF Spec, FactsGrow
=============================================================================
