---------------------------- MODULE FixpointFacts ---------------------------
(***************************************************************************)
(* The fixpoint engine: its lists, the graphs it analyses, the inductive   *)
(* invariant, and what one treatment of an edge does to the table.         *)
(***************************************************************************)
EXTENDS Fixpoint, IntervalProofs

Distinct(s) == \A i, j \in DOMAIN s : s[i] = s[j] => i = j

-----------------------------------------------------------------------------
(* Lists *)

(* A list is its head and its tail. *)
LEMMA TailList ==
  ASSUME NEW S, NEW s \in Seq(S), s # << >>
  PROVE  /\ Head(s) \in Set(s) /\ Tail(s) \in Seq(S)
         /\ Set(s) = {Head(s)} \cup Set(Tail(s))
         /\ Distinct(s) => Distinct(Tail(s)) /\ Head(s) \notin Set(Tail(s))
<1>1. Len(s) \in Nat \ {0} /\ DOMAIN s = 1..Len(s) /\ Head(s) = s[1]
  OBVIOUS
<1>2. /\ Tail(s) \in Seq(S) /\ Len(Tail(s)) = Len(s) - 1
      /\ DOMAIN Tail(s) = 1..(Len(s) - 1) /\ \A i \in 1..(Len(s) - 1) : Tail(s)[i] = s[i + 1]
  OBVIOUS
<1>3. Head(s) \in Set(s)
  BY <1>1 DEF Set
<1>4. ASSUME NEW x \in Set(s)
      PROVE  x \in {Head(s)} \cup Set(Tail(s))
  <2>1. PICK i \in 1..Len(s) : x = s[i]
    BY <1>1 DEF Set
  <2>2. CASE i = 1
    BY <1>1, <2>1, <2>2
  <2>3. CASE i # 1
    <3>1. i - 1 \in 1..(Len(s) - 1) /\ s[i] = Tail(s)[i - 1]
      BY <1>1, <1>2, <2>1, <2>3
    <3> QED BY <1>2, <2>1, <3>1, Zenon DEF Set
  <2> QED BY <2>2, <2>3
<1>5. ASSUME NEW x \in Set(Tail(s))
      PROVE  x \in Set(s)
  <2>1. PICK i \in 1..(Len(s) - 1) : x = Tail(s)[i]
    BY <1>2 DEF Set
  <2>2. i + 1 \in 1..Len(s) /\ x = s[i + 1]
    BY <1>1, <1>2, <2>1
  <2> QED BY <1>1, <2>2 DEF Set
<1>6. ASSUME Distinct(s)
      PROVE  Distinct(Tail(s)) /\ Head(s) \notin Set(Tail(s))
  <2>1. ASSUME NEW i \in 1..(Len(s) - 1), NEW j \in 1..(Len(s) - 1), Tail(s)[i] = Tail(s)[j]
        PROVE  i = j
    <3>1. i + 1 \in 1..Len(s) /\ j + 1 \in 1..Len(s) /\ s[i + 1] = s[j + 1]
      BY <1>1, <1>2, <2>1
    <3>2. i + 1 = j + 1
      BY <1>1, <1>6, <3>1 DEF Distinct
    <3> QED BY <3>2
  <2>2. ASSUME NEW i \in 1..(Len(s) - 1), Tail(s)[i] = Head(s)
        PROVE  FALSE
    <3>1. i + 1 \in 1..Len(s) /\ 1 \in 1..Len(s) /\ s[i + 1] = s[1]
      BY <1>1, <1>2, <2>2
    <3>2. i + 1 = 1
      BY <1>1, <1>6, <3>1 DEF Distinct
    <3> QED BY <3>2
  <2> QED BY <1>2, <2>1, <2>2 DEF Distinct, Set
<1> QED BY <1>2, <1>3, <1>4, <1>5, <1>6

(* Adding an edge to the worklist adds it once. *)
LEMMA SnocList ==
  ASSUME NEW S, NEW s \in Seq(S), NEW e \in S
  PROVE  /\ snoc(s, e) \in Seq(S) /\ Set(snoc(s, e)) = Set(s) \cup {e}
         /\ Distinct(s) => Distinct(snoc(s, e))
<1>1. CASE e \in Set(s)
  BY <1>1 DEF snoc
<1>2. CASE e \notin Set(s)
  <2> DEFINE t == Append(s, e)
  <2>1. /\ t \in Seq(S) /\ DOMAIN s = 1..Len(s) /\ DOMAIN t = 1..(Len(s) + 1) /\ Len(s) \in Nat
        /\ t[Len(s) + 1] = e /\ \A i \in 1..Len(s) : t[i] = s[i]
    OBVIOUS
  <2> HIDE DEF t
  <2>2. Set(t) = Set(s) \cup {e}
    <3>1. ASSUME NEW x \in Set(t) PROVE x \in Set(s) \cup {e}
      <4>1. PICK i \in 1..(Len(s) + 1) : x = t[i]
        BY <2>1 DEF Set
      <4>2. CASE i = Len(s) + 1
        BY <2>1, <4>1, <4>2
      <4>3. CASE i # Len(s) + 1
        BY <2>1, <4>1, <4>3 DEF Set
      <4> QED BY <4>2, <4>3
    <3>2. ASSUME NEW x \in Set(s) PROVE x \in Set(t)
      BY <2>1 DEF Set
    <3>3. e \in Set(t)
      BY <2>1 DEF Set
    <3> QED BY <3>1, <3>2, <3>3
  <2>3. ASSUME Distinct(s) PROVE Distinct(t)
    <3>1. ASSUME NEW i \in 1..(Len(s) + 1), NEW j \in 1..(Len(s) + 1), t[i] = t[j]
          PROVE  i = j
      <4>1. CASE i = Len(s) + 1 /\ j # Len(s) + 1
        BY <1>2, <2>1, <3>1, <4>1 DEF Set
      <4>2. CASE i # Len(s) + 1 /\ j = Len(s) + 1
        BY <1>2, <2>1, <3>1, <4>2 DEF Set
      <4>3. CASE i # Len(s) + 1 /\ j # Len(s) + 1
        BY <2>1, <2>3, <3>1, <4>3 DEF Distinct
      <4> QED BY <4>1, <4>2, <4>3
    <3> QED BY <2>1, <3>1 DEF Distinct
  <2>4. snoc(s, e) = t
    BY <1>2 DEF snoc, t
  <2> QED BY <2>1, <2>2, <2>3, <2>4
<1> QED BY <1>1, <1>2

(* Adding one or two edges to the worklist adds each of them once. *)
LEMMA NubList ==
  ASSUME NEW S, NEW s \in Seq(S), NEW t \in Seq(S), Len(t) <= 2
  PROVE  /\ nub_append(s, t) \in Seq(S) /\ Set(nub_append(s, t)) = Set(s) \cup Set(t)
         /\ Distinct(s) => Distinct(nub_append(s, t))
<1>0. DOMAIN t = 1..Len(t) /\ Len(t) \in Nat /\ \A i \in 1..Len(t) : t[i] \in S
  OBVIOUS
<1>1. CASE Len(t) = 0
  <2>1. Set(t) = {}
    BY <1>0, <1>1 DEF Set
  <2> QED BY <1>1, <2>1 DEF nub_append
<1>2. CASE Len(t) = 1
  <2>0. 1..1 = {1}
    OBVIOUS
  <2>1. PICK a \in S : a = t[1]
    <3>1. 1 \in 1..Len(t)
      BY <1>2
    <3> QED BY <1>0, <3>1
  <2>2. Set(t) = {a}
    BY <1>0, <1>2, <2>0, <2>1 DEF Set
  <2>3. nub_append(s, t) = snoc(s, a)
    BY <1>2, <2>1 DEF nub_append
  <2>4. /\ snoc(s, a) \in Seq(S) /\ Set(snoc(s, a)) = Set(s) \cup {a}
        /\ Distinct(s) => Distinct(snoc(s, a))
    BY SnocList, Zenon
  <2> QED BY <2>2, <2>3, <2>4, Zenon
<1>3. CASE Len(t) = 2
  <2>0. 1..2 = {1, 2}
    OBVIOUS
  <2>1. PICK a \in S, b \in S : a = t[1] /\ b = t[2]
    BY <1>3, SMTT(30)
  <2>2. Set(t) = {a, b}
    BY <1>0, <1>3, <2>0, <2>1 DEF Set
  <2>3. nub_append(s, t) = snoc(snoc(s, a), b)
    BY <1>3, <2>1 DEF nub_append
  <2> DEFINE u == snoc(s, a)
  <2>4. u \in Seq(S) /\ Set(u) = Set(s) \cup {a} /\ (Distinct(s) => Distinct(u))
    BY SnocList, Zenon
  <2> HIDE DEF u
  <2>5. /\ snoc(u, b) \in Seq(S) /\ Set(snoc(u, b)) = Set(u) \cup {b}
        /\ Distinct(u) => Distinct(snoc(u, b))
    BY <2>4, SnocList, Zenon
  <2>6. Set(snoc(u, b)) = Set(s) \cup Set(t)
    BY <2>2, <2>4, <2>5
  <2> QED BY <2>3, <2>4, <2>5, <2>6, Zenon DEF u
<1> QED BY <1>0, <1>1, <1>2, <1>3
-----------------------------------------------------------------------------
(***************************************************************************)
(* The inductive invariant.  While the worklist runs, an edge whose source  *)
(* has a fact is in the worklist or settled: its effect on the fact is      *)
(* bottom, marked, or included in the fact of its target.  While the marks  *)
(* are treated, the facts their sources had are kept, because no marked     *)
(* edge without a join tag enters the source of a marked edge.              *)
(***************************************************************************)
EffectIn(t, e) == code_transformer(t[src(e)].st, code(e))

Settled(t, e) ==
  /\ ~aborts(t[src(e)].st, code(e))
  /\ \/ EffectIn(t, e).bot
     \/ Ends(e) /\ e \in fs_mark
     \/ ~Ends(e) /\ dst(e) \in DOMAIN t /\ leqState(EffectIn(t, e).st, t[dst(e)].st)
  /\ code(e).k = "error" => src(e) \in fs_warns

StartEnds == \A e \in From(graph, graph.start) : Ends(e)

Typed ==
  /\ graph \in Graphs /\ fs_wid \in Levels
  /\ TypeOK
  /\ fs_wide \in [Nodes(graph) -> Nat]
  /\ \A p \in Nodes(graph) : fs_wide[p] > 0 => p \in DOMAIN table
  /\ results \in Seq(Set(results))
  /\ out \notin {"invalid pre states", "widening empty"}

WorkInv ==
  out = "worklist" =>
    /\ marks = {} /\ results = << >>
    /\ graph.start \in DOMAIN table /\ leqState(graph.st, table[graph.start].st)
    /\ \A p \in DOMAIN table :
         /\ ~isGlobal(table[p].act)
         /\ p = graph.start \/ \E d \in Edges(graph) : dst(d) = p /\ ~Ends(d)
    /\ \A e \in Set(wlist) \cup fs_mark : src(e) \in DOMAIN table
    /\ \A e \in fs_mark : Ends(e)
    /\ \A e \in Edges(graph) : src(e) \in DOMAIN table /\ e \notin Set(wlist) => Settled(table, e)
    /\ StartEnds => DOMAIN table = {graph.start}

MarkInv ==
  out \in {"marks", "end"} =>
    /\ graph.start \in DOMAIN local /\ leqState(graph.st, local[graph.start].st)
    /\ \A p \in DOMAIN local : local[p].st \in States
    /\ \A e \in Edges(graph) : src(e) \in DOMAIN local => Settled(local, e)
    /\ \A e \in fs_mark : Ends(e) /\ src(e) \in DOMAIN local
    /\ \A d, e \in fs_mark : Joins(tags(d)) \/ dst(d) # src(e)
    /\ \A e \in marks : src(e) \in DOMAIN table /\ leqState(local[src(e)].st, table[src(e)].st)
    /\ out = "end" => marks = {}

IInv == Typed /\ WorkInv /\ MarkInv

(***************************************************************************)
(* For graphs without !=: the fact of a node that strong_update stores is   *)
(* the effect of an earlier, smaller fact, a marked edge stays enabled, and *)
(* a treated one has a result with every store it can lead to.              *)
(***************************************************************************)
NoNotEqual == \A g \in Graphs : \A e \in Edges(g) : ~(g.edges[e].code.k = "cond" /\ g.edges[e].code.op = "!=")

FromOlder(e) ==
  /\ src(e) \in DOMAIN table
  /\ \E st \in States :
       /\ leqState(st, table[src(e)].st) /\ ~aborts(st, code(e))
       /\ ~code_transformer(st, code(e)).bot /\ table[dst(e)].st = code_transformer(st, code(e)).st

HasResult(e) ==
  \E i \in DOMAIN results :
    /\ results[i].pos = dst(e)
    /\ \A s \in Stores : Has(local[src(e)].st, s) => \A t \in Steps(s, code(e)) : Has(results[i].st, t)

SInv ==
  /\ out = "worklist" =>
       /\ \A e \in fs_mark : ~Effect(e).bot
       /\ \A e \in Edges(graph) :
            ~Joins(tags(e)) /\ ~Ends(e) /\ dst(e) \in DOMAIN table => FromOlder(e)
  /\ out = "marks" => \A e \in marks : ~Effect(e).bot
  /\ out \in {"marks", "end"} => \A e \in fs_mark \ marks : HasResult(e)
  /\ out # "bottom result"
-----------------------------------------------------------------------------
(* What GraphsAssumption says of the graph analysed *)
LEMMA GraphFacts ==
  ASSUME graph \in Graphs
  PROVE  /\ graph.start \in Nodes(graph) /\ graph.st \in States
         /\ \A e \in Edges(graph) :
              /\ src(e) \in Nodes(graph) /\ dst(e) \in Nodes(graph) /\ code(e) \in Codes
              /\ e \in Set(succs(src(e)))
         /\ \A p \in Nodes(graph) :
              /\ succs(p) \in Seq(Edges(graph)) /\ Len(succs(p)) <= 2
              /\ \A e \in Set(succs(p)) : e \in Edges(graph) /\ src(e) = p
<1>1. WellFormed(graph)
  BY GraphsAssumption, SMTT(30)
<1>2. \A p \in Nodes(graph) : \A e \in Set(succs(p)) : src(e) = p
  BY <1>1 DEF WellFormed, Set, src, succs
<1>3. \A p \in Nodes(graph) : succs(p) \in Seq(Edges(graph)) /\ Len(succs(p)) <= 2
  BY <1>1 DEF WellFormed, succs
<1>4. \A p \in Nodes(graph) : \A e \in Set(succs(p)) : e \in Edges(graph)
  <2> TAKE p \in Nodes(graph)
  <2>1. succs(p) \in Seq(Edges(graph))
    BY <1>3
  <2> QED BY <2>1 DEF Set
<1>5. /\ graph.start \in Nodes(graph) /\ graph.st \in States
      /\ \A e \in Edges(graph) :
           /\ src(e) \in Nodes(graph) /\ dst(e) \in Nodes(graph) /\ code(e) \in Codes
           /\ e \in Set(succs(src(e)))
  BY <1>1 DEF WellFormed, src, dst, code, succs
<1> QED BY <1>2, <1>3, <1>4, <1>5

(* What the shape of a graph of the front end says of an edge that joins no others. *)
LEMMA StructuredGraph ==
  ASSUME graph \in Graphs, NEW e \in Edges(graph), ~Joins(tags(e))
  PROVE  /\ \A d \in Edges(graph) : dst(d) = dst(e) => d = e
         /\ src(e) # dst(e)
         /\ dst(e) = graph.start =>
              Ends(e) /\ \A d1, d2 \in From(graph, graph.start) : Ends(d1) <=> Ends(d2)
<1>1. Structured(graph, e)
  BY GraphsAssumption DEF WellFormed
<1> QED BY <1>1 DEF Structured, tags, src, dst, Ends

(* The first call of fixpt establishes the invariants. *)
LEMMA InitInv == Init => IInv /\ SInv
<1> SUFFICES ASSUME NEW g \in Graphs, NEW w \in Levels, fixpt(g, w)
             PROVE  IInv /\ SInv
  BY DEF Init
<1>1. graph \in Graphs /\ fs_wid \in Levels
  BY DEF fixpt
<1>2. /\ DOMAIN table = {graph.start} /\ table[graph.start].st = graph.st /\ table[graph.start].act = {}
  BY DEF fixpt
<1>3. /\ wlist = succs(graph.start) /\ fs_mark = {} /\ fs_wide = [p \in Nodes(graph) |-> 0] /\ fs_warns = {}
      /\ marks = {} /\ results = << >> /\ out = "worklist"
  BY DEF fixpt, succs
<1>4. Set(results) = {} /\ results \in Seq(Set(results))
  BY <1>3 DEF Set
<1>5. wlist \in Seq(Edges(graph)) /\ \A i, j \in DOMAIN wlist : wlist[i] = wlist[j] => i = j
  <2>1. WellFormed(graph)
    BY <1>1, GraphsAssumption
  <2> QED BY <2>1, <1>3 DEF WellFormed, succs
<1>6. TypeOK
  BY <1>1, <1>2, <1>3, <1>5, GraphFacts DEF TypeOK
<1>7. Typed
  BY <1>1, <1>3, <1>4, <1>6 DEF Typed
<1>8. WorkInv
  <2>1. ~isGlobal({})
    BY DEF isGlobal
  <2>2. leqState(graph.st, graph.st)
    BY <1>1, GraphFacts, LeqStateOrder
  <2>3. \A e \in Set(wlist) : src(e) = graph.start
    BY <1>1, <1>3, GraphFacts
  <2>4. \A e \in Edges(graph) : src(e) = graph.start => e \in Set(wlist)
    BY <1>1, <1>3, GraphFacts
  <2> QED BY <1>2, <1>3, <2>1, <2>2, <2>3, <2>4, Zenon DEF WorkInv
<1>9. MarkInv
  BY <1>3 DEF MarkInv
<1>10. SInv
  <2>1. ASSUME NEW e \in Edges(graph), ~Joins(tags(e)), ~Ends(e), dst(e) \in DOMAIN table
        PROVE  FALSE
    BY <1>1, <1>2, <2>1, StructuredGraph
  <2> QED BY <1>3, <2>1 DEF SInv
<1> QED BY <1>7, <1>8, <1>9, <1>10 DEF IInv

(* local and global edges *)
LEMMA MarkedEnds ==
  ASSUME graph \in Graphs, NEW e \in Edges(graph), ~Effect(e).bot, ~isGlobal(table[src(e)].act)
  PROVE  Marked(e) <=> Ends(e)
<1>1. isGlobal(Effect(e).act) <=> GlobalCode(code(e))
  BY GraphFacts, TransformerGlobal DEF Effect, GlobalCode
<1>2. isGlobal(Acts(e)) <=> GlobalCode(code(e))
  BY <1>1, GlobalUnion DEF Acts
<1> QED BY <1>2 DEF Marked, Ends, EndsBlock, Last, code
(***************************************************************************)
(* The table after the treatment of an edge: the target has a fact that     *)
(* contains the effect and, at a join, the former fact.                     *)
(***************************************************************************)
LEMMA UpdateTable ==
  ASSUME Typed, NEW e \in Edges(graph), src(e) \in DOMAIN table, ~aborts(table[src(e)].st, code(e)),
         ~widens_empty(e)
  PROVE  LET p == dst(e)
             f == update(e, Effect(e).st, Acts(e))
             T == update_node_table(p, f)
         IN  /\ DOMAIN T = DOMAIN table \cup {p}
             /\ \A q \in DOMAIN table : q # p => T[q] = table[q]
             /\ T[p].st \in States /\ T[p].st = f.st /\ leqState(Effect(e).st, T[p].st)
             /\ Joins(tags(e)) /\ p \in DOMAIN table => leqState(table[p].st, T[p].st)
             /\ ~Joins(tags(e)) => T[p].st = Effect(e).st
             /\ is_fix(p, f) => T = table
             /\ ~isGlobal(Acts(e)) /\ (p \in DOMAIN table => ~isGlobal(table[p].act)) => ~isGlobal(T[p].act)
<1> DEFINE p == dst(e)
           st == Effect(e).st
           f == update(e, Effect(e).st, Acts(e))
           T == update_node_table(p, f)
<1>1. st \in States
  BY TransformerType, GraphFacts DEF Effect, Typed, TypeOK
<1>2. p \in DOMAIN table => table[p].st \in States
  BY DEF Typed, TypeOK
<1> HIDE DEF st
<1>3. /\ f.st \in States /\ leqState(st, f.st)
      /\ Joins(tags(e)) /\ p \in DOMAIN table => leqState(table[p].st, f.st)
      /\ ~Joins(tags(e)) => f.st = st
      /\ f.act = Acts(e) \/ (p \in DOMAIN table /\ f.act = Acts(e) \cup table[p].act)
  <2>0. /\ leqState(st, st)
        /\ p \in DOMAIN table =>
             /\ joinState(st, table[p].st) \in States /\ leqState(st, joinState(st, table[p].st))
             /\ leqState(table[p].st, joinState(st, table[p].st))
             /\ widenState(table[p].st, st) \in States /\ leqState(st, widenState(table[p].st, st))
             /\ leqState(table[p].st, widenState(table[p].st, st))
    BY <1>1, <1>2, LeqStateOrder, JoinState, WidenState, SMTT(30)
  <2>w. /\ weak_update(p, st, Acts(e)).st \in States /\ leqState(st, weak_update(p, st, Acts(e)).st)
        /\ p \in DOMAIN table => leqState(table[p].st, weak_update(p, st, Acts(e)).st)
        /\ \/ weak_update(p, st, Acts(e)).act = Acts(e)
           \/ p \in DOMAIN table /\ weak_update(p, st, Acts(e)).act = Acts(e) \cup table[p].act
    BY <1>1, <2>0, SMTT(30) DEF weak_update
  <2>1. CASE tags(e) = <<"LoopHead">>
    <3>1. f = loop_head_update(p, st, Acts(e))
      BY <2>1, SMTT(30) DEF update, st
    <3>2. CASE fs_wide[p] >= fs_wid
      <4>1. p \in DOMAIN table
        BY <2>1, <3>2 DEF widens_empty
      <4>2. f = [st |-> widenState(table[p].st, st), act |-> Acts(e) \cup table[p].act]
        BY <3>1, <3>2, SMTT(30) DEF loop_head_update
      <4> QED BY <2>0, <2>1, <4>1, <4>2 DEF Joins
    <3>3. CASE ~(fs_wide[p] >= fs_wid)
      <4>1. f = weak_update(p, st, Acts(e))
        BY <3>1, <3>3, SMTT(30) DEF loop_head_update
      <4> QED BY <2>w, <2>1, <4>1 DEF Joins
    <3> QED BY <3>2, <3>3
  <2>2. CASE tags(e) = <<"IfJoin">>
    <3>1. <<"IfJoin">> # <<"LoopHead">>
      <4>1. "IfJoin" # "LoopHead"
        OBVIOUS
      <4> QED BY <4>1
    <3>2. f = weak_update(p, st, Acts(e))
      BY <2>2, <3>1, SMTT(30) DEF update, st
    <3> QED BY <2>w, <2>2, <3>2 DEF Joins
  <2>3. CASE ~Joins(tags(e))
    <3>1. f = strong_update(p, st, Acts(e))
      BY <2>3 DEF update, st, Joins
    <3> QED BY <1>1, <2>0, <2>3, <3>1 DEF strong_update
  <2> QED BY <2>1, <2>2, <2>3, Zenon DEF Joins
<1> HIDE DEF f, p
<1>4. CASE is_fix(p, f)
  <2>1. T = table /\ p \in DOMAIN table /\ table[p].st = f.st
    BY <1>4 DEF update_node_table, is_fix
  <2>2. DOMAIN T = DOMAIN table \cup {p}
    BY <2>1
  <2> QED BY <1>3, <2>1, <2>2, Zenon DEF p, f, st
<1>5. CASE ~is_fix(p, f)
  <2>1. T = insert(table, p, f)
    BY <1>5 DEF update_node_table
  <2>2. /\ DOMAIN T = DOMAIN table \cup {p} /\ T[p] = f
        /\ \A q \in DOMAIN table : q # p => T[q] = table[q]
    BY <2>1 DEF insert
  <2>3. ~isGlobal(Acts(e)) /\ (p \in DOMAIN table => ~isGlobal(table[p].act)) => ~isGlobal(T[p].act)
    BY <1>3, <2>2, GlobalUnion
  <2> QED BY <1>3, <1>5, <2>2, <2>3, Zenon DEF p, f, st
<1> QED BY <1>4, <1>5, Zenon

(* the counters of loop heads count nodes that have a fact *)
LEMMA WideFacts ==
  ASSUME Typed, NEW e \in Edges(graph), inc_wide(e), graph' = graph, dst(e) \in DOMAIN table',
         DOMAIN table \subseteq DOMAIN table'
  PROVE  fs_wide' \in [Nodes(graph) -> Nat] /\ \A p \in Nodes(graph) : fs_wide'[p] > 0 => p \in DOMAIN table'
<1>1. dst(e) \in Nodes(graph)
  BY GraphFacts DEF Typed
<1>2. fs_wide \in [Nodes(graph) -> Nat] /\ \A p \in Nodes(graph) : fs_wide[p] > 0 => p \in DOMAIN table
  BY DEF Typed
<1> QED BY <1>1, <1>2 DEF inc_wide

(* A node that is widened has a fact: it was counted when it got one. *)
LEMMA WideningNonEmpty ==
  ASSUME Typed, NEW e \in Edges(graph)
  PROVE  ~widens_empty(e)
<1>1. dst(e) \in Nodes(graph) /\ fs_wid \in Nat \ {0} /\ fs_wide[dst(e)] \in Nat
  BY GraphFacts, LevelsAssumption DEF Typed
<1>2. fs_wide[dst(e)] > 0 => dst(e) \in DOMAIN table
  BY <1>1 DEF Typed
<1>3. fs_wide[dst(e)] >= fs_wid => fs_wide[dst(e)] > 0
  BY <1>1
<1> QED BY <1>2, <1>3 DEF widens_empty
-----------------------------------------------------------------------------
(* The graph does not change, and so neither do its edges. *)
LEMMA SameGraph ==
  ASSUME graph' = graph
  PROVE  /\ \A e : src(e)' = src(e) /\ dst(e)' = dst(e) /\ tags(e)' = tags(e) /\ code(e)' = code(e)
         /\ \A e : Ends(e)' = Ends(e)
         /\ \A p : succs(p)' = succs(p)
         /\ StartEnds' = StartEnds
BY DEF src, dst, tags, code, succs, Ends, StartEnds

(* the edge the worklist treats *)
LEMMA AtEdgeFacts ==
  ASSUME Typed, WorkInv, NEW e \in Edges(graph), AtEdge(e)
  PROVE  /\ out = "worklist" /\ e \in Set(wlist) /\ src(e) \in DOMAIN table
         /\ Tail(wlist) \in Seq(Edges(graph)) /\ Distinct(Tail(wlist))
         /\ Set(wlist) = {e} \cup Set(Tail(wlist)) /\ e \notin Set(Tail(wlist))
         /\ table[src(e)].st \in States
<1>1. out = "worklist" /\ wlist # << >> /\ e = Head(wlist) /\ wlist \in Seq(Edges(graph)) /\ Distinct(wlist)
  BY DEF AtEdge, Typed, TypeOK, Distinct
<1>2. /\ e \in Set(wlist) /\ Tail(wlist) \in Seq(Edges(graph)) /\ Distinct(Tail(wlist))
      /\ Set(wlist) = {e} \cup Set(Tail(wlist)) /\ e \notin Set(Tail(wlist))
  BY <1>1, TailList
<1>3. src(e) \in DOMAIN table
  BY <1>1, <1>2 DEF WorkInv
<1> QED BY <1>1, <1>2, <1>3 DEF Typed, TypeOK

(* What it says of an edge that its treatment is no error. *)
LEMMA FineFacts ==
  ASSUME NEW e, Fine(e), src(e) \in DOMAIN table
  PROVE  /\ ~aborts(table[src(e)].st, code(e))
         /\ out = "marks" => ~Effect(e).bot
BY DEF Fine, error

(* add_warns only adds warnings. *)
LEMMA WarnFacts ==
  ASSUME Typed, NEW e \in Edges(graph), add_warns(e)
  PROVE  fs_warns \subseteq fs_warns' /\ fs_warns' \subseteq Nodes(graph) /\ (code(e).k = "error" => src(e) \in fs_warns')
BY GraphFacts DEF add_warns, Typed, TypeOK
=============================================================================
