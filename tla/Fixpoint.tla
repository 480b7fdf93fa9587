------------------------------ MODULE Fixpoint ------------------------------
(***************************************************************************)
(* The fixpoint engine (Domain/Class.hs) on the interval domain: run        *)
(* analyses one thread from its position, along the edges of its control    *)
(* flow graph, up to and including the first global action on every path.   *)
(*                                                                          *)
(* A graph is [start, st, edges, succs]: the position and the state of the  *)
(* thread, the edges [src, dst, tags, code] by their number, and for every  *)
(* node the list of edges that leave it, at most two (a statement, or the   *)
(* two sides of a condition).  The edges are numbered by their source.      *)
(* The position of the thread in a state is the node the state is kept for. *)
(***************************************************************************)
EXTENDS Interval, Sequences

CONSTANTS
  Graphs,  \* the graphs analysed
  Levels,  \* the widening levels
  Ints     \* the integers of the concrete executions it is compared with

VARIABLES
  graph,    \* the graph, one of Graphs
  fs_wid,   \* the widening level
  table,    \* the node table: the fact [st, act] of the nodes that have one
  wlist,    \* the worklist, a list of edges
  fs_mark,  \* the marked edges
  fs_wide,  \* for every node, the traversals counted by loop_head_update
  fs_warns, \* the nodes where an error call was met
  marks,    \* the marked edges handle_mark has still to treat
  results,  \* the results, a list of [st, pos, act]
  out,      \* "worklist", "marks", "end" or the error call that stopped it
  local     \* history: the node table when the worklist was empty

vars == <<graph, fs_wid, table, wlist, fs_mark, fs_wide, fs_warns, marks, results, out, local>>

Set(s) == {s[i] : i \in DOMAIN s}
Nodes(g) == DOMAIN g.succs
Edges(g) == DOMAIN g.edges

(* A block of the thread ends with its first global action or with the      *)
(* thread: at an edge the engine marks.                                     *)
GlobalCode(i) == i.k \in {"lock", "unlock"}
LastEdge(g, e) == "Exit" \in Set(g.edges[e].tags) \/ g.succs[g.edges[e].dst] = << >>
EndsBlock(g, e) == GlobalCode(g.edges[e].code) \/ LastEdge(g, e)

(* A node entered by an edge without a join tag is entered by this edge     *)
(* only, and not from itself.  Where the thread is, the edge is the one     *)
(* that ended the previous block, and then either all edges from there end  *)
(* the next one or none does.                                               *)
Joins(t) == t = <<"LoopHead">> \/ t = <<"IfJoin">>
From(g, p) == {e \in Edges(g) : g.edges[e].src = p}
Structured(g, e) ==
  \/ Joins(g.edges[e].tags)
  \/ /\ \A d \in Edges(g) : g.edges[d].dst = g.edges[e].dst => d = e
     /\ g.edges[e].src # g.edges[e].dst
     /\ g.edges[e].dst = g.start =>
          /\ EndsBlock(g, e)
          /\ \A d1, d2 \in From(g, g.start) : EndsBlock(g, d1) <=> EndsBlock(g, d2)

WellFormed(g) ==
  /\ g.start \in Nodes(g) /\ g.st \in States
  /\ Edges(g) \subseteq Nat
  /\ \A e \in Edges(g) :
       /\ g.edges[e].src \in Nodes(g) /\ g.edges[e].dst \in Nodes(g) /\ g.edges[e].code \in Codes
       /\ e \in Set(g.succs[g.edges[e].src])
       /\ Structured(g, e)
       /\ \A d \in Edges(g) : g.edges[d].src < g.edges[e].src => d < e
  /\ \A p \in Nodes(g) :
       /\ g.succs[p] \in Seq(Edges(g)) /\ Len(g.succs[p]) <= 2
       /\ \A i, k \in DOMAIN g.succs[p] : g.edges[g.succs[p][i]].src = p /\ (g.succs[p][i] = g.succs[p][k] => i = k)

ASSUME GraphsAssumption == \A g \in Graphs : WellFormed(g)
ASSUME LevelsAssumption == Levels \subseteq Nat \ {0}
ASSUME IntsAssumption   == Ints \subseteq Int

-----------------------------------------------------------------------------
src(e)  == graph.edges[e].src
dst(e)  == graph.edges[e].dst
tags(e) == graph.edges[e].tags
code(e) == graph.edges[e].code
succs(p) == graph.succs[p]

(* nub on a worklist that contains no edge twice, as all of them *)
snoc(s, e) == IF e \in Set(s) THEN s ELSE Append(s, e)
nub_append_all(s, t) == s \o t  \* mutant: the nub is lost
nub_append(s, t) ==
  CASE Len(t) = 0 -> s
    [] Len(t) = 1 -> snoc(s, t[1])
    [] OTHER      -> snoc(snoc(s, t[1]), t[2])

(* M.insert *)
insert(t, p, fact) == [q \in DOMAIN t \cup {p} |-> IF q = p THEN fact ELSE t[q]]

(***************************************************************************)
(* The fact weak_update, strong_update and loop_head_update store for node  *)
(* p, and whether they report a fixpoint and leave the table as it is.      *)
(***************************************************************************)
(* mutant: the stored state is replaced, not joined *)
weak_update_replace(p, st, act) ==
  IF p \notin DOMAIN table THEN [st |-> st, act |-> act]
  ELSE [st |-> st, act |-> act \cup table[p].act]
weak_update(p, st, act) ==
  IF p \notin DOMAIN table THEN [st |-> st, act |-> act]
  ELSE [st |-> joinState(st, table[p].st), act |-> act \cup table[p].act]

strong_update(p, st, act) ==
  IF p \notin DOMAIN table THEN [st |-> st, act |-> act]
  ELSE [st |-> st, act |-> act \cup table[p].act]

loop_head_update(p, st, act) ==
  IF fs_wide[p] >= fs_wid THEN [st |-> widenState(table[p].st, st), act |-> act \cup table[p].act]
  ELSE weak_update(p, st, act)

update(e, st, act) ==
  CASE tags(e) = <<"LoopHead">> -> loop_head_update(dst(e), st, act)
    [] tags(e) = <<"IfJoin">>   -> weak_update(dst(e), st, act)
    [] OTHER                    -> strong_update(dst(e), st, act)

is_fix_never(p, fact)   == FALSE             \* mutant: the states are not compared
is_fix_visited(p, fact) == p \in DOMAIN table  \* mutant: a node is updated once
is_fix(p, fact) == p \in DOMAIN table /\ table[p].st = fact.st

update_node_table(p, fact) == IF is_fix(p, fact) THEN table ELSE insert(table, p, fact)

(* inc_wide_node, in loop_head_update: the traversals of a loop head are    *)
(* compared with the widening level only, and counted up to it              *)
inc_wide(e) ==
  fs_wide' = IF tags(e) = <<"LoopHead">> /\ fs_wide[dst(e)] < fs_wid
             THEN [fs_wide EXCEPT ![dst(e)] = @ + 1] ELSE fs_wide

(* "widening between a state and empty?": a node without a fact is in the   *)
(* table with the empty list fixpt left there                               *)
widens_empty(e) ==
  tags(e) = <<"LoopHead">> /\ fs_wide[dst(e)] >= fs_wid /\ dst(e) \notin DOMAIN table

(* the effect of an edge on the fact of its source, and the actions so far *)
Effect(e) == code_transformer(table[src(e)].st, code(e))
Acts(e)   == table[src(e)].act \cup Effect(e).act
Last(e)   == LastEdge(graph, e)

(* mutant: the facts are reset after the fact of the position is stored *)
fixpt_reset(g, w) ==
  /\ graph = g /\ fs_wid = w
  /\ table = << >>
  /\ wlist = g.succs[g.start]
  /\ fs_mark = {} /\ fs_wide = [p \in Nodes(g) |-> 0] /\ fs_warns = {}
  /\ marks = {} /\ results = << >> /\ out = "worklist"
  /\ local = table

fixpt(g, w) ==
  /\ graph = g /\ fs_wid = w
  /\ table = [p \in {g.start} |-> [st |-> g.st, act |-> {}]]
  /\ wlist = g.succs[g.start]
  /\ fs_mark = {} /\ fs_wide = [p \in Nodes(g) |-> 0] /\ fs_warns = {}
  /\ marks = {} /\ results = << >> /\ out = "worklist"
  /\ local = table

Init == \E g \in Graphs, w \in Levels : fixpt(g, w)

-----------------------------------------------------------------------------
(* worklist treats the first edge of the list; handle_mark treats the       *)
(* marked edges in the order of S.toList, from the facts of the final       *)
(* table, which it goes on to change.                                       *)
AtEdge(e) == out = "worklist" /\ wlist # << >> /\ e = Head(wlist)
AtMark(e) == out = "marks" /\ e \in marks /\ \A d \in marks : e <= d
Current   == {e \in Edges(graph) : AtEdge(e) \/ AtMark(e)}

Marked(e) == isGlobal(Acts(e)) \/ Last(e)

(* The error call the current edge leads to: "worklist invalid pre states", *)
(* those of subIVal and mulIVal (which lazy evaluation may delay),          *)
(* "widening between a state and empty?".  A marked edge whose effect has   *)
(* become bottom, which the code would store as a result, is counted as an  *)
(* error here.                                                              *)
error(e) ==
  IF src(e) \notin DOMAIN table THEN "invalid pre states"
  ELSE IF aborts(table[src(e)].st, code(e)) THEN "infinite bounds"
  ELSE IF out = "marks" /\ Effect(e).bot THEN "bottom result"
  ELSE IF ~Effect(e).bot /\ (out = "marks" \/ ~Marked(e)) /\ widens_empty(e) THEN "widening empty"
  ELSE "none"
Fine(e) == error(e) = "none"

Abort ==
  \E e \in Current :
    /\ ~Fine(e)
    /\ out' = error(e)
    /\ UNCHANGED <<graph, fs_wid, table, wlist, fs_mark, fs_wide, fs_warns, marks, results, local>>

(* mutant: the warnings of the last edge only *)
add_warns_last(e) == fs_warns' = IF code(e).k = "error" THEN {src(e)} ELSE {}
add_warns(e) == fs_warns' = IF code(e).k = "error" THEN fs_warns \cup {src(e)} ELSE fs_warns

(* the edge is not enabled *)
worklist_bottom ==
  \E e \in Edges(graph) :
    /\ AtEdge(e) /\ Fine(e) /\ Effect(e).bot
    /\ add_warns(e)
    /\ wlist' = Tail(wlist)
    /\ UNCHANGED <<graph, fs_wid, table, fs_mark, fs_wide, marks, results, out, local>>

(* the edge is global or the last of the thread *)
worklist_mark ==
  \E e \in Edges(graph) :
    /\ AtEdge(e) /\ Fine(e) /\ ~Effect(e).bot /\ Marked(e)
    /\ add_warns(e)
    /\ fs_mark' = fs_mark \cup {e}
    /\ wlist' = Tail(wlist)
    /\ UNCHANGED <<graph, fs_wid, table, fs_wide, marks, results, out, local>>

(* the edge is local *)
worklist_update ==
  \E e \in Edges(graph) :
    /\ AtEdge(e) /\ Fine(e) /\ ~Effect(e).bot /\ ~Marked(e)
    /\ add_warns(e)
    /\ inc_wide(e)
    /\ LET fact == update(e, Effect(e).st, Acts(e))
       IN  /\ table' = update_node_table(dst(e), fact)
           /\ wlist' = IF is_fix(dst(e), fact) THEN Tail(wlist)
                       ELSE nub_append(Tail(wlist), succs(dst(e)))
    /\ UNCHANGED <<graph, fs_wid, fs_mark, marks, results, out, local>>

(* the worklist is empty *)
fixpt_result ==
  /\ out = "worklist" /\ wlist = << >>
  /\ out' = "marks" /\ marks' = fs_mark /\ local' = table
  /\ UNCHANGED <<graph, fs_wid, table, wlist, fs_mark, fs_wide, fs_warns, results>>

handle_mark ==
  \E e \in Edges(graph) :
    /\ AtMark(e) /\ Fine(e)
    /\ add_warns(e)
    /\ inc_wide(e)
    /\ table' = update_node_table(dst(e), update(e, Effect(e).st, Acts(e)))
    /\ LET fact == table'[dst(e)]
           exit == IF Last(e) THEN {<<"texit", NoVar>>} ELSE {}
       IN  results' = Append(results, [st |-> fact.st, pos |-> dst(e), act |-> fact.act \cup exit])
    /\ marks' = marks \ {e}
    /\ UNCHANGED <<graph, fs_wid, wlist, fs_mark, out, local>>

Return ==
  /\ out = "marks" /\ marks = {}
  /\ out' = "end"
  /\ UNCHANGED <<graph, fs_wid, table, wlist, fs_mark, fs_wide, fs_warns, marks, results, local>>

Next ==
  \/ worklist_bottom \/ worklist_mark \/ worklist_update \/ fixpt_result
  \/ handle_mark \/ Return \/ Abort

Spec == Init /\ [][Next]_vars

(* The engine is sequential: it takes steps until it stops. *)
FairSpec == Spec /\ WF_vars(Next)

-----------------------------------------------------------------------------
Ends(e) == EndsBlock(graph, e)

(* The facts are states of non-empty intervals, and the worklist, which nub *)
(* keeps free of repetitions, holds no edge twice.                          *)
TypeOK ==
  /\ DOMAIN table \subseteq Nodes(graph)
  /\ \A p \in DOMAIN table : table[p].st \in States
  /\ wlist \in Seq(Edges(graph)) /\ \A i, j \in DOMAIN wlist : wlist[i] = wlist[j] => i = j
  /\ marks \subseteq fs_mark /\ fs_mark \subseteq Edges(graph)
  /\ fs_warns \subseteq Nodes(graph)

(* The engine never asks for the fact of a node that has none, never widens *)
(* with nothing, and a marked edge still has an effect when it is treated.  *)
NoError == out \notin {"invalid pre states", "widening empty", "bottom result"}

(* "we have reached a fixpoint when the worklist is empty": the effect of   *)
(* every edge on the fact of its source is bottom, or goes to the results,  *)
(* or is included in the fact of its target.                                *)
PostFixpoint ==
  out \in {"marks", "end"} =>
    \A e \in Edges(graph) :
      src(e) \in DOMAIN local =>
        LET r == code_transformer(local[src(e)].st, code(e))
        IN  \/ r.bot
            \/ Ends(e) /\ e \in fs_mark
            \/ ~Ends(e) /\ dst(e) \in DOMAIN local /\ leqState(r.st, local[dst(e)].st)

(* The analysis is sound: it starts with the state of the thread, and every *)
(* concrete step from a state a fact contains leads to a state in the fact  *)
(* of the target or, when the block of the thread ends there, in one of the *)
(* results.                                                                 *)
Covered(e, t) ==
  IF Ends(e) THEN \E i \in DOMAIN results : results[i].pos = dst(e) /\ Has(results[i].st, t)
  ELSE dst(e) \in DOMAIN local /\ Has(local[dst(e)].st, t)

Sound ==
  out = "end" =>
    /\ graph.start \in DOMAIN local /\ leqState(graph.st, local[graph.start].st)
    /\ \A e \in Edges(graph) :
         src(e) \in DOMAIN local =>
           \A s \in [Vars -> Ints] :
             Has(local[src(e)].st, s) => \A t \in Steps(s, code(e)) : Covered(e, t)

(* Every error call the thread can reach before its first global action is  *)
(* reported.                                                                *)
Warned ==
  out = "end" =>
    \A e \in Edges(graph) : code(e).k = "error" /\ src(e) \in DOMAIN local => src(e) \in fs_warns

(* While the worklist runs, the fact of a node never loses a state, though  *)
(* strong_update replaces it.                                               *)
FactsGrow ==
  [][out = "worklist" => \A p \in DOMAIN table : p \in DOMAIN table' /\ leqState(table[p].st, table'[p].st)]_vars

(* The analysis stops, loops included. *)
Termination == <>(out \notin {"worklist", "marks"})

(* "join the previous actions with the actions of the current edge": the    *)
(* actions of a node contain those of every path that leads to it.          *)
ActionsOfAllPaths ==
  out \in {"marks", "end"} =>
    \A e \in Edges(graph) :
      src(e) \in DOMAIN local =>
        LET r == code_transformer(local[src(e)].st, code(e))
        IN  ~r.bot /\ ~Ends(e) => local[src(e)].act \cup r.act \subseteq local[dst(e)].act
=============================================================================
