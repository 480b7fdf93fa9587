----------------------------- MODULE EventTable -----------------------------
(***************************************************************************)
(* The unfolding prefix and the operations on it (Exploration/UNF/API.hs).  *)
(* The hash table Events is a function from event identifiers to events     *)
(*   [name, acts, pred, succ, icnf, disa, alte].                            *)
(* get_event and its field getters are function application: looking up an  *)
(* identifier that is not in the table is an error, which the callers that  *)
(* can meet it test with Missing.                                           *)
(***************************************************************************)
EXTENDS Action, Lists

botEID  == 0
botName == <<botID, botID, botID>>

Event(name, acts, pred, icnf) ==
  [name |-> name, acts |-> acts, pred |-> pred, succ |-> << >>, icnf |-> icnf,
   disa |-> << >>, alte |-> << >>]
(* bottom depends on every event by its name; the declarations' writes the  *)
(* code gives it are left out                                               *)
botEvent == Event(botName, botAct, << >>, << >>)

(* the identifiers get_event fails on *)
Missing(E, S) == S \ DOMAIN E

filterEvents(es, E) == Meet(es, DOMAIN E)

set_disa(E, e, d) == [E EXCEPT ![e].disa = d]
set_acts(E, e, acts) == [E EXCEPT ![e].acts = acts]
add_alte(E, e, v) == [E EXCEPT ![e].alte = Nub(<<v>> \o @)]
reset_alte(E, e) == [E EXCEPT ![e].alte = << >>]

(* mutant: step 5 is forgotten *)
insert_one_way(E, e, ev) ==
  (e :> ev) @@ [x \in DOMAIN E |-> [E[x] EXCEPT !.succ = IF x \in ToSet(ev.pred) THEN <<e>> \o @ ELSE @]]

(* set_event of the new event, then add_succ and add_icnf: step 3 to 5 of   *)
(* add_event *)
insert(E, e, ev) ==
  (e :> ev) @@
  [x \in DOMAIN E |->
     [E[x] EXCEPT !.succ = IF x \in ToSet(ev.pred) THEN <<e>> \o @ ELSE @,
                  !.icnf = IF x \in ToSet(ev.icnf) THEN <<e>> \o @ ELSE @]]

dependent(E, name, acts, e) == is_dependent(name, acts, E[e].name, E[e].acts)
is_independent(E, e1, e2) == ~dependent(E, E[e1].name, E[e1].acts, e2)

(* both lists are built by consing: the order is reversed *)
partition_dependent(E, name, acts, init, es) ==
  FoldLeft(LAMBDA r, e : IF dependent(E, name, acts, e)
                         THEN [r EXCEPT !.dep = <<e>> \o @]
                         ELSE [r EXCEPT !.indep = <<e>> \o @],
           init, es)

predecessors(E, e) ==
  LET ps[x \in DOMAIN E] == E[x].pred \o ConcatMap(LAMBDA p : ps[p], E[x].pred)
  IN  Nub(ps[e])

(* only ever used as a set *)
successors(E, e) ==
  LET ss[x \in DOMAIN E] == ToSet(E[x].succ) \cup UNION {ss[s] : s \in ToSet(E[x].succ)}
  IN  ss[e]

(* mutant: the successors stay *)
del_event_alone(E, e) ==
  [x \in DOMAIN E \ {e} |-> [E[x] EXCEPT !.succ = Minus(@, {e}), !.icnf = Minus(@, {e})]]

(***************************************************************************)
(* del_event removes e and, recursively, its successors.  Every removed     *)
(* event leaves the succ and the icnf of the events that stay, and an event *)
(* that loses an immediate conflict loses the alternatives holding it.      *)
(***************************************************************************)
del_event(E, e) ==
  IF e \notin DOMAIN E THEN E
  ELSE LET D == {e} \cup successors(E, e)
       IN  [x \in DOMAIN E \ D |->
              [E[x] EXCEPT !.succ = Minus(@, D),
                           !.icnf = Minus(@, D),
                           !.alte = SelectSeq(@, LAMBDA v :
                                      ToSet(v) \cap D \cap ToSet(E[x].icnf) = {})]]
=============================================================================
