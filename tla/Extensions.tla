----------------------------- MODULE Extensions -----------------------------
(***************************************************************************)
(* How the unfolder extends its prefix (Exploration/UNF/Unfolder.hs): the   *)
(* histories a new event can have, its local history, its immediate         *)
(* conflicts, and the state of its local configuration.  All are functions  *)
(* of the event table; lists keep the order the code builds them in.        *)
(***************************************************************************)
EXTENDS EventTable, Collapse

EventsID  == Seq(Nat)
Histories == Seq(EventsID)

(* the largest history of (name, acts) below the events maxevs *)
history(E, name, acts, maxevs) ==
  LET partition(pre_his, es) ==
        partition_dependent(E, name, acts, [dep |-> pre_his, indep |-> << >>], es)
      pruneConfiguration[p \in [dep : EventsID, indep : EventsID]] ==
        LET prdes   == Nub(ConcatMap(LAMBDA e : E[e].pred, p.indep))
            mpredes == SelectSeq(prdes, LAMBDA e :
                         successors(E, e) \cap (ToSet(p.dep) \cup ToSet(prdes)) = {})
        IN  IF p.indep = << >> THEN p.dep ELSE pruneConfiguration[partition(p.dep, mpredes)]
  IN  pruneConfiguration[partition(<< >>, maxevs)]

(* replace e of the history h by its predecessors and prune *)
next_history(E, name, acts, h, e) ==
  LET h2 == Remove(h, e)
  IN  history(E, name, acts,
              h2 \o SelectSeq(E[e].pred, LAMBDA p : successors(E, p) \cap ToSet(h2) = {}))

(* mutant: the worklist is left after one step *)
histories_step(E, name, acts, e, h0) ==
  Nub(Map(LAMBDA x : next_history(E, name, acts, h0, x),
          SelectSeq(Remove(h0, e), LAMBDA x :
            tidOf(E[x].name) # tidOf(name) /\ ~isCreateOf(tidOf(name), E[x].acts))))

(* the other histories that hold e, by a worklist from the largest one, h0 *)
histories(E, name, acts, e, h0) ==
  LET candidates(h) ==
        SelectSeq(Remove(h, e), LAMBDA x :
          tidOf(E[x].name) # tidOf(name) /\ ~isCreateOf(tidOf(name), E[x].acts))
      loop[w \in Histories \X Histories] ==
        IF w[1] = << >> THEN Nub(w[2])
        ELSE LET h   == Head(w[1])
                 hs  == Tail(w[1])
                 chs == Nub(Map(LAMBDA x : next_history(E, name, acts, h, x), candidates(h)))
             IN  loop[<<Minus(chs, ToSet(hs)) \o hs, chs \o w[2]>>]
  IN  loop[<< <<h0>>, << >> >>]

(* mutant: a lock may come after any event of the other critical sections *)
histories_lock_any(E, acts, s_e, hs) ==
  LET u  == {e \in ToSet(hs) : isUnlockOf(acts, E[e].acts)} \ {s_e}
      en == ToSet(hs) \ u
  IN  [error |-> FALSE,
       his   |-> IF Len(hs) # 2 \/ Cardinality(u) # 1 THEN << >>
                 ELSE Map(LAMBDA e : <<e>> \o SetToSeq(en),
                          Minus(ConcatMap(LAMBDA e : predecessors(E, e), SetToSeq(u)),
                                en \cup UNION {ToSet(predecessors(E, e)) : e \in en}))]

(***************************************************************************)
(* The other histories of a lock event.  A history is the enabling event    *)
(* and at most one unlock; error says that hs is not of this shape.         *)
(***************************************************************************)
histories_lock(E, acts, s_e, hs) ==
  LET unlocks == {e \in ToSet(hs) : isUnlockOf(acts, E[e].acts)}
      e_unlk  == CHOOSE e \in unlocks : TRUE
      e_en    == CHOOSE e \in ToSet(hs) : e # e_unlk
      e_unlks == SelectSeq(Minus(predecessors(E, e_unlk), {e_en} \cup ToSet(predecessors(E, e_en))),
                           LAMBDA e : isUnlockOf(acts, E[e].acts))
  IN  CASE Len(hs) = 1 -> [error |-> FALSE, his |-> << >>]
        [] Len(hs) # 2 \/ Cardinality(unlocks) # 1 -> [error |-> TRUE, his |-> << >>]
        [] OTHER -> [error |-> FALSE,
                     his   |-> IF e_unlk = s_e THEN << >>
                               ELSE IF e_unlks = << >> THEN << <<e_en>> >>
                               ELSE Map(LAMBDA u : <<u, e_en>>, e_unlks)]

(* mutant: locks are treated as unlocks are *)
otherHistories_nolock(E, name, acts, e, h0) ==
  [error |-> FALSE, his |-> IF isGlobal(acts) THEN << >> ELSE histories(E, name, acts, e, h0)]

(* the histories of the conflicting extensions ext adds before h0 *)
otherHistories(E, name, acts, e, h0) ==
  IF isJoin(acts) \/ isUnlock(acts) THEN [error |-> FALSE, his |-> << >>]
  ELSE IF isLock(acts) THEN histories_lock(E, acts, e, h0)
  ELSE [error |-> FALSE, his |-> histories(E, name, acts, e, h0)]

localHistory(E, h) == Nub(ConcatMap(LAMBDA e : predecessors(E, e), h) \o h)

(* mutant: the search looks no further than the events after bottom *)
compute_conflicts_first(E, name, acts, lh) ==
  SelectSeq(E[botEID].succ, LAMBDA e : e \notin lh /\ dependent(E, name, acts, e))

(* mutant: the search stops nowhere, so that what is above a conflict is one *)
compute_conflicts_above(E, name, acts, lh) ==
  SelectSeq([i \in 1..(Max(DOMAIN E) + 1) |-> i - 1],
            LAMBDA e : e \in DOMAIN E \ lh /\ dependent(E, name, acts, e))

(* A search of the prefix from bottom.  It stops at an event in immediate   *)
(* conflict with the local history lh, and at a dependent event outside lh, *)
(* which is a conflict unless one was already found below it.               *)
compute_conflicts(E, name, acts, lh) ==
  LET lhCnfls == UNION {ToSet(E[e].icnf) : e \in lh}
      compute_conflict[s \in [seen : SUBSET Nat, frontier : EventsID, cfls : EventsID]] ==
        LET e    == Head(s.frontier)
            rest == [s EXCEPT !.seen = @ \cup {e}, !.frontier = Tail(@)]
        IN  IF s.frontier = << >> THEN s.cfls
            ELSE compute_conflict[
              IF e \in s.seen \cup lhCnfls THEN rest
              ELSE IF e \notin lh /\ dependent(E, name, acts, e)
              THEN IF (lhCnfls \cup ToSet(s.cfls)) \cap ToSet(predecessors(E, e)) # {} THEN rest
                   ELSE [rest EXCEPT !.cfls = <<e>> \o @]
              ELSE [rest EXCEPT !.frontier = Nub(@ \o E[e].succ)]]
  IN  compute_conflict[[seen |-> {}, frontier |-> E[botEID].succ, cfls |-> << >>]]

(***************************************************************************)
(* The state of the local configuration of an event: its local history is   *)
(* replayed in a topological order, then the event itself.  The result is   *)
(* the set of states, empty when drun fails on the way.                     *)
(***************************************************************************)
st_order(E, hist) ==
  LET order[w \in EventsID \X SUBSET Nat] ==
        LET e      == Head(w[1])
            seen   == w[2] \cup {e}
            chosen == SelectSeq(E[e].succ, LAMBDA s : s \in hist /\ ToSet(E[s].pred) \subseteq seen)
        IN  IF w[1] = << >> THEN << >> ELSE <<e>> \o order[<<Tail(w[1]) \o chosen, seen>>]
  IN  order[<< <<botEID>>, {} >>]

st_local_conf(E, prog, name, hist) ==
  LET step(sts, nm) == {f.st : f \in UNION {drun(prog.code, st, nm) : st \in sts}}
      sts == FoldLeft(LAMBDA r, e : IF e = botEID THEN r ELSE step(r, E[e].name),
                      {convert(prog.heap, prog.main)}, st_order(E, hist))
  IN  step(sts, name)

hasDup_never(E, dup, h) == {}  \* mutant

(* the event among dup that already has the history h *)
hasDup(E, dup, h) == {e \in dup : ToSet(E[e].pred) = ToSet(h)}

(* mutant: only the control locations are compared *)
cutoffCheck_control(table, st, si) == \E p \in table : p[1].th = st.th /\ p[2] < si

(* McMillan's cutoff: the state was reached by a smaller configuration.     *)
(* Control locations, the key of the table, are part of the state; on       *)
(* concrete states <=. is equality.                                         *)
cutoffCheck(table, st, si) == \E p \in table : p[1] = st /\ p[2] < si
=============================================================================
