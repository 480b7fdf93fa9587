--------------------------- MODULE EventStructure ---------------------------
(***************************************************************************)
(* What the unfolder promises about the prefix it keeps and the             *)
(* configuration it is in, whatever program it explores: a labelled prime   *)
(* event structure that grows by events whose history is a configuration,   *)
(* shrinks by deleting an event with everything above it, and a current     *)
(* configuration that is entered and left one maximal event at a time.      *)
(*                                                                          *)
(* Names, actions, disabled sets and alternatives are left out; past is the *)
(* set predecessors computes, kept as a variable.                           *)
(***************************************************************************)
EXTENDS Naturals

VARIABLES evs,   \* the identifiers in the prefix
          pred,  \* immediate predecessors
          succ,  \* immediate successors
          icnf,  \* immediate conflicts
          past,  \* all predecessors
          conf,  \* the current configuration (the call stack)
          cntr   \* event counter

vars == <<evs, pred, succ, icnf, past, conf, cntr>>

bot == 0

Init ==
  /\ evs = {bot} /\ conf = {bot} /\ cntr = 1
  /\ pred = [e \in {bot} |-> {}] /\ succ = [e \in {bot} |-> {}]
  /\ icnf = [e \in {bot} |-> {}] /\ past = [e \in {bot} |-> {}]

ConflictFree(S) == \A a, b \in S : b \notin icnf[a]
Antichain(h) == \A p, q \in h : p \notin past[q]
localHistory(h) == h \cup UNION {past[p] : p \in h}

(* What ext and compute_conflicts establish of the history h and of the     *)
(* conflicts cnfls of a new event.                                          *)
CanAdd(h, cnfls) ==
  /\ h # {} /\ Antichain(h) /\ ConflictFree(localHistory(h))
  /\ cnfls \cap localHistory(h) = {}
  /\ \A a \in localHistory(h) : \A c \in cnfls : (past[c] \cup {c}) \cap icnf[a] = {}

(* the field f of the new event is own, and the event is added to the field *)
(* of the events in S (add_succ, add_icnf)                                  *)
AddTo_own(f, own, S) == [e \in evs \cup {cntr} |-> IF e = cntr THEN own ELSE f[e]]  \* mutant

AddTo(f, own, S) ==
  [e \in evs \cup {cntr} |-> IF e = cntr THEN own ELSE IF e \in S THEN f[e] \cup {cntr} ELSE f[e]]

(* add_ev: a new event with history h and immediate conflicts cnfls *)
Add(h, cnfls) ==
  /\ cntr' = cntr + 1
  /\ CanAdd(h, cnfls)
  /\ evs'  = evs \cup {cntr}
  /\ pred' = AddTo(pred, h, {}) /\ succ' = AddTo(succ, {}, h)
  /\ icnf' = AddTo(icnf, cnfls, cnfls) /\ past' = AddTo(past, localHistory(h), {})
  /\ UNCHANGED conf

(* del_event: e goes, and every event above it *)
Above_alone(e) == {e}  \* mutant

Above(e) == {x \in evs : x = e \/ e \in past[x]}

del_event_reuse(e) ==  \* mutant: the identifier is given back
  /\ cntr' = e
  /\ evs' = evs \ Above(e)
  /\ pred' = [x \in evs' |-> pred[x]] /\ succ' = [x \in evs' |-> succ[x] \ Above(e)]
  /\ past' = [x \in evs' |-> past[x]] /\ icnf' = [x \in evs' |-> icnf[x] \ Above(e)]
  /\ UNCHANGED conf

del_event(e) ==
  /\ evs'  = evs \ Above(e)
  /\ pred' = [x \in evs' |-> pred[x]]
  /\ succ' = [x \in evs' |-> succ[x] \ Above(e)]
  /\ icnf' = [x \in evs' |-> icnf[x] \ Above(e)]
  /\ past' = [x \in evs' |-> past[x]]
  /\ UNCHANGED <<conf, cntr>>

Delete(e) == e \notin conf /\ del_event(e)

prefix == <<evs, pred, succ, icnf, past, cntr>>

(* push: the configuration takes one of its extensions *)
Extends_causes(e, C) == e \notin C /\ past[e] \subseteq C  \* mutant

Extends(e, C) == e \notin C /\ past[e] \subseteq C /\ icnf[e] \cap C = {}

push(e) == conf' = conf \cup {e} /\ UNCHANGED prefix
Push(e) == Extends(e, conf) /\ push(e)

(* pop: it gives up one of its maximal events *)
pop(e) == conf' = conf \ {e} /\ UNCHANGED prefix

Pop(e) ==
  /\ e \in conf \ {bot}
  /\ \A x \in conf : e \notin past[x]
  /\ pop(e)

Next ==
  \/ \E h, cnfls \in SUBSET evs : Add(h, cnfls)
  \/ \E e \in evs : Delete(e) \/ Push(e) \/ Pop(e)

Spec == Init /\ [][Next]_vars
-----------------------------------------------------------------------------
TypeOK ==
  /\ evs \in SUBSET Nat /\ conf \in SUBSET evs /\ cntr \in Nat
  /\ pred \in [evs -> SUBSET evs] /\ succ \in [evs -> SUBSET evs]
  /\ icnf \in [evs -> SUBSET evs] /\ past \in [evs -> SUBSET evs]

(* Bottom is in the prefix and in every configuration, below every other    *)
(* event, and an identifier is larger than those of its predecessors and    *)
(* smaller than the counter: get_event never fails on bottom, and the       *)
(* recursion of predecessors and successors (API.hs) ends.                  *)
Rooted ==
  /\ bot \in conf /\ past[bot] = {} /\ icnf[bot] = {}
  /\ \A e \in evs : e < cntr /\ (e # bot => bot \in past[e])
  /\ \A e \in evs : \A p \in past[e] : p < e

(* There is one order.  pred and succ are inverse: del_event, which follows *)
(* succ, and predecessors, which follows pred, see the same.  Causality is  *)
(* the closure of pred, and histories hold maximal events only.             *)
PredSuccInverse == \A e, p \in evs : p \in pred[e] <=> e \in succ[p]

Causality ==
  \A e \in evs :
    /\ pred[e] \subseteq past[e]
    /\ \A p \in past[e] : past[p] \subseteq past[e]
    /\ \A p \in past[e] : p \in pred[e] \/ \E q \in pred[e] : p \in past[q]
    /\ Antichain(pred[e])

CausalOrder == PredSuccInverse /\ Causality

(* Facts the proofs carry along: immediate conflict is symmetric, no local  *)
(* configuration holds two events in conflict, and the pasts of two events  *)
(* in immediate conflict are compatible (CanAdd).  An event may still be    *)
(* listed beside one of its own causes; which conflicts are immediate is    *)
(* ImmediateConflicts of UnfolderProperties.                                *)
LocalConfigurations ==
  /\ \A a, b \in evs : a \in icnf[b] => b \in icnf[a]
  /\ \A e \in evs : ConflictFree(past[e] \cup {e})

ConflictsNotInherited ==
  \A a \in evs : \A b \in icnf[a] : ConflictFree(past[a] \cup past[b])

(* The call stack is a configuration (is_configuration, API.hs): causally   *)
(* closed and conflict-free, and all of it still in the prefix.             *)
StackIsConfiguration ==
  /\ \A e \in conf : past[e] \subseteq conf
  /\ ConflictFree(conf)

(* Identifiers are never reused, and an event that stays keeps its past:    *)
(* nothing a caller of the unfolder remembers by identifier changes its     *)
(* meaning, deletions included.                                             *)
PastIsFixed ==
  [][/\ cntr' >= cntr
     /\ \A e \in evs' : e \in evs \/ e >= cntr
     /\ \A e \in evs \cap evs' : past'[e] = past[e] /\ pred'[e] = pred[e]]_vars
=============================================================================
