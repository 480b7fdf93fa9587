------------------------------- MODULE Search -------------------------------
(***************************************************************************)
(* What an exhaustive search promises (abstract specification of the        *)
(* interpreter's dfs and dfs_tree): it only meets states that are reachable *)
(* from the initial one, step by step, and it reports the end of the        *)
(* exploration only when there is no state left to meet.                    *)
(***************************************************************************)
VARIABLES
  graph,  \* [init, succ]: the initial state, the successors of every state
  seen,   \* the states met
  done    \* the end of the exploration has been reported

vars == <<graph, seen, done>>

Successors(s) == {graph.succ[s][i] : i \in DOMAIN graph.succ[s]}
Closed(S) == \A s \in S : Successors(s) \subseteq S

Init == seen = {graph.init} /\ done = FALSE

(* meet successors of a state met before *)
Meet ==
  /\ ~done
  /\ \E s \in seen : \E T \in SUBSET Successors(s) : seen' = seen \cup T
  /\ UNCHANGED <<graph, done>>

Finish == ~done /\ Closed(seen) /\ done' = TRUE /\ UNCHANGED <<graph, seen>>

Next == Meet \/ Finish

Spec == Init /\ [][Next]_vars
=============================================================================
