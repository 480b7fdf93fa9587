---------------------------- MODULE Interpreter ----------------------------
(***************************************************************************)
(* The interpreter (Model/Interpreter.hs): one run of the program, or a     *)
(* search of its states, as a tree or with a table of visited states.       *)
(*                                                                          *)
(* A system gives the initial state, the states enabled returns for a state *)
(* (one per enabled thread, in the order of the threads) and the hash of a  *)
(* state.  The table keeps one state per hash value.  The parameters tid    *)
(* and stack of dfs are passed on and never read, as are the thread         *)
(* identifiers of the pending list: they are left out.                      *)
(***************************************************************************)
EXTENDS Naturals, Sequences

CONSTANT Systems

ASSUME SystemsAssumption ==
  \A y \in Systems :
    /\ y.init \in DOMAIN y.succ
    /\ \A s \in DOMAIN y.succ : y.succ[s] \in Seq(DOMAIN y.succ)
    /\ DOMAIN y.hash = DOMAIN y.succ

VARIABLES
  mode,     \* "IPSingle", "IPBFS", "IPDFST" or "IPDFS"
  syst,     \* the system, one of Systems
  pending,  \* the list of pending states, its head first
  visited,  \* the hash table: a set of pairs <<key, state>>, one per key
  n, m,     \* one more than the number of traces and of cutoffs
  out,      \* "running", "end" or the error call that stopped the program
  seen,     \* history: the states that have been pending
  expanded  \* history: the states whose successors were pushed, in order

vars == <<mode, syst, pending, visited, n, m, out, seen, expanded>>

Modes == {"IPSingle", "IPBFS", "IPDFST", "IPDFS"}

enabled(s) == syst.succ[s]
hash(s) == syst.hash[s]

(* the lookup under the hash; mutant: without the comparison *)
isCutoff_hash(s) == \E s2 \in DOMAIN syst.succ : <<hash(s), s2>> \in visited
isCutoff(s) == <<hash(s), s>> \in visited

(* H.insert replaces the state stored under the key; mutant: it adds one *)
H_insert_twice(s) == visited \cup {<<hash(s), s>>}
H_insert(s) == {e \in visited : e[1] # hash(s)} \cup {<<hash(s), s>>}

interpreter(y, md) ==
  /\ mode = md /\ syst = y
  /\ pending = <<y.init>> /\ visited = {} /\ n = 1 /\ m = 1
  /\ out = "running" /\ seen = {y.init} /\ expanded = << >>

Init == \E y \in Systems, md \in Modes : interpreter(y, md)

At(md) == out = "running" /\ mode = md
Set(s) == {s[i] : i \in DOMAIN s}

(* ts ++ ss *)
Push(ts) ==
  /\ pending' = ts \o Tail(pending)
  /\ seen' = seen \cup Set(ts)
  /\ expanded' = Append(expanded, Head(pending))

Pop == pending' = Tail(pending) /\ UNCHANGED <<seen, expanded>>

-----------------------------------------------------------------------------
(* execute: whatever is typed at the prompt, the first thread runs *)
Execute ==
  /\ At("IPSingle") /\ pending # << >>
  /\ LET ts == enabled(Head(pending))
     IN  \/ /\ ts = << >>
            /\ Pop
         \/ /\ ts # << >>
            /\ Push(<<Head(ts)>>)
  /\ UNCHANGED <<mode, syst, visited, n, m, out>>

bfs ==
  /\ At("IPBFS") /\ pending # << >>
  /\ LET ts == enabled(Head(pending))
     IN  \/ /\ ts = << >>
            /\ Pop
            /\ UNCHANGED out
         \/ /\ ts # << >>
            /\ out' = "TODO!"
            /\ UNCHANGED <<pending, seen, expanded>>
  /\ UNCHANGED <<mode, syst, visited, n, m>>

(* mutant: an inner node counts as the end of a trace *)
dfs_tree_inner ==
  /\ At("IPDFST") /\ pending # << >>
  /\ Push(enabled(Head(pending))) /\ n' = n + 1
  /\ UNCHANGED <<mode, syst, visited, m, out>>

(* A state without successors ends a trace. *)
dfs_tree ==
  /\ At("IPDFST") /\ pending # << >>
  /\ LET ts == enabled(Head(pending))
     IN  \/ /\ ts = << >>
            /\ Pop /\ n' = n + 1
         \/ /\ ts # << >>
            /\ Push(ts) /\ UNCHANGED n
  /\ UNCHANGED <<mode, syst, visited, m, out>>

(* mutants: the state is not stored; the other pending states are dropped;  *)
(* the state stays in the list                                              *)
dfs_unstored ==
  /\ At("IPDFS") /\ pending # << >> /\ ~isCutoff(Head(pending))
  /\ LET ts == enabled(Head(pending))
     IN  \/ /\ ts = << >>
            /\ Pop /\ n' = n + 1
         \/ /\ ts # << >>
            /\ Push(ts) /\ UNCHANGED n
  /\ UNCHANGED <<mode, syst, visited, m, out>>

dfs_cutoff_first ==
  /\ At("IPDFS") /\ pending # << >>
  /\ isCutoff(Head(pending)) /\ pending' = << >> /\ m' = m + 1
  /\ UNCHANGED <<mode, syst, visited, n, out, seen, expanded>>

dfs_cutoff_stays ==
  /\ At("IPDFS") /\ pending # << >>
  /\ isCutoff(Head(pending))
  /\ UNCHANGED vars

dfs_cutoff ==
  /\ At("IPDFS") /\ pending # << >>
  /\ isCutoff(Head(pending))
  /\ Pop /\ m' = m + 1
  /\ UNCHANGED <<mode, syst, visited, n, out>>

(* A state without successors is not stored, so it ends a trace every time  *)
(* it is met.                                                               *)
dfs ==
  /\ At("IPDFS") /\ pending # << >>
  /\ ~isCutoff(Head(pending))
  /\ LET ts == enabled(Head(pending))
     IN  \/ /\ ts = << >>
            /\ Pop /\ n' = n + 1
            /\ UNCHANGED visited
         \/ /\ ts # << >>
            /\ Push(ts) /\ visited' = H_insert(Head(pending))
            /\ UNCHANGED n
  /\ UNCHANGED <<mode, syst, m, out>>

(* "end of exploration", "end of trace" *)
End ==
  /\ out = "running" /\ pending = << >>
  /\ out' = "end"
  /\ UNCHANGED <<mode, syst, pending, visited, n, m, seen, expanded>>

Next == Execute \/ bfs \/ dfs_tree \/ dfs_cutoff \/ dfs \/ End

Spec == Init /\ [][Next]_vars

(* The program is sequential: it takes steps until it stops. *)
FairSpec == Spec /\ WF_vars(Next)

-----------------------------------------------------------------------------
(* The pending states and the states in the table belong to the system, and *)
(* the table holds one state per key, under its own hash.                   *)
TypeOK ==
  /\ mode \in Modes /\ out \in {"running", "end", "TODO!"}
  /\ pending \in Seq(DOMAIN syst.succ) /\ expanded \in Seq(DOMAIN syst.succ)
  /\ seen \subseteq DOMAIN syst.succ
  /\ \A e \in visited : \E s \in DOMAIN syst.succ : e = <<hash(s), s>>
  /\ \A e1, e2 \in visited : e1[1] = e2[1] => e1 = e2
  /\ n \in Nat /\ m \in Nat

(* dfs and dfs_tree implement Search: what they meet is reachable, and when *)
(* they report the end of the exploration every reachable state was met,    *)
(* whatever states share a hash value.                                      *)
Abstract == INSTANCE Search WITH graph <- syst, done <- mode \in {"IPDFS", "IPDFST"} /\ out = "end"
ImplementsSearch == Abstract!Spec

(* A collision costs a repetition, never a loss: dfs expands a state again  *)
(* only after the state was replaced in the table by another one with the   *)
(* same hash.                                                               *)
ExpandedAgainAfterCollision ==
  mode = "IPDFS" =>
    \A i, j \in 1..Len(expanded) :
      i < j /\ expanded[i] = expanded[j] =>
        \E k \in (i + 1)..(j - 1) :
          expanded[k] # expanded[i] /\ hash(expanded[k]) = hash(expanded[i])
=============================================================================
