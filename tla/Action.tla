------------------------------- MODULE Action -------------------------------
(***************************************************************************)
(* The actions of an event (Domain/Action.hs) and the dependency relation   *)
(* the unfolder derives from them on the fly (is_dependent, UNF/API.hs).    *)
(*                                                                          *)
(* A memory address is a symbol number: a natural.  A thread identifier     *)
(* used as an address (create, join, exit) is the same kind of number, as   *)
(* in the code, which writes SymId tid for both.  The offset and the level  *)
(* of an address are dropped: the programs modelled share scalars only.     *)
(* MemAddrTop is never built by the concrete domain.                        *)
(***************************************************************************)
EXTENDS Integers

botID == -1

ActKinds == {"rds", "wrs", "locks", "unlocks", "tcreate", "tjoin", "texit"}
Acts == [ActKinds -> SUBSET Nat]

(* Lattice (Act v): bot and join *)
botAct == [k \in ActKinds |-> {}]
joinAct(a, b) == [k \in ActKinds |-> a[k] \cup b[k]]

(* the builders read_act, write_act, lock_act_addr, ..., exit_thread_act *)
act(kind, addr) == [botAct EXCEPT ![kind] = {addr}]

act_addrs(a) == UNION {a[k] : k \in ActKinds}

isUnlock(a) == a["unlocks"] # {}
isLock(a)   == a["locks"] # {}
isJoin(a)   == a["tjoin"] # {}
isUnlockOf(a1, a2) == a1["locks"] \cap a2["unlocks"] # {}
isCreateOf_never(tid, a) == FALSE  \* mutant
isCreateOf(tid, a) == tid \in a["tcreate"]
isGlobal(a) == \E k \in {"locks", "unlocks", "tcreate", "tjoin"} : a[k] # {}

(* mutant: a write and a read do not interfere *)
interferes_writes(a1, a2) == \E k \in ActKinds \ {"rds"} : a1[k] \cap a2[k] # {}

(* Two sets of actions interfere when they touch a common address, two     *)
(* reads included.                                                          *)
interferes(a1, a2) == act_addrs(a1) \cap act_addrs(a2) # {}

(* An event name is <<thread, CFG position, CFG symbol>>. *)
tidOf(name) == name[1]

is_dependent(n1, a1, n2, a2) ==
  \/ tidOf(n1) = botID \/ tidOf(n2) = botID
  \/ tidOf(n1) = tidOf(n2)
  \/ interferes(a1, a2)
  \/ isCreateOf(tidOf(n1), a2)
  \/ isCreateOf(tidOf(n2), a1)
=============================================================================
