------------------------------- MODULE Traces -------------------------------
(***************************************************************************)
(* The reference the exploration is compared with: the Mazurkiewicz traces  *)
(* of a program, computed by running its threads in every order, as the     *)
(* interpreter does (dfs_tree, Model/Interpreter.hs), and identifying runs  *)
(* that differ in the order of independent steps only.                      *)
(***************************************************************************)
EXTENDS EventTable, Collapse

(* A trace is a set of steps.  A step is the k-th of its thread, with its   *)
(* name and actions, and knows the dependent steps that came before it.     *)
Step(T, name, acts) ==
  [occ  |-> <<tidOf(name), 1 + Cardinality({s \in T : tidOf(s.name) = tidOf(name)})>>,
   name |-> name, acts |-> acts,
   past |-> {s.occ : s \in {t \in T : is_dependent(name, acts, t.name, t.acts)}}]

(* the trace of a sequence of <<name, acts>> *)
TraceOf(seq) == FoldLeft(LAMBDA T, x : T \cup {Step(T, x[1], x[2])}, {}, seq)

(* a bound on the number of steps of a run *)
MaxRun == 20

(* dfs_tree, breadth first: one step of every enabled thread *)
dfs_step(code, n) ==
  IF enabled(code, n.st) = {} THEN {n}
  ELSE {LET f == CHOOSE x \in run(code, n.st, t).res : TRUE
        IN  [st |-> f.st, trace |-> n.trace \cup {Step(n.trace, <<t, f.pos, toThCFGSym(f.st, t)>>, f.acts)}]
        : t \in enabled(code, n.st)}

Leaves(prog) ==
  LET level[k \in 0..MaxRun] ==
        IF k = 0 THEN {[st |-> convert(prog.heap, prog.main), trace |-> {}]}
        ELSE UNION {dfs_step(prog.code, n) : n \in level[k - 1]}
  IN  level[MaxRun]

MaximalTraces(prog) == {n.trace : n \in Leaves(prog)}
=============================================================================
