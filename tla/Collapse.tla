------------------------------ MODULE Collapse ------------------------------
(***************************************************************************)
(* The execution engine under the unfolder: the concrete domain             *)
(* (Domain/Concrete) run by the fixpoint engine of Domain/Class.hs.  From a *)
(* state, run executes one thread along the local edges of its control flow *)
(* graph up to and including the first global action (lock, unlock, create  *)
(* or join) or the end of the thread, and collects the actions on the way.  *)
(*                                                                          *)
(* A program maps a CFG symbol to its code.  Code is a list of edges; node  *)
(* p is left by edge p, and the node after the last edge has no successor.  *)
(* A conditional leaves a node by two edges of which the concrete semantics *)
(* takes one; it is one instruction here.  The instructions are             *)
(*   <<"write", x, v>>    x := v            <<"lock", m>>, <<"unlock", m>>  *)
(*   <<"copy", x, y>>     x := y            <<"create", h, f>>, <<"join", h>> *)
(*   <<"ifeq", x, v, p>>  if x = v goto p   <<"exit">>   pthread_exit       *)
(*   <<"goto", p>>                          <<"error">>  __VERIFIER_error   *)
(* where x, y, m, h are symbols and h holds a thread identifier.            *)
(***************************************************************************)
EXTENDS Action, Lists

zero == 0
one  == 1

(* A state is [heap, th, numth]; th maps a thread to [pos, cfg].           *)
toThCFGSym(st, tid) == st.th[tid].cfg

read_memory(st, x) == st.heap[x]
write_memory(st, x, v) == [st EXCEPT !.heap[x] = v]
update_pc(st, tid, pos) == [st EXCEPT !.th[tid].pos = pos]

(* convert: main's thread identifier is main's symbol.                      *)
convert(heap, mainSym) ==
  [heap |-> heap, th |-> (mainSym :> [pos |-> 1, cfg |-> mainSym]), numth |-> 1]

noSuccs(prog, cfg, pos) == pos > Len(prog[cfg])

(* a thread has exited when its node has no successor *)
has_exited(prog, st, tid) ==
  tid \in DOMAIN st.th /\ noSuccs(prog, toThCFGSym(st, tid), st.th[tid].pos)

(* pthread_create: inc_num_th, write_memory, then insert_thread *)
inc_num_th(st) == [st EXCEPT !.numth = @ + 1]
insert_thread(st, tid, f) == [st EXCEPT !.th = (tid :> [pos |-> 1, cfg |-> f]) @@ @]
createThread(st, h, f) ==
  LET tid == st.numth + 1 IN insert_thread(write_memory(inc_num_th(st), h, tid), tid, f)

(***************************************************************************)
(* code_transformer on the edge leaving node p of thread tid: the effect    *)
(* [on, st, acts, warns], where on is FALSE when the result is bottom        *)
(* (a lock that is taken, a join of a thread that has not exited).          *)
(* An assignment evaluates its left-hand side first, hence the read of it.  *)
(***************************************************************************)
effect(on, st, a) == [on |-> on, st |-> st, acts |-> a, warns |-> {}]

transformer(prog, st, tid, i) ==
  CASE i[1] = "write"  -> effect(TRUE, write_memory(st, i[2], i[3]),
                                 joinAct(act("rds", i[2]), act("wrs", i[2])))
    [] i[1] = "copy"   -> effect(TRUE, write_memory(st, i[2], read_memory(st, i[3])),
                                 joinAct([botAct EXCEPT !["rds"] = {i[2], i[3]}],
                                         act("wrs", i[2])))
    [] i[1] = "ifeq"   -> effect(TRUE, st, act("rds", i[2]))
    [] i[1] = "lock"   -> effect(read_memory(st, i[2]) # one,
                                 write_memory(st, i[2], one), act("locks", i[2]))
    [] i[1] = "unlock" -> effect(TRUE, write_memory(st, i[2], zero), act("unlocks", i[2]))
    [] i[1] = "create" -> effect(TRUE, createThread(st, i[2], i[3]), act("tcreate", st.numth + 1))
    [] i[1] = "join"   -> effect(has_exited(prog, st, read_memory(st, i[2])),
                                 st, act("tjoin", read_memory(st, i[2])))
    [] i[1] = "exit"   -> effect(TRUE, st, act("texit", tid))
    [] i[1] = "error"  -> [effect(TRUE, st, botAct) EXCEPT
                             !.warns = {<<toThCFGSym(st, tid), st.th[tid].pos>>}]
    [] OTHER           -> effect(TRUE, st, botAct)

(* the node the edge leads to *)
post(st, p, i, n) ==
  CASE i[1] = "ifeq" -> IF read_memory(st, i[2]) = i[3] THEN i[4] ELSE p + 1
    [] i[1] = "goto" -> i[2]
    [] i[1] = "exit" -> n + 1
    [] OTHER         -> p + 1

code_transformer(prog, st, tid) ==
  LET code == prog[toThCFGSym(st, tid)]
      p    == st.th[tid].pos
      r    == transformer(prog, st, tid, code[p])
  IN  [r EXCEPT !.st = update_pc(@, tid, post(st, p, code[p], Len(code)))]

(***************************************************************************)
(* fixpt and worklist on the single path the concrete semantics has.  The   *)
(* node table maps a node to the fact [st, acts] last computed for it; the  *)
(* path is at node pos.  It ends at a marked edge ("mark": the edge is      *)
(* global or leads to a node without successors), when the edge is not      *)
(* enabled ("bot"), when it closes a local loop that changes nothing        *)
(* ("fix"), or at once when the thread has exited.                          *)
(***************************************************************************)
strong_update(table, node, st, acts) ==
  IF node \notin DOMAIN table THEN (node :> [st |-> st, acts |-> acts]) @@ table
  ELSE IF table[node].st = st THEN table
  ELSE [table EXCEPT ![node] = [st |-> st, acts |-> joinAct(acts, @.acts)]]

(* the edge leads from the fact at path.pos to node, with the effect r *)
follow(prog, tid, path, r, node, acts) ==
  LET table == strong_update(path.table, node, r.st, acts)
  IN  IF ~r.on THEN [path EXCEPT !.end = "bot", !.warns = @ \cup r.warns]
      ELSE [pos |-> node, table |-> table, warns |-> path.warns \cup r.warns,
            end |-> IF isGlobal(acts) \/ noSuccs(prog, toThCFGSym(r.st, tid), node) THEN "mark"
                    ELSE IF table = path.table THEN "fix" ELSE "go"]

worklist(prog, tid, path) ==
  LET fact    == path.table[path.pos]
      edge(r) == follow(prog, tid, path, r, r.st.th[tid].pos, joinAct(fact.acts, r.acts))
  IN  IF noSuccs(prog, toThCFGSym(fact.st, tid), path.pos) THEN [path EXCEPT !.end = "exited"]
      ELSE edge(code_transformer(prog, fact.st, tid))

(* A bound on the edges one run follows; no program modelled has a local    *)
(* loop that runs for longer.                                               *)
MaxPath == 12

fixpt(prog, st, tid) ==
  LET pos == st.th[tid].pos
      path[n \in 0..MaxPath] ==
        IF n = 0
        THEN [pos |-> pos, table |-> (pos :> [st |-> st, acts |-> botAct]), end |-> "go", warns |-> {}]
        ELSE LET p == path[n - 1] IN IF p.end = "go" THEN worklist(prog, tid, p) ELSE p
  IN  path[MaxPath]

(* The facts [st, pos, acts] at the marked edge: none or one. *)
handle_mark(prog, tid, p) ==
  LET fact == p.table[p.pos]
      exit == IF noSuccs(prog, toThCFGSym(fact.st, tid), p.pos) THEN act("texit", tid) ELSE botAct
  IN  IF p.end # "mark" THEN {}
      ELSE {[st |-> fact.st, pos |-> p.pos, acts |-> joinAct(fact.acts, exit)]}

run(prog, st, tid) ==
  LET result(p) == [warns |-> p.warns, table |-> p.table, res |-> handle_mark(prog, tid, p)]
  IN  result(fixpt(prog, st, tid))

(* drun: the fact at the position of an event name, taken from the result   *)
(* or from the node table; none when run produces no fact there.            *)
drun(prog, st, name) ==
  LET at(r, pos) ==
        IF \E f \in r.res : f.pos = pos THEN {f \in r.res : f.pos = pos}
        ELSE {[st |-> r.table[p].st, pos |-> p, acts |-> r.table[p].acts] : p \in {pos} \cap DOMAIN r.table}
  IN  at(run(prog, st, name[1]), name[2])

is_enabled(prog, st, tid) == run(prog, st, tid).res # {}
enabled(prog, st) == {tid \in DOMAIN st.th : is_enabled(prog, st, tid)}
=============================================================================
