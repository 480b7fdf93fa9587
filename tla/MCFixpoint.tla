----------------------------- MODULE MCFixpoint -----------------------------
(***************************************************************************)
(* Instances of the fixpoint engine: the control flow graphs of small       *)
(* structured programs over two variables and a mutex.                      *)
(***************************************************************************)
EXTENDS Fixpoint

V(x) == [v |-> x, c |-> 0]
K(k) == [v |-> NoVar, c |-> k]

Code(k, x, op, a, b) == [k |-> k, x |-> x, op |-> op, a |-> a, b |-> b]
Assign(x, a, op, b) == Code("assign", x, op, a, b)
Nondet(x, l, u)     == Code("nondet", x, "+", K(l), K(u))
Cond(a, op, b)      == Code("cond", "x", op, a, b)
Not(i)              == [i EXCEPT !.op = negOp(@)]
Call(k, x)          == Code(k, x, "+", K(0), K(0))
Skip                == Call("skip", "x")

Edge(p, i, q)   == [src |-> p, dst |-> q, tags |-> << >>, code |-> i]
IfJoin(p, i, q) == [Edge(p, i, q) EXCEPT !.tags = <<"IfJoin">>]
LoopHead(p, i, q) == [Edge(p, i, q) EXCEPT !.tags = <<"LoopHead">>]
Exit(p, i, q)   == [Edge(p, i, q) EXCEPT !.tags = <<"Exit">>]

(* nodes 1 to n; edges in the order of their sources *)
Graph(n, start, st, edges) ==
  [start |-> start, st |-> st, edges |-> edges,
   succs |-> [p \in 1..n |-> SelectSeq([i \in 1..Len(edges) |-> i], LAMBDA i : edges[i].src = p)]]

State(a, b, c) == [x \in Vars |-> CASE x = "x" -> a [] x = "y" -> b [] OTHER -> c]
Range(l, u) == InterVal(I(l), I(u))

-----------------------------------------------------------------------------
(* if (c) i; else j;  then the last statement *)
If(st, c, i, j, last) ==
  Graph(5, 1, st, <<Edge(1, c, 2), Edge(1, Not(c), 3), IfJoin(2, i, 4), IfJoin(3, j, 4), Edge(4, last, 5)>>)

(* i; while (c) j;  then the last statement *)
While(st, i, c, j, last) ==
  Graph(5, 1, st, <<LoopHead(1, i, 2), Edge(2, c, 3), Edge(2, Not(c), 4), LoopHead(3, j, 2), Edge(4, last, 5)>>)

(* while (c) { if (d) i; else j; } and exit *)
WhileIf(st, c, d, i, j, last) ==
  Graph(7, 1, st, <<Edge(1, c, 2), Edge(1, Not(c), 6), Edge(2, d, 3), Edge(2, Not(d), 4),
                    IfJoin(3, i, 5), IfJoin(4, j, 5), LoopHead(5, Skip, 1), Exit(6, last, 7)>>)

(* do unlock(m); while (c) i;  from the unlock of a first turn on *)
Resume(st, c, i, last) ==
  Graph(5, 2, st, <<Edge(1, Call("unlock", "m"), 2), Edge(2, c, 3), Edge(2, Not(c), 4), LoopHead(3, i, 1),
                    Edge(4, last, 5)>>)

(* while (c) { i; j; }  k;  then the last statement *)
WhileThen(st, c, i, j, k, last) ==
  Graph(6, 1, st, <<Edge(1, c, 2), Edge(1, Not(c), 4), Edge(2, i, 3), LoopHead(3, j, 1), Edge(4, k, 5),
                    Edge(5, last, 6)>>)

Inits == {State(Range(0, 0), Range(1, 2), zero), State(Range(-1, 2), Range(0, 0), Range(0, 1)),
          State(Range(1, 1), Range(-1, 2), one)}
Conds == {Cond(V("x"), "<", V("y")), Cond(V("x"), ">", K(1)), Cond(V("y"), "<=", V("x")), Cond(K(1), ">=", V("x"))}
Stmts == {Assign("x", V("x"), "+", K(1)), Assign("x", V("y"), "-", K(1)), Assign("y", V("x"), "*", V("y")),
          Nondet("x", -1, 1), Call("lock", "m"), Skip}
Up    == Assign("x", V("x"), "+", K(1))
Down  == Assign("y", V("y"), "-", K(1))
Unlock == Call("unlock", "m")
Error  == Call("error", "x")

MCGraphs ==
  {If(st, c, i, j, Unlock) : st \in Inits, c \in Conds, i \in Stmts, j \in {Up, Call("lock", "m"), Error}}
    \cup {While(st, Nondet("x", -1, 1), c, j, Error) : st \in Inits, c \in Conds, j \in Stmts}
    \cup {WhileIf(st, c, d, i, j, Call("exit", "x")) :
             st \in Inits, c \in Conds, d \in {Cond(V("x"), "<", V("y"))}, i \in Stmts, j \in {Down, Call("lock", "m")}}
    \cup {Resume(st, c, i, Error) : st \in Inits, c \in Conds, i \in Stmts}
    \cup {WhileThen(st, Cond(V("m"), op, K(0)), Up, Down, Assign("x", V("x"), o, V("y")), Error) :
             st \in Inits, op \in {"<=", "=="}, o \in Operations}

(* if (x != 0) skip; else skip; unlock(m)   with x in [-1, 2] *)
NotEqualGraphs == {If(State(Range(-1, 2), zero, one), Cond(V("x"), "!=", K(0)), Skip, Skip, Unlock)}

(* if (x <= 1) x = 0; else x = y; unlock(m)   with y = 0 *)
DroppedGraphs ==
  {If(State(Range(-1, 2), zero, one), Cond(V("x"), "<=", K(1)), Assign("x", K(0), "+", K(0)),
      Assign("x", V("y"), "+", K(0)), Unlock)}

MCLevels == {1, 2}
MCInts == -1..2
=============================================================================
