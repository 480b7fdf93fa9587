------------------------------ MODULE Interval ------------------------------
(***************************************************************************)
(* The interval domain (Domain/Interval): bounds, interval values, abstract *)
(* states and the transformers of the statements of a thread.               *)
(*                                                                          *)
(* A bound is an integer or infinite; Int has no overflow here.  IntBot is  *)
(* only ever the value of a condition that cannot hold, which makes the     *)
(* state bottom: an effect says so in its field bot.  IntTop is never built *)
(* and IntVal, the value of a thread identifier, is left out with thread    *)
(* creation and joining.  A state maps the scalar variables of one thread   *)
(* and the globals to their intervals.                                      *)
(***************************************************************************)
EXTENDS Integers

CONSTANTS Vars, NoVar

ASSUME VarsAssumption == NoVar \notin Vars

(* InterVal, the bounds *)
I(k)     == [inf |-> 0, n |-> k]
PlusInf  == [inf |-> 1, n |-> 0]
MinusInf == [inf |-> -1, n |-> 0]
Bounds   == {b \in [inf : {-1, 0, 1}, n : Int] : b.inf # 0 => b.n = 0}

(* Ord InterVal *)
leq(a, b) == a.inf < b.inf \/ (a.inf = b.inf /\ a.n <= b.n)
min(a, b) == IF leq(a, b) THEN a ELSE b
max(a, b) == IF leq(a, b) THEN b ELSE a

(* The error calls of plusIVal on opposite infinities are not met: a lower  *)
(* bound is never PlusInf and an upper bound never MinusInf.  subAborts and *)
(* mulAborts stand for those of subIVal and mulIVal.                        *)
plusIVal(a, b) == IF a.inf # 0 THEN a ELSE IF b.inf # 0 THEN b ELSE I(a.n + b.n)
negateIVal(a)  == [inf |-> -a.inf, n |-> -a.n]
subIVal(a, b)  == IF a.inf # 0 THEN a ELSE IF b.inf # 0 THEN negateIVal(b) ELSE I(a.n - b.n)
signum(a) == IF a.inf # 0 THEN a.inf ELSE IF a.n > 0 THEN 1 ELSE IF a.n < 0 THEN -1 ELSE 0
mulIVal(a, b) ==
  IF a.inf = 0 /\ b.inf = 0 THEN I(a.n * b.n)
  ELSE IF signum(a) = signum(b) THEN PlusInf ELSE MinusInf
mulIValAborts(a, b) == (a.inf # 0 /\ signum(b) = 0) \/ (b.inf # 0 /\ signum(a) = 0)

(* IntValue *)
InterVal(a, b) == [lo |-> a, hi |-> b]
kVal(k) == InterVal(I(k), I(k))
zero == kVal(0)
one  == kVal(1)
Values == {v \in [lo : Bounds \ {PlusInf}, hi : Bounds \ {MinusInf}] : leq(v.lo, v.hi)}

leqValue(v, w)   == leq(w.lo, v.lo) /\ leq(v.hi, w.hi)
joinValue(v, w)  == InterVal(min(v.lo, w.lo), max(v.hi, w.hi))
widenValue(v, w) == InterVal(IF leq(v.lo, w.lo) THEN v.lo ELSE MinusInf,
                             IF leq(w.hi, v.hi) THEN v.hi ELSE PlusInf)
plusValue(v, w)  == InterVal(plusIVal(v.lo, w.lo), plusIVal(v.hi, w.hi))
subValue(v, w)   == InterVal(subIVal(v.lo, w.hi), subIVal(v.hi, w.lo))
mulValue(v, w) ==
  LET ac == mulIVal(v.lo, w.lo)  ad == mulIVal(v.lo, w.hi)
      bc == mulIVal(v.hi, w.lo)  bd == mulIVal(v.hi, w.hi)
  IN  InterVal(min(min(ac, ad), min(bc, bd)), max(max(ac, ad), max(bc, bd)))
mulAborts(v, w) == \E a \in {v.lo, v.hi}, b \in {w.lo, w.hi} : mulIValAborts(a, b)
subAborts(v, w)  == (v.lo = MinusInf /\ w.hi = PlusInf) \/ (v.hi = PlusInf /\ w.lo = MinusInf)

(* IntState that is not bottom *)
States == [Vars -> Values]
(* inclusion, the reference order the facts are compared by; the analysis   *)
(* compares states with == and never calls subsumes_interval                *)
leqState(s, t)   == \A x \in Vars : leqValue(s[x], t[x])
joinState(s, t)  == [x \in Vars |-> joinValue(s[x], t[x])]
widenState(s, t) == [x \in Vars |-> widenValue(s[x], t[x])]

-----------------------------------------------------------------------------
(***************************************************************************)
(* Expressions.  A term is a variable plus a constant, or a constant: an    *)
(* operand of the source, which is a variable or a constant, or what        *)
(* apply_logic makes of it by adding or subtracting one.                    *)
(***************************************************************************)
Terms    == [v : Vars \cup {NoVar}, c : Int]
Operands == {t \in Terms : t.v # NoVar => t.c = 0}
add(t, k) == [t EXCEPT !.c = @ + k]

(* transformer on a term: its value and what it reads *)
value(st, t) == IF t.v = NoVar THEN kVal(t.c) ELSE plusValue(st[t.v], kVal(t.c))
read_act(t)  == IF t.v = NoVar THEN {} ELSE {<<"rds", t.v>>}

(* can_get_addrs_expr, write_memory *)
addressable(t)      == t.v # NoVar /\ t.c = 0
narrow(st, t, val)  == IF addressable(t) THEN [st EXCEPT ![t.v] = val] ELSE st
write_act(t)        == IF addressable(t) THEN {<<"wrs", t.v>>} ELSE {}

effect(bot, st, act) == [bot |-> bot, st |-> st, act |-> act]

(* l <= r: the variables compared are narrowed *)
interval_leq(st, l, r) ==
  LET lv   == value(st, l)
      rv   == value(st, r)
      acts == read_act(l) \cup read_act(r)
  IN  IF ~leq(lv.lo, rv.hi) THEN effect(TRUE, st, acts)
      ELSE effect(FALSE,
                  narrow(narrow(st, l, InterVal(lv.lo, min(lv.hi, rv.hi))), r,
                         InterVal(max(lv.lo, rv.lo), rv.hi)),
                  acts \cup write_act(l) \cup write_act(r))

apply_less(st, l, r)     == interval_leq(st, l, add(r, -1))
apply_greater(st, l, r)  == interval_leq(st, add(r, 1), l)

(* both conjuncts, the second in the state of the first *)
apply_equal(st, l, r) ==
  LET p == interval_leq(st, l, r)
      q == interval_leq(p.st, r, l)
  IN  effect(p.bot \/ q.bot, q.st, p.act \cup q.act)

(* either disjunct, the second again in the state of the first *)
apply_not_equal(st, l, r) ==
  LET p == interval_leq(st, l, add(r, -1))
      q == interval_leq(p.st, r, add(l, -1))
  IN  effect(p.bot /\ q.bot, q.st, p.act \cup q.act)

Comparisons == {"<", ">", "<=", ">=", "==", "!="}

apply_logic(st, op, l, r) ==
  CASE op = "<"  -> apply_less(st, l, r)
    [] op = ">"  -> apply_greater(st, l, r)
    [] op = "<=" -> interval_leq(st, l, r)
    [] op = ">=" -> interval_leq(st, r, l)
    [] op = "==" -> apply_equal(st, l, r)
    [] op = "!=" -> apply_not_equal(st, l, r)

negOp(op) ==
  CASE op = "<"  -> ">="  [] op = ">"  -> "<="
    [] op = "<=" -> ">"   [] op = ">=" -> "<"
    [] op = "==" -> "!="  [] op = "!=" -> "=="

-----------------------------------------------------------------------------
(***************************************************************************)
(* The code of an edge, [k, x, op, a, b]:                                   *)
(*   "assign"  x = a op b, op one of + - *        "nondet"  x = any of a..b *)
(*   "cond"    a op b                             "skip"                    *)
(*   "lock", "unlock", "init"  of the mutex x     "error", "exit"           *)
(* An assignment evaluates its left-hand side, hence the read of x.         *)
(***************************************************************************)
Operations == {"+", "-", "*"}
Codes ==
  {i \in [k : {"assign", "nondet", "cond", "skip", "lock", "unlock", "init", "error", "exit"},
          x : Vars, op : Operations \cup Comparisons, a : Operands, b : Operands] :
     /\ i.k = "assign" => i.op \in Operations
     /\ i.k = "cond"   => i.op \in Comparisons
     /\ i.k = "nondet" => i.a.v = NoVar /\ i.b.v = NoVar /\ i.a.c <= i.b.c}

(* "PlusInf  - MinusInf", "MinusInf - PlusInf ", "PlusInf * 0", "MinusInf * 0" *)
aborts(st, i) ==
  LET v == value(st, i.a)
      w == value(st, i.b)
  IN  i.k = "assign" /\ ((i.op = "-" /\ subAborts(v, w)) \/ (i.op = "*" /\ mulAborts(v, w)))

operate(op, v, w) ==
  CASE op = "+" -> plusValue(v, w) [] op = "-" -> subValue(v, w) [] op = "*" -> mulValue(v, w)

assign_transformer(st, i) ==
  LET v == operate(i.op, value(st, i.a), value(st, i.b))
  IN  effect(FALSE, [st EXCEPT ![i.x] = v],
             {<<"rds", i.x>>, <<"wrs", i.x>>} \cup read_act(i.a) \cup read_act(i.b))

nondet_transformer(st, i) ==
  effect(FALSE, [st EXCEPT ![i.x] = InterVal(I(i.a.c), I(i.b.c))], {<<"rds", i.x>>, <<"wrs", i.x>>})

(* mutant: a mutex that may be taken is taken for locked *)
lock_transformer_may(st, i) ==
  IF leqValue(one, st[i.x]) THEN effect(TRUE, st, {})
  ELSE effect(FALSE, [st EXCEPT ![i.x] = one], {<<"locks", i.x>>})
lock_transformer(st, i) ==
  IF st[i.x] = one THEN effect(TRUE, st, {})
  ELSE effect(FALSE, [st EXCEPT ![i.x] = one], {<<"locks", i.x>>})

code_transformer(st, i) ==
  CASE i.k = "assign" -> assign_transformer(st, i)
    [] i.k = "nondet" -> nondet_transformer(st, i)
    [] i.k = "cond"   -> apply_logic(st, i.op, i.a, i.b)
    [] i.k = "lock"   -> lock_transformer(st, i)
    [] i.k = "unlock" -> effect(FALSE, [st EXCEPT ![i.x] = zero], {<<"unlocks", i.x>>})
    [] i.k = "init"   -> effect(FALSE, [st EXCEPT ![i.x] = zero], {<<"wrs", i.x>>})
    [] i.k = "exit"   -> effect(FALSE, st, {<<"texit", NoVar>>})
    [] OTHER          -> effect(FALSE, st, {})

isGlobal(act) == \E a \in act : a[1] \in {"locks", "unlocks"}

-----------------------------------------------------------------------------
(***************************************************************************)
(* The reference: the concrete execution of the code of an edge, on states  *)
(* that map the variables to integers.  Steps is the set of states after.   *)
(***************************************************************************)
valueOf(s, t) == IF t.v = NoVar THEN t.c ELSE s[t.v] + t.c

computes(op, a, b) == CASE op = "+" -> a + b [] op = "-" -> a - b [] op = "*" -> a * b

holds(op, a, b) ==
  CASE op = "<"  -> a < b   [] op = ">"  -> a > b
    [] op = "<=" -> a <= b  [] op = ">=" -> a >= b
    [] op = "==" -> a = b   [] op = "!=" -> a # b

Steps(s, i) ==
  CASE i.k = "assign" -> {[s EXCEPT ![i.x] = computes(i.op, valueOf(s, i.a), valueOf(s, i.b))]}
    [] i.k = "nondet" -> {[s EXCEPT ![i.x] = k] : k \in i.a.c..i.b.c}
    [] i.k = "cond"   -> IF holds(i.op, valueOf(s, i.a), valueOf(s, i.b)) THEN {s} ELSE {}
    [] i.k = "lock"   -> IF s[i.x] = 1 THEN {} ELSE {[s EXCEPT ![i.x] = 1]}
    [] i.k \in {"unlock", "init"} -> {[s EXCEPT ![i.x] = 0]}
    [] OTHER          -> {s}

In(k, v)  == leq(v.lo, I(k)) /\ leq(I(k), v.hi)
Has(st, s) == \A x \in Vars : In(s[x], st[x])
=============================================================================
