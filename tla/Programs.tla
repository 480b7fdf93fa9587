------------------------------ MODULE Programs ------------------------------
(***************************************************************************)
(* Small multithreaded programs for the engine of Collapse.  main creates   *)
(* the worker threads, then joins them in order.                            *)
(***************************************************************************)
EXTENDS Naturals, Sequences

(* symbols: shared variables, mutexes; 40 + i holds what worker i read, and *)
(* 70 + i its thread identifier; 80 + i is its function, ChildSym the one a *)
(* worker may start in turn                                                 *)
x == 51
y == 52
z == 53
m == 61
n == 62
MainSym  == 90
ChildSym == 89

(* what worker i may run *)
Body(i) ==
  [Wx  |-> << <<"write", x, i>> >>,
   Wy  |-> << <<"write", y, i>> >>,
   Rx  |-> << <<"copy", 40 + i, x>> >>,
   Cx  |-> << <<"ifeq", x, 0, 3>>, <<"copy", y, x>>, <<"goto", 4>> >>,       \* if (x) y = x
   Lz  |-> << <<"lock", m>>, <<"write", z, i>>, <<"unlock", m>> >>,
   Ez  |-> << <<"lock", m>>, <<"ifeq", z, 0, 4>>, <<"error">>, <<"unlock", m>> >>,
   LL  |-> << <<"lock", m>>, <<"unlock", m>>, <<"lock", m>>, <<"unlock", m>> >>,
   LWx |-> << <<"lock", m>>, <<"unlock", m>>, <<"write", x, i>> >>,
   WxL |-> << <<"write", x, i>>, <<"lock", m>>, <<"unlock", m>> >>,
   MN  |-> << <<"lock", m>>, <<"lock", n>>, <<"unlock", n>>, <<"unlock", m>> >>,
   NM  |-> << <<"lock", n>>, <<"lock", m>>, <<"unlock", m>>, <<"unlock", n>> >>,
   Cr  |-> << <<"create", 70, ChildSym>>, <<"join", 70>> >>,
   CrW |-> << <<"create", 70, ChildSym>>, <<"write", y, i>>, <<"join", 70>> >>,
   Ex  |-> << <<"ifeq", y, 0, 3>>, <<"exit">>, <<"write", x, i>> >>,
   Lp  |-> << <<"lock", m>>, <<"unlock", m>>, <<"goto", 1>> >>,
   LpW |-> << <<"lock", m>>, <<"ifeq", z, 1, 5>>, <<"write", z, 1>>, <<"goto", 6>>,
              <<"write", z, 0>>, <<"unlock", m>>, <<"goto", 1>> >>,          \* loop z = !z
   LpC |-> << <<"lock", m>>, <<"ifeq", z, 2, 9>>, <<"ifeq", z, 1, 6>>, <<"write", z, 1>>, <<"goto", 7>>,
              <<"write", z, 2>>, <<"unlock", m>>, <<"goto", 1>>, <<"error">>, <<"unlock", m>> >>,
                                                                             \* error in the third round
   LpE |-> << <<"lock", m>>, <<"ifeq", z, 0, 4>>, <<"error">>, <<"unlock", m>>, <<"goto", 1>> >>]

Main(k) == [j \in 1..(2 * k) |-> IF j <= k THEN <<"create", 70 + j, 80 + j>> ELSE <<"join", 70 + j - k>>]

Program(ws) ==
  [code |-> [s \in {MainSym, ChildSym} \cup {80 + i : i \in 1..Len(ws)} |->
               CASE s = MainSym  -> Main(Len(ws))
                 [] s = ChildSym -> << <<"write", x, 9>> >>
                 [] OTHER        -> Body(s - 80)[ws[s - 80]]],
   heap |-> [s \in {x, y, z, m, n} \cup 40..49 \cup 70..79 |-> 0],
   main |-> MainSym]

Two(S)   == {Program(<<a, b>>) : a \in S, b \in S}
Three(S) == {Program(<<a, b, c>>) : a \in S, b \in S, c \in S}
=============================================================================
