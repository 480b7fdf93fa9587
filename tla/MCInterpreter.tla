--------------------------- MODULE MCInterpreter ---------------------------
(***************************************************************************)
(* Instances of the interpreter: all small acyclic graphs with all ways to  *)
(* share hash values, all small graphs with cycles and a hash that tells    *)
(* the states apart, and the state graphs of programs run by Collapse.      *)
(***************************************************************************)
EXTENDS Interpreter, FiniteSetsExt

Tr == INSTANCE Traces
Pr == INSTANCE Programs

(* lists of at most two elements *)
Lists2(S) == {<< >>} \cup {<<a>> : a \in S} \cup {<<a, b>> : a \in S, b \in S}

(* the successors of a state are larger *)
Acyclic4 ==
  {<<a, b, c, << >> >> : a \in Lists2({2, 3, 4}), b \in Lists2({3, 4}), c \in Lists2({4})}

(* every partition of the states once: a state hashes to the smallest state *)
(* it shares its value with                                                 *)
Hashes(k) == {h \in [1..k -> 1..k] : \A s \in 1..k : h[s] <= s /\ h[h[s]] = h[s]}

System(g, h) == [init |-> 1, succ |-> g, hash |-> h]
Identity(S) == [s \in S |-> s]

(* the state graph of a program; a state is its number in a list, in the    *)
(* order of the number of steps that lead to it                             *)
MaxRun == 12
Listed(S) == FoldSet(LAMBDA st, sts : Append(sts, st), << >>, S)
StatesOf(p) ==
  LET after(st) == {f.st : f \in UNION {Tr!run(p.code, st, t).res : t \in DOMAIN st.th}}
      layers[k \in 0..MaxRun] ==
        IF k = 0 THEN <<{Tr!convert(p.heap, p.main)}>>
        ELSE LET before == layers[k - 1]
             IN  Append(before, UNION {after(st) : st \in before[k]})
  IN  Tr!FoldLeft(LAMBDA sts, layer : sts \o Listed(layer), << >>, layers[MaxRun])

(* the states after one block of each enabled thread, in the order of the   *)
(* thread identifiers                                                       *)
Enabled(p, st) ==
  LET after(t) == (CHOOSE f \in Tr!run(p.code, st, t).res : TRUE).st
  IN  Tr!Map(after, Tr!Ascending(Tr!enabled(p.code, st)))

Numbered(p, sts) ==
  LET number(st) == CHOOSE k \in DOMAIN sts : sts[k] = st
  IN  [init |-> number(Tr!convert(p.heap, p.main)),
       succ |-> [k \in DOMAIN sts |-> Tr!Map(number, Enabled(p, sts[k]))],
       hash |-> Identity(DOMAIN sts)]

StateGraph(p) == Numbered(p, StatesOf(p))

(* graphs without cycles, for every mode *)
Finite ==
  {System(g, h) : g \in Acyclic4, h \in Hashes(4)}
    \cup {StateGraph(p) : p \in Pr!Two({"Wx", "Rx", "Lz", "LL", "MN", "NM"})}

(* graphs with cycles, for the mode that remembers where it was *)
Cyclic == {System(g, Identity(1..3)) : g \in [1..3 -> Lists2(1..3)]}

MCSystems == Finite \cup Cyclic
MCInit ==
  \/ \E y \in Finite, md \in Modes : interpreter(y, md)
  \/ \E y \in Cyclic : interpreter(y, "IPDFS")
MCSpec == MCInit /\ [][Next]_vars /\ WF_vars(Next)

-----------------------------------------------------------------------------
Exhausted(md) == mode = md /\ out = "end"

(* The traces dfs_tree reports are the maximal paths from the initial       *)
(* state, as many as there are schedules.                                   *)
CountsSchedules ==
  Exhausted("IPDFST") =>
    LET paths[s \in DOMAIN syst.succ] ==
          IF enabled(s) = << >> THEN 1
          ELSE MapThenSumSet(LAMBDA i : paths[enabled(s)[i]], DOMAIN enabled(s))
    IN  n - 1 = paths[syst.init]

(* dfs reports, when no two states share a hash value, one trace for every  *)
(* step into a state without successors, and one cutoff for every further   *)
(* step into another state.                                                 *)
CountsSteps ==
  Exhausted("IPDFS") /\ (\A s, t \in DOMAIN syst.succ : hash(s) = hash(t) => s = t) =>
    LET steps(Q(_)) == MapThenSumSet(LAMBDA s : Cardinality({i \in DOMAIN enabled(s) : Q(enabled(s)[i])}), seen)
        final(s) == enabled(s) = << >>
        inner(s) == enabled(s) # << >>
    IN  /\ n - 1 = steps(final) + (IF final(syst.init) THEN 1 ELSE 0)
        /\ m - 1 = steps(inner) + (IF inner(syst.init) THEN 1 ELSE 0) - Cardinality({s \in seen : inner(s)})

(* The program stops: dfs on every finite graph when the hash tells states  *)
(* apart, and every mode on an acyclic graph whatever the hash.             *)
Termination == <>(out # "running")
=============================================================================
