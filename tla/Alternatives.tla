---------------------------- MODULE Alternatives ----------------------------
(***************************************************************************)
(* How the unfolder backtracks (Exploration/UNF/Unfolder.hs): the           *)
(* alternatives recorded at a maximal configuration, the one picked when    *)
(* exploration returns to an event, and the part of the prefix that is      *)
(* dropped in stateless mode.                                               *)
(***************************************************************************)
EXTENDS EventTable

Conflicts(E, S) == UNION {ToSet(E[e].icnf) : e \in S}

(* the elements of the list after the first x *)
After(s, x) == SubSeq(s, 1 + CHOOSE i \in 1..Len(s) : s[i] = x /\ x \notin ToSet(SubSeq(s, 1, i - 1)), Len(s))

(* V = configuration - conflicts of e2 and their successors + e2: recorded  *)
(* as an alternative to e when it keeps the stack below e and justifies the *)
(* disabled set of e.                                                       *)
computeV(E, stack, e, e2) ==
  LET clfec  == ToSet(E[e2].icnf) \cap ToSet(stack)
      stackE == ToSet(After(stack, e))
      common == Minus(stack, clfec \cup UNION {successors(E, c) : c \in clfec})
      v      == Append(common, e2)
  IN  IF /\ clfec \cap stackE = {}
         /\ stackE \subseteq ToSet(v)
         /\ ToSet(E[e].disa) \subseteq Conflicts(E, ToSet(v))
      THEN add_alte(E, e, v)
      ELSE E

(* The set of conflicting extensions found so far only saves the test of    *)
(* isCExtension; it is left out.                                            *)
possible_alte(E, stack, e) ==
  LET isCExtension(x) == ToSet(E[x].pred) \subseteq ToSet(stack)
  IN  FoldLeft(LAMBDA T, e2 : computeV(T, stack, e, e2), E, SelectSeq(E[e].icnf, isCExtension))

possible_altes(E, stack, evs) == FoldLeft(LAMBDA T, e : possible_alte(T, stack, e), E, evs)

(* mutant: the alternative need not justify the disabled set *)
filter_alte_unjustified(E, stak, d, v) == Conflicts(E, ToSet(v)) \cap ToSet(stak) = {}

(***************************************************************************)
(* The first alternative of the first event of ds that has one, such that   *)
(* every event of ds conflicts with it and no event of the stack does.      *)
(***************************************************************************)
filter_alte(E, stak, d, v) ==
  /\ ToSet(d) \subseteq Conflicts(E, ToSet(v))
  /\ Conflicts(E, ToSet(v)) \cap ToSet(stak) = {}

alt2(E, stak, ods) ==
  LET alt[i \in 1..(Len(ods) + 1)] ==
        IF i > Len(ods) THEN [is |-> "Nothing", v |-> << >>]
        ELSE IF ods[i] \notin DOMAIN E \/ Missing(E, ToSet(FlattenSeq(E[ods[i]].alte))) # {}
        THEN [is |-> "error", v |-> << >>]
        ELSE LET mv == SelectSeq(E[ods[i]].alte, LAMBDA v : filter_alte(E, stak, ods, v))
             IN  IF mv = << >> THEN alt[i + 1] ELSE [is |-> "Just", v |-> mv[1]]
  IN  alt[1]

(* mutant: the disabled events are dropped *)
core_stack(E, conf, d) == ToSet(conf) \cup UNION {ToSet(FlattenSeq(E[e].alte)) : e \in ToSet(conf)}

(* mutant: the successors of the configuration are kept *)
core_successors(E, conf, d) == ToSet(conf) \cup UNION {successors(E, e) : e \in ToSet(conf)}

(* the part of the prefix the rest of the exploration needs *)
core(E, conf, d) ==
  LET confAndD == ToSet(conf) \cup ToSet(d)
  IN  confAndD \cup UNION {ToSet(FlattenSeq(E[e].alte)) : e \in confAndD}
=============================================================================
