---------------------- MODULE ExplorationCompleteness ----------------------
(***************************************************************************)
(* The exploration misses no maximal configuration (VisitsAll), for         *)
(* prefixes and recursions of any size.  CInv says, on top of EInv, what    *)
(* every activation has explored already, and that the alternatives which   *)
(* lead to the rest were recorded.  It speaks of stateful mode only, and of *)
(* events that were found in time.                                          *)
(***************************************************************************)
EXTENDS ExplorationProofs

(* Every event of D is kept out of M by a conflict. *)
Justifies(M, D) == \A x \in D : icnf[x] \cap M # {}

(* A maximal configuration above P was explored. *)
Covered(P) == \E W \in visited : P \subseteq W

(* What explore promises of a configuration C and of disabled events D:     *)
(* above C, it misses nothing that justifies D.                             *)
Explored(C, D) ==
  \A M \in SUBSET evs : Configuration(M) /\ C \subseteq M /\ Justifies(M, D) => Covered(M)

(* Where y can be taken in place of x after P, there is an alternative to x *)
(* with it.                                                                 *)
Recorded(x, P) == \A y \in icnf[x] : Extends(y, P) => \E v \in alte[x] : P \cup {y} \subseteq v

(* explore has left the event x behind: above C, all with x is explored,    *)
(* and all without x that conflicts with it is recorded.                    *)
Left(x, C) ==
  \A P \in SUBSET evs :
    Configuration(P) /\ C \subseteq P /\ Configuration(P \cup {x}) /\ Justifies(P, disa[x]) =>
      Covered(P \cup {x}) /\ Recorded(x, P)

(* While x is on the stack: below each maximal configuration W explored.    *)
Noted(x, C, D) ==
  \A W \in visited : W \cap D = {} =>
    \A P \in SUBSET evs : Configuration(P) /\ C \subseteq P /\ P \subseteq W /\ Justifies(P, D) => Recorded(x, P)

(* The disabled events are ordered by the sets they were chosen under. *)
Layered(D) ==
  /\ \A x \in D : x \in evs /\ disa[x] \subseteq D
  /\ \A U \in SUBSET D : U # {} => \E x \in U : disa[x] \cap U = {}

(* Any set of events has a first and a last one. *)
Bounded ==
  \A S \in SUBSET evs : S # {} => /\ \E x \in S : \A y \in S : x <= y
                                  /\ \E x \in S : \A y \in S : y <= x

Maximal == \A W \in visited : Configuration(W) /\ Extensions(W) = {}

(* What an activation has done *)
Progress(f) ==
  /\ Layered(f.d) /\ \A x \in f.d : Left(x, Events(f.size))
  /\ f.pc \in {"unfold", "call", "again"} => disa[f.e] = f.d /\ f.e \notin f.d
  /\ f.pc = "call" => Noted(f.e, Events(f.size), f.d)
  /\ f.pc = "again" => Left(f.e, Events(f.size)) /\ Explored(Events(f.size) \cup {f.e}, f.d)

(* What it finds done when a call returns *)
Returned ==
  /\ At("call") => Explored(Events(Top.size) \cup {Top.e}, Top.d)
  /\ At("again") => Explored(Events(Top.size), Disabled)
  /\ frames = << >> /\ job = {} => Explored({bot}, {})

First == frames # << >> => frames[1].size = 1
Covering == Maximal /\ (\A f \in Active : Progress(f)) /\ Returned

CInv == Bounded /\ First /\ (~stateless /\ late = {} => Covering)
-----------------------------------------------------------------------------
(* A configuration takes an event whose causes it holds and which it does   *)
(* not conflict with.                                                       *)
LEMMA Joined ==
  ASSUME IInv, NEW P, Configuration(P), NEW x \in evs, past[x] \subseteq P, icnf[x] \cap P = {}
  PROVE  Configuration(P \cup {x})
  <1>1. /\ \A a, b \in evs : a \in icnf[b] => b \in icnf[a]
        /\ x \notin icnf[x]
    BY DEF IInv, LocalConfigurations, ConflictFree
  <1>2. P \cup {x} \subseteq evs /\ \A y \in P \cup {x} : past[y] \subseteq P \cup {x}
    BY DEF Configuration
  <1>3. ConflictFree(P \cup {x})
    BY <1>1, <1>2 DEF Configuration, ConflictFree
  <1> QED BY <1>2, <1>3 DEF Configuration

(* Of the disabled events that P does not keep out, one was chosen when     *)
(* only events that P keeps out were disabled, and P can take it.           *)
LEMMA FirstOpen ==
  ASSUME IInv, NEW C, NEW D, Layered(D), \A x \in D : past[x] \subseteq C,
         NEW P, Configuration(P), C \subseteq P, ~Justifies(P, D)
  PROVE  \E x \in D : icnf[x] \cap P = {} /\ Justifies(P, disa[x]) /\ Configuration(P \cup {x})
  <1> DEFINE U == {x \in D : icnf[x] \cap P = {}}
  <1>1. U \in SUBSET D /\ U # {}
    BY DEF Justifies
  <1>2. PICK x \in U : disa[x] \cap U = {}
    BY <1>1 DEF Layered
  <1>3. x \in D /\ x \in evs /\ icnf[x] \cap P = {} /\ disa[x] \subseteq D /\ past[x] \subseteq P
    BY <1>2 DEF Layered
  <1>4. Justifies(P, disa[x])
    BY <1>2, <1>3 DEF Justifies
  <1>5. Configuration(P \cup {x})
    BY <1>3, Joined
  <1> QED BY <1>3, <1>4, <1>5

(* So a configuration that does not justify the disabled events is covered. *)
LEMMA OpenCovered ==
  ASSUME IInv, NEW C, NEW D, Layered(D), \A x \in D : past[x] \subseteq C /\ Left(x, C),
         NEW P, Configuration(P), C \subseteq P, ~Justifies(P, D)
  PROVE  Covered(P)
  <1>1. PICK x \in D : Justifies(P, disa[x]) /\ Configuration(P \cup {x})
    BY FirstOpen
  <1>2. P \in SUBSET evs
    BY DEF Configuration
  <1>3. Covered(P \cup {x})
    BY <1>1, <1>2 DEF Left
  <1> QED BY <1>3 DEF Covered

(* A configuration without extensions is not part of a larger one. *)
LEMMA NothingAbove ==
  ASSUME IInv, NEW C, NEW M, Configuration(M), C \subseteq M, Extensions(C) = {}
  PROVE  M = C
  <1> SUFFICES ASSUME M # C PROVE FALSE
    OBVIOUS
  <1>1. M \ C \in SUBSET evs /\ M \ C # {}
    BY DEF Configuration
  <1>2. PICK x \in M \ C : past[x] \cap (M \ C) = {}
    BY <1>1 DEF IInv, Founded
  <1>3. past[x] \subseteq C /\ icnf[x] \cap C = {} /\ x \in evs
    BY <1>2 DEF Configuration, ConflictFree
  <1> QED BY <1>2, <1>3 DEF Extensions, Extends

(* explore(C, D) covers what it must by taking x first and disabling it     *)
(* afterwards, where x extends C.                                           *)
LEMMA TakenOrNot ==
  ASSUME IInv, NEW C, NEW D, NEW x \in evs, past[x] \subseteq C,
         Explored(C \cup {x}, D), Explored(C, D \cup {x})
  PROVE  Explored(C, D)
  <1> SUFFICES ASSUME NEW M \in SUBSET evs, Configuration(M), C \subseteq M, Justifies(M, D)
               PROVE  Covered(M)
    BY DEF Explored
  <1>1. CASE icnf[x] \cap M = {}
    <2>1. Configuration(M \cup {x})
      BY <1>1, Joined
    <2>2. Justifies(M \cup {x}, D) /\ M \cup {x} \in SUBSET evs /\ C \cup {x} \subseteq M \cup {x}
      BY DEF Justifies
    <2>3. Covered(M \cup {x})
      BY <2>1, <2>2 DEF Explored
    <2> QED BY <2>3 DEF Covered
  <1>2. CASE icnf[x] \cap M # {}
    <2>1. Justifies(M, D \cup {x})
      BY <1>2 DEF Justifies
    <2> QED BY <2>1 DEF Explored
  <1> QED BY <1>1, <1>2

(* Disabling the event chosen keeps the order. *)
LEMMA LayerAdded ==
  ASSUME NEW D, NEW x \in evs, Layered(D), disa[x] = D, x \notin D
  PROVE  Layered(D \cup {x})
  <1>1. \A y \in D \cup {x} : y \in evs /\ disa[y] \subseteq D \cup {x}
    BY DEF Layered
  <1>2. ASSUME NEW U \in SUBSET (D \cup {x}), U # {}
        PROVE  \E y \in U : disa[y] \cap U = {}
    <2>1. CASE U = {x}
      BY <2>1
    <2>2. CASE U # {x}
      <3>1. U \ {x} \in SUBSET D /\ U \ {x} # {}
        BY <1>2, <2>2
      <3>2. PICK y \in U \ {x} : disa[y] \cap (U \ {x}) = {}
        BY <3>1 DEF Layered
      <3>3. disa[y] \subseteq D
        BY <3>1, <3>2 DEF Layered
      <3> QED BY <3>2, <3>3
    <2> QED BY <2>1, <2>2
  <1> QED BY <1>1, <1>2 DEF Layered

(* Between a configuration that does not justify E and one above it that    *)
(* does, there is a last one that does not: adding the events in the order  *)
(* in which they were found keeps causes before effects.                    *)
LEMMA LastOpen ==
  ASSUME IInv, Bounded, NEW C, NEW E, Configuration(C), ~Justifies(C, E),
         NEW M, Configuration(M), C \subseteq M, Justifies(M, E)
  PROVE  \E P, y : /\ Configuration(P) /\ C \subseteq P /\ ~Justifies(P, E)
                   /\ y \in evs /\ Extends(y, P) /\ Justifies(P \cup {y}, E)
  <1> DEFINE Upto(y) == C \cup {x \in M : x <= y}
             Y == {y \in M : Justifies(Upto(y), E)}
  <1>t. M \subseteq evs /\ evs \subseteq Nat
    BY DEF IInv, TypeOK, Configuration
  <1>1. M # {}
    BY DEF Justifies
  <1>2. Y # {}
    <2>1. PICK m \in M : \A x \in M : x <= m
      BY <1>1, <1>t DEF Bounded
    <2>2. Upto(m) = M
      BY <2>1
    <2> QED BY <2>2
  <1>3. PICK y \in Y : \A x \in Y : y <= x
    BY <1>2, <1>t DEF Bounded
  <1> DEFINE B == {x \in M : x < y}
             P == C \cup B
  <1>4. ~Justifies(P, E)
    <2>1. CASE B = {}
      BY <2>1
    <2>2. CASE B # {}
      <3>1. PICK m \in B : \A x \in B : x <= m
        BY <2>2, <1>t DEF Bounded
      <3>2. m \in M /\ m < y /\ m \in Nat /\ y \in Nat
        BY <3>1, <1>t
      <3>3. B = {x \in M : x <= m}
        <4>1. \A x \in M : x < y <=> x <= m
          BY <3>1, <3>2, <1>t
        <4> QED BY <4>1, Zenon
      <3>4. m \notin Y
        BY <3>2, <1>3
      <3> QED BY <3>2, <3>3, <3>4
    <2> QED BY <2>1, <2>2
  <1>5. Upto(y) \subseteq P \cup {y} /\ y \in M
    <2>1. \A x \in M : x <= y => x < y \/ x = y
      BY <1>t
    <2> QED BY <2>1
  <1>6. Justifies(P \cup {y}, E)
    BY <1>3, <1>5 DEF Justifies
  <1>7. y \notin P
    BY <1>4, <1>6, <1>5 DEF Justifies
  <1>8. Configuration(P)
    <2>1. P \subseteq M /\ P \subseteq evs
      BY <1>t
    <2>2. \A x \in M : past[x] \subseteq M /\ \A p \in past[x] : p < x
      BY <1>t DEF Configuration, IInv, Rooted
    <2>3. ASSUME NEW x \in P, NEW p \in past[x] PROVE p \in P
      <3>1. CASE x \in C
        BY <3>1, <2>3 DEF Configuration
      <3>2. CASE x \in B
        <4>1. p \in M /\ p < x /\ x < y /\ p \in Nat /\ x \in Nat /\ y \in Nat
          BY <3>2, <2>2, <2>3, <1>t, <1>5
        <4> QED BY <4>1
      <3> QED BY <3>1, <3>2
    <2>4. ConflictFree(P)
      BY <2>1 DEF Configuration, ConflictFree
    <2> QED BY <2>1, <2>3, <2>4 DEF Configuration
  <1>9. Extends(y, P)
    <2>1. past[y] \subseteq M /\ \A p \in past[y] : p < y
      BY <1>5, <1>t DEF Configuration, IInv, Rooted
    <2>2. icnf[y] \cap M = {}
      BY <1>5 DEF Configuration, ConflictFree
    <2> QED BY <1>7, <2>1, <2>2 DEF Extends
  <1> HIDE DEF P
  <1>10. C \subseteq P
    BY DEF P
  <1> QED BY <1>4, <1>5, <1>6, <1>8, <1>9, <1>10, <1>t

(* Where there is something left to explore, an alternative was recorded:   *)
(* what alt2 looks for exists.                                              *)
LEMMA AlternativeThere ==
  ASSUME IInv, Bounded, NEW C, NEW E, Layered(E), \A x \in E : past[x] \subseteq C /\ Left(x, C),
         Configuration(C), ~Justifies(C, E), NEW M, Configuration(M), C \subseteq M, Justifies(M, E)
  PROVE  \E x \in E : \E v \in alte[x] : C \subseteq v /\ Justifies(v, E)
  <1>1. PICK P, y : /\ Configuration(P) /\ C \subseteq P /\ ~Justifies(P, E)
                    /\ y \in evs /\ Extends(y, P) /\ Justifies(P \cup {y}, E)
    BY LastOpen
  <1>2. PICK x \in E : icnf[x] \cap P = {} /\ Justifies(P, disa[x]) /\ Configuration(P \cup {x})
    BY <1>1, FirstOpen
  <1>3. y \in icnf[x]
    BY <1>1, <1>2 DEF Justifies
  <1>4. P \in SUBSET evs
    BY <1>1 DEF Configuration
  <1>5. Recorded(x, P)
    BY <1>1, <1>2, <1>4 DEF Left
  <1>6. PICK v \in alte[x] : P \cup {y} \subseteq v
    BY <1>1, <1>3, <1>5 DEF Recorded
  <1>7. C \subseteq v /\ Justifies(v, E)
    BY <1>1, <1>6 DEF Justifies
  <1> QED BY <1>6, <1>7

-----------------------------------------------------------------------------
(* A prefix and a first activation stay what they are. *)
LEMMA BoundedStep == ASSUME IInv, Bounded, [Next]_vars PROVE Bounded'
  <1>t. evs \subseteq Nat /\ cntr \in Nat /\ \A x \in evs : x < cntr
    BY DEF IInv, TypeOK, Rooted
  <1>1. ASSUME evs' \subseteq evs PROVE Bounded'
    BY <1>1 DEF Bounded
  <1>2. ASSUME evs' = evs \cup {cntr} PROVE Bounded'
    <2> SUFFICES ASSUME NEW S \in SUBSET (evs \cup {cntr}), S # {}
                 PROVE  /\ \E x \in S : \A y \in S : x <= y
                        /\ \E x \in S : \A y \in S : y <= x
      BY <1>2 DEF Bounded
    <2> DEFINE R == S \ {cntr}
    <2>1. CASE R = {}
      <3>1. S = {cntr}
        BY <2>1
      <3> QED BY <3>1, <1>t
    <2>2. CASE R # {}
      <3>1. R \in SUBSET evs
        OBVIOUS
      <3>2. PICK a \in R : \A y \in R : a <= y
        BY <2>2, <3>1 DEF Bounded
      <3>3. PICK b \in R : \A y \in R : y <= b
        BY <2>2, <3>1 DEF Bounded
      <3>4. \A y \in S : a <= y
        BY <3>1, <3>2, <1>t
      <3>5. CASE cntr \in S
        <4>1. \A y \in S : y <= cntr
          BY <3>1, <1>t
        <4> QED BY <3>2, <3>4, <3>5, <4>1
      <3>6. CASE cntr \notin S
        BY <3>2, <3>3, <3>4, <3>6
      <3> QED BY <3>5, <3>6
    <2> QED BY <2>1, <2>2
  <1>3. evs' \subseteq evs \/ evs' = evs \cup {cntr}
    BY DEF Next, Add, Delete, del_event, Push, push, Pop, pop, prefix, vars
  <1> QED BY <1>1, <1>2, <1>3

LEMMA FirstStep == ASSUME EInv, EInv', First, [ExploreNext]_all PROVE First'
  <1>i. Types /\ First /\ (frames # << >> => Top \in Activations /\ Len(frames) \in Nat \ {0} /\ Top = frames[Len(frames)])
    BY TopFacts DEF EInv
  <1>n. frames # << >> => Len(frames) = 1 \/ 1 \in 1..(Len(frames) - 1)
    <2>1. \A n \in Nat \ {0} : n = 1 \/ 1 \in 1..(n - 1)
      OBVIOUS
    <2> QED BY <1>i, <2>1
  <1>1. ASSUME frames # << >>, frames' = Callers PROVE First'
    <2>1. Len(frames') = Len(frames) - 1 /\ (frames' # << >> => Len(frames) - 1 \in Nat \ {0})
          /\ \A i \in 1..(Len(frames) - 1) : frames'[i] = frames[i]
      BY <1>1, <1>i, Returns
    <2>2. frames' # << >> => frames'[1] = frames[1]
      BY <2>1
    <2> QED BY <1>1, <1>i, <2>2 DEF First
  <1>2. ASSUME frames # << >>, NEW g \in Activations, frames' = Set(g), g.size = Top.size PROVE First'
    <2>1. /\ frames'[Len(frames)] = g
          /\ \A i \in 1..(Len(frames) - 1) : frames'[i] = frames[i]
      BY <1>2, <1>i, Moves
    <2>2. frames'[1] = frames[1] \/ (Len(frames) = 1 /\ frames'[1] = g)
      BY <1>2, <1>n, <2>1
    <2> QED BY <1>2, <1>i, <2>2 DEF First
  <1>3. ASSUME frames # << >>, NEW g \in Activations, NEW f \in Activations,
               frames' = Append(Set(g), f), g.size = Top.size
        PROVE  First'
    <2>1. /\ frames'[Len(frames)] = g
          /\ \A i \in 1..(Len(frames) - 1) : frames'[i] = frames[i]
      BY <1>3, <1>i, Calls
    <2>2. frames'[1] = frames[1] \/ (Len(frames) = 1 /\ frames'[1] = g)
      BY <1>3, <1>n, <2>1
    <2> QED BY <1>3, <1>i, <2>2 DEF First
  <1>4. \A p \in {"call", "again"} : frames # << >> =>
          [Top EXCEPT !.pc = p] \in Activations /\ [Top EXCEPT !.pc = p].size = Top.size
    BY <1>i DEF Activations
  <1>5. CASE Start
    <2>1. frames' = <<Frame(1, Extensions(conf), {}, {})>>
      BY <1>5 DEF Start
    <2>2. frames'[1].size = 1
      BY <2>1 DEF Frame
    <2> QED BY <2>2 DEF First
  <1>6. CASE Unfold
    <2> DEFINE f == Frame(Len(stak) + 1, Extensions(conf \cup {Top.e}), Top.d, Top.alt \ {Top.e})
               g == [Top EXCEPT !.pc = "call"]
    <2>1. frames # << >> /\ frames' = Append(Set(g), f)
      BY <1>6 DEF Unfold, Goto
    <2>2. f \in Activations
      <3>1. Extensions(conf \cup {Top.e}) \in SUBSET Nat
        BY DEF EInv, IInv, TypeOK, Extensions
      <3>2. Len(stak) + 1 \in Nat \ {0}
        BY <1>i DEF Types
      <3>3. Top.d \in SUBSET Nat /\ Top.alt \ {Top.e} \in SUBSET Nat
        BY <2>1, <1>i DEF Activations
      <3> QED BY <3>1, <3>2, <3>3 DEF Frame, Activations, bot
    <2>3. g \in Activations /\ g.size = Top.size
      BY <2>1, <1>4
    <2> QED BY <2>1, <2>2, <2>3, <1>3
  <1>7. CASE ExploreMaximal \/ Return \/ Pruned
    BY <1>1, <1>7 DEF ExploreMaximal, Return, Pruned, At
  <1>8. ASSUME NEW e \in evs, ExploreEvent(e) PROVE First'
    <2> DEFINE g == [Top EXCEPT !.pc = "unfold", !.e = e]
    <2>1. frames # << >> /\ frames' = Set(g) /\ e \in Nat
      BY <1>8 DEF ExploreEvent, At, EInv, IInv, TypeOK
    <2>2. g \in Activations /\ g.size = Top.size
      BY <2>1, <1>i, Zenon DEF Activations
    <2> QED BY <2>1, <2>2, <1>2
  <1>9. CASE Backtrack
    <2> DEFINE g == [Top EXCEPT !.pc = "again"]
               e == stak[Len(stak)]
               f(v) == Frame(Top.size, Top.en, Disabled, v \ (conf \ {e}))
    <2>1. frames # << >> /\ (frames' = Set(g) \/ \E x \in Disabled : \E v \in alte[x] : frames' = Append(Set(g), f(v)))
      BY <1>9 DEF Backtrack, Goto, At
    <2>2. g \in Activations /\ g.size = Top.size
      BY <2>1, <1>4
    <2>3. Disabled \subseteq evs
      <3>1. Known(Top) /\ Top.pc = "call"
        BY <1>9, <1>i, TopFacts DEF Backtrack, At, EInv, Knowledge
      <3> QED BY <3>1 DEF Known, Disabled
    <2>4. ASSUME NEW x \in Disabled, NEW v \in alte[x] PROVE f(v) \in Activations
      <3>1. alte \in [evs -> SUBSET SUBSET Nat] /\ evs \subseteq Nat
        BY DEF EInv, Types, IInv, TypeOK
      <3>2. v \in SUBSET Nat /\ Disabled \in SUBSET Nat
        BY <2>3, <2>4, <3>1
      <3>3. Top.size \in Nat \ {0} /\ Top.en \in SUBSET Nat
        BY <2>1, <1>i DEF Activations
      <3> QED BY <3>2, <3>3 DEF Frame, Activations, bot
    <2> QED BY <2>1, <2>2, <2>4, <1>2, <1>3
  <1>10. CASE ReturnStateless
    <2> DEFINE dels == ({Top.e} \cup UNION alte[Top.e]) \ core
               g == [Top EXCEPT !.pc = "prune", !.dels = dels]
    <2>1. frames # << >> /\ frames' = Set(g)
      BY <1>10 DEF ReturnStateless, At
    <2>2. dels \in SUBSET Nat
      <3>1. Known(Top) /\ Top.pc = "again"
        BY <1>10, <1>i, TopFacts DEF ReturnStateless, At, EInv, Knowledge
      <3>2. alte \in [evs -> SUBSET SUBSET Nat] /\ evs \subseteq Nat /\ Top.e \in evs
        BY <3>1 DEF EInv, Types, IInv, TypeOK, Known
      <3> QED BY <3>2
    <2>3. g \in Activations /\ g.size = Top.size
      BY <2>1, <2>2, <1>i, Zenon DEF Activations
    <2> QED BY <2>1, <2>3, <1>2
  <1>11. ASSUME NEW x \in evs, Prune(x) PROVE First'
    <2> DEFINE g == [Top EXCEPT !.dels = @ \ Above(x)]
    <2>1. frames # << >> /\ frames' = Set(g)
      BY <1>11 DEF Prune, At
    <2>2. Top.dels \in SUBSET Nat
      BY <2>1, <1>i DEF Activations
    <2>3. g \in Activations /\ g.size = Top.size
      BY <2>1, <2>2, <1>i, Zenon DEF Activations
    <2> QED BY <2>1, <2>3, <1>2
  <1>12. ASSUME NEW h \in SUBSET evs, NEW cnfls \in SUBSET evs, AddEvent(h, cnfls) PROVE First'
    BY <1>12 DEF AddEvent, First
  <1>13. CASE UNCHANGED all
    BY <1>13 DEF all, First
  <1> QED BY <1>5, <1>6, <1>7, <1>8, <1>9, <1>10, <1>11, <1>12, <1>13 DEF ExploreNext

(* What was explored and recorded stays so when more is. *)
LEMMA Kept ==
  ASSUME UNCHANGED prefix, disa' = disa, visited \subseteq visited', \A x \in evs : alte[x] \subseteq alte'[x]
  PROVE  /\ \A C, D : Explored(C, D) => Explored(C, D)'
         /\ \A x \in evs : \A C : Left(x, C) => Left(x, C)'
         /\ \A D : Layered(D) => Layered(D)'
         /\ \A x \in evs : \A P : Recorded(x, P) => Recorded(x, P)'
         /\ \A M, D : Justifies(M, D)' <=> Justifies(M, D)
         /\ \A P : Covered(P) => Covered(P)'
  <1>1. evs' = evs /\ past' = past /\ icnf' = icnf /\ \A S : Configuration(S)' <=> Configuration(S)
    BY SamePrefix DEF prefix
  <1>2. \A M, D : Justifies(M, D)' <=> Justifies(M, D)
    BY <1>1 DEF Justifies
  <1>3. \A P : Covered(P) => Covered(P)'
    BY DEF Covered
  <1>4. \A x \in evs : \A P : Recorded(x, P) => Recorded(x, P)'
    BY <1>1 DEF Recorded, Extends
  <1>5. \A C, D : Explored(C, D) => Explored(C, D)'
    BY <1>1, <1>2, <1>3 DEF Explored
  <1>6. \A x \in evs : \A C : Left(x, C) => Left(x, C)'
    BY <1>1, <1>2, <1>3, <1>4 DEF Left
  <1>7. \A D : Layered(D) => Layered(D)'
    BY <1>1 DEF Layered
  <1> QED BY <1>2, <1>3, <1>4, <1>5, <1>6, <1>7

(* An activation whose configuration is left alone keeps its progress, and  *)
(* the one that is on the stack too if nothing new was explored.            *)
LEMMA ProgressKept ==
  ASSUME UNCHANGED prefix, disa' = disa, visited \subseteq visited', \A x \in evs : alte[x] \subseteq alte'[x],
         NEW f, Known(f), Progress(f), Events(f.size)' = Events(f.size),
         f.pc = "call" => Noted(f.e, Events(f.size), f.d)'
  PROVE  Progress(f)'
  <1> DEFINE C == Events(f.size)
  <1>1. Layered(f.d) /\ \A x \in f.d : x \in evs /\ Left(x, C)
    BY DEF Progress, Layered
  <1>2. f.pc = "again" => f.e \in evs /\ Left(f.e, C) /\ Explored(C \cup {f.e}, f.d)
    BY DEF Progress, Known
  <1>3. C' = C
    OBVIOUS
  <1> HIDE DEF C
  <1>4. Layered(f.d)' /\ \A x \in f.d : Left(x, C)'
    BY <1>1, <1>3, Kept
  <1>5. f.pc = "again" => Left(f.e, C)' /\ Explored(C \cup {f.e}, f.d)'
    BY <1>2, <1>3, Kept
  <1>6. f.pc \in {"unfold", "call", "again"} => disa'[f.e] = f.d /\ f.e \notin f.d
    BY DEF Progress
  <1> QED BY <1>4, <1>5, <1>6 DEF Progress, C

LEMMA NotedKept ==
  ASSUME UNCHANGED prefix, UNCHANGED <<alte, visited>>
  PROVE  /\ \A x, C, D : Noted(x, C, D) => Noted(x, C, D)'
         /\ Maximal => Maximal'
  <1>1. /\ evs' = evs /\ past' = past /\ icnf' = icnf /\ \A S : Configuration(S)' <=> Configuration(S)
        /\ \A C : Extensions(C)' = Extensions(C)
    BY SamePrefix DEF prefix
  <1>2. \A x, P : Recorded(x, P)' <=> Recorded(x, P)
    BY <1>1 DEF Recorded, Extends
  <1>3. \A M, D : Justifies(M, D)' <=> Justifies(M, D)
    BY <1>1 DEF Justifies
  <1>4. \A x, C, D : Noted(x, C, D) => Noted(x, C, D)'
    BY <1>1, <1>2, <1>3 DEF Noted
  <1>5. Maximal => Maximal'
    BY <1>1 DEF Maximal
  <1> QED BY <1>4, <1>5

(* The activation that returns has done its part, and so the caller finds   *)
(* done what it called explore for.                                         *)
LEMMA ReturnCovers ==
  ASSUME EInv, First, frames # << >>, job' = {}, frames' = Callers, UNCHANGED stak, Top.pc # "call",
         NEW C, C = Events(Top.size), NEW D, D = Top.d, Explored(C, D)'
  PROVE  Returned'
  <1> DEFINE n == Len(frames)
  <1>i. /\ Types /\ Stack /\ Running /\ Chain /\ n \in Nat \ {0} /\ Top = frames[n]
        /\ \A i \in 1..n : frames[i] \in Activations
    BY TopFacts DEF EInv
  <1>e. \A k : Events(k)' = Events(k)
    BY DEF Events
  <1>1. Len(frames') = n - 1 /\ (frames' # << >> => n - 1 \in Nat \ {0} /\ Top' = frames[n - 1])
    BY <1>i, Returns
  <1>2. CASE frames' = << >>
    <2>1. n = 1
      BY <1>1, <1>2, <1>i
    <2>2. C = Events(1) /\ D = {}
      BY <2>1, <1>i DEF First, Chain
    <2>3. Events(1) = {bot}
      BY <1>i DEF Events, Stack
    <2>4. Explored({bot}, {})'
      BY <2>2, <2>3
    <2> QED BY <2>4, <1>2 DEF Returned, At
  <1>3. CASE frames' # << >>
    <2>0. PICK p : p = frames[n - 1]
      OBVIOUS
    <2>1. n - 1 \in 1..n /\ n - 1 < n /\ (n - 1) + 1 = n /\ Top' = p /\ p \in Activations
      BY <1>1, <1>3, <1>i, <2>0
    <2>2. p.pc \in {"call", "again"} /\ Follows(p, Top)
      <3>1. Follows(frames[n - 1], frames[(n - 1) + 1])
        BY <1>i, <2>1 DEF Chain
      <3> QED BY <1>i, <2>0, <2>1, <3>1 DEF Running
    <2>3. p.pc = "call" => C = Events(p.size) \cup {p.e} /\ D = p.d
      <3> SUFFICES ASSUME p.pc = "call" PROVE C = Events(p.size) \cup {p.e} /\ D = p.d
        OBVIOUS
      <3>1. Top.size = p.size + 1 /\ Top.d = p.d /\ p.size \in Nat \ {0}
        BY <2>1, <2>2 DEF Follows, Activations
      <3>2. p.size < Len(stak) /\ stak[p.size + 1] = p.e
        BY <1>i, <2>0, <2>1 DEF Running
      <3>3. Top.size \in 1..Len(stak) /\ Top.size - 1 = p.size
        BY <1>i, <3>1, <3>2 DEF Types
      <3>4. Events(Top.size) = Events(Top.size - 1) \cup {stak[Top.size]}
        BY <1>i, <3>3, StackFacts
      <3> QED BY <3>1, <3>2, <3>3, <3>4
    <2>4. p.pc = "again" => C = Events(p.size) /\ D = p.d \cup {p.e}
      BY <2>2 DEF Follows
    <2>5. At("call")' => Explored(Events(Top.size) \cup {Top.e}, Top.d)'
      <3>1. At("call")' => Explored(Events(p.size) \cup {p.e}, p.d)'
        BY <2>1, <2>3, <1>e, Zenon DEF At
      <3> QED BY <2>1, <3>1
    <2>6. At("again")' => Explored(Events(Top.size), Disabled)'
      <3>1. At("again")' => Explored(Events(p.size), p.d \cup {p.e})'
        BY <2>1, <2>4, <1>e, Zenon DEF At
      <3> QED BY <2>1, <3>1 DEF Disabled
    <2> QED BY <2>5, <2>6, <1>3 DEF Returned
  <1> QED BY <1>2, <1>3

-----------------------------------------------------------------------------
(* The steps of explore in stateful mode keep to what CInv says.  The end   *)
(* of an activation: all above its configuration either takes the event it  *)
(* chose or conflicts with it.                                              *)
LEMMA ReturnCov == ASSUME EInv, First, Covering, Return PROVE Covering'
  <1>i. /\ IInv /\ Types /\ frames # << >> /\ job = {} /\ job' = job /\ Top.pc = "again" /\ frames' = Callers
        /\ UNCHANGED prefix /\ UNCHANGED <<disa, alte, visited>> /\ stak' = stak /\ UNCHANGED <<alte, visited>>
        /\ Top \in Active
    BY TopFacts DEF EInv, Return, At, vars, prefix
  <1>e. \A k : Events(k)' = Events(k)
    BY <1>i DEF Events
  <1>0. PICK C, D, x : C = Events(Top.size) /\ D = Top.d /\ x = Top.e
    OBVIOUS
  <1>1. Explored(C, D)
    <2>1. Explored(C \cup {x}, D) /\ Explored(C, D \cup {x})
      BY <1>0, <1>i DEF Covering, Progress, Returned, At, Disabled
    <2>2. x \in evs /\ past[x] \subseteq C
      BY <1>0, <1>i DEF EInv, Knowledge, Known, Extensions, Extends
    <2> QED BY <1>i, <2>1, <2>2, TakenOrNot
  <1>2. Explored(C, D)'
    BY <1>1, <1>i, Kept
  <1>3. Returned'
    BY <1>0, <1>2, <1>i, ReturnCovers
  <1>4. ASSUME NEW f \in Active' PROVE Progress(f)'
    <2>1. f \in Active /\ Known(f) /\ Progress(f)
      BY <1>4, <1>i, Returns DEF EInv, Knowledge, Covering
    <2>2. f.pc = "call" => Noted(f.e, Events(f.size), f.d)'
      BY <2>1, <1>i, <1>e, NotedKept DEF Progress
    <2> QED BY <2>1, <2>2, <1>e, <1>i, ProgressKept
  <1> QED BY <1>3, <1>4, <1>i, NotedKept DEF Covering

(* explore at a maximal configuration: it is explored, and for each of its  *)
(* events the alternatives that lead out of it are recorded.                *)
LEMMA NotesAlternatives ==
  ASSUME EInv, ExploreMaximal, NEW f \in Active, f.pc = "call", disa[f.e] = f.d,
         NEW P, Configuration(P), Events(f.size) \subseteq P, P \subseteq conf, Justifies(P, f.d)
  PROVE  Recorded(f.e, P)'
  <1>i. /\ IInv /\ Types /\ Stack /\ Running /\ Chain /\ frames # << >>
        /\ evs' = evs /\ past' = past /\ icnf' = icnf
    BY DEF EInv, ExploreMaximal, At, vars
  <1>0. PICK e, C : e = f.e /\ C = Events(f.size)
    OBVIOUS
  <1>1. e \in conf /\ e \in evs /\ f.size \in 1..Len(stak) /\ f.size < Len(stak) /\ stak[f.size + 1] = e
        /\ Len(stak) \in Nat \ {0}
    <2>1. f.size \in 1..Len(stak) /\ e \in conf /\ Len(stak) \in Nat \ {0}
      BY <1>0, <1>i, ActiveFacts, StackFacts
    <2>2. f.size < Len(stak) /\ stak[f.size + 1] = e
      BY <1>0, <1>i DEF Running, Active
    <2> QED BY <2>1, <2>2, <1>i DEF IInv, TypeOK
  <1>2. Below(e) \subseteq C
    <2> SUFFICES ASSUME NEW i \in 1..Len(stak), NEW k \in 1..Len(stak), i < k, stak[k] = e
                 PROVE  stak[i] \in C
      BY DEF Below
    <2>1. k <= f.size + 1
      <3> SUFFICES ASSUME f.size + 1 < k PROVE FALSE
        BY <1>1
      <3>1. stak[k] \notin Events(k - 1)
        BY <1>i DEF Stack
      <3>2. f.size + 1 \in 1..(k - 1)
        BY <1>1
      <3> QED BY <3>1, <3>2, <1>1 DEF Events
    <2>2. i \in 1..f.size
      BY <2>1, <1>1
    <2> QED BY <2>2, <1>0 DEF Events
  <1>3. ASSUME NEW y \in icnf[e], Extends(y, P)
        PROVE  P \cup {y} \subseteq V(y) /\ computeV(e, y)
    <2>1. y \in evs /\ pred[y] \subseteq past[y] /\ past[y] \subseteq P /\ icnf[y] \cap P = {} /\ P \subseteq evs
      BY <1>1, <1>3, <1>i DEF Extends, IInv, Causality, TypeOK, Configuration
    <2>2. ASSUME NEW c \in icnf[y] \cap conf PROVE P \cap Above(c) = {}
      BY <2>1, <2>2 DEF Above, Configuration
    <2>3. P \cup {y} \subseteq V(y)
      BY <2>2, Zenon DEF V
    <2>4. f.d \subseteq Conflicts(V(y))
      <3> SUFFICES ASSUME NEW x \in f.d PROVE x \in Conflicts(V(y))
        OBVIOUS
      <3>1. PICK c \in P : c \in icnf[x]
        BY DEF Justifies
      <3>2. x \in evs /\ c \in evs
        BY <2>1, <3>1 DEF EInv, Knowledge, Known
      <3>3. x \in icnf[c]
        BY <1>i, <3>1, <3>2 DEF IInv, LocalConfigurations
      <3> QED BY <2>3, <3>3 DEF Conflicts
    <2>5. Below(e) \subseteq P
      BY <1>0, <1>2
    <2> QED BY <1>0, <2>1, <2>3, <2>4, <2>5 DEF computeV
  <1>4. alte'[e] = alte[e] \cup {V(y) : y \in {x \in icnf[e] : computeV(e, x)}}
    BY <1>1 DEF ExploreMaximal
  <1>5. ASSUME NEW y \in icnf[e], Extends(y, P) PROVE \E v \in alte'[e] : P \cup {y} \subseteq v
    BY <1>3, <1>4, <1>5
  <1>6. \A y : Extends(y, P)' <=> Extends(y, P)
    BY <1>i DEF Extends
  <1> QED BY <1>0, <1>5, <1>6, <1>i DEF Recorded

LEMMA MaximalCov == ASSUME EInv, First, Covering, ExploreMaximal PROVE Covering'
  <1>i. /\ IInv /\ Types /\ Stack /\ Running /\ Chain /\ frames # << >> /\ job = {} /\ job' = job
        /\ Top.pc = "explore" /\ Top.en = {} /\ frames' = Callers
        /\ UNCHANGED prefix /\ disa' = disa /\ stak' = stak /\ visited' = visited \cup {conf} /\ Top \in Active
    BY TopFacts DEF EInv, ExploreMaximal, At, vars, prefix
  <1>e. \A k : Events(k)' = Events(k)
    BY <1>i DEF Events
  <1>a. \A x \in evs : alte[x] \subseteq alte'[x]
    BY DEF ExploreMaximal
  <1>c. evs' = evs /\ (\A S : Configuration(S)' <=> Configuration(S)) /\ \A C : Extensions(C)' = Extensions(C)
    BY <1>i, SamePrefix DEF prefix
  <1>1. conf = Events(Top.size) /\ Extensions(conf) = {} /\ Configuration(conf)
    <2>1. conf = Events(Top.size)
      BY <1>i DEF Stack, Running
    <2>2. Extensions(conf) = {}
      BY <2>1, <1>i DEF EInv, Knowledge, Known
    <2> QED BY <2>1, <2>2, <1>i DEF IInv, TypeOK, StackIsConfiguration, Configuration
  <1>2. Maximal'
    BY <1>1, <1>c, <1>i DEF Covering, Maximal
  <1>3. Returned'
    <2>0. PICK C, D : C = Events(Top.size) /\ D = Top.d
      OBVIOUS
    <2>1. ASSUME NEW M \in SUBSET evs, Configuration(M), C \subseteq M PROVE Covered(M)'
      <3>1. M = conf
        BY <2>0, <2>1, <1>1, <1>i, NothingAbove
      <3> QED BY <3>1, <1>i DEF Covered
    <2>2. Explored(C, D)'
      BY <2>1, <1>c DEF Explored
    <2> QED BY <2>0, <2>2, <1>i, ReturnCovers
  <1>4. ASSUME NEW f \in Active' PROVE Progress(f)'
    <2>1. f \in Active /\ Known(f) /\ Progress(f)
      BY <1>4, <1>i, Returns DEF EInv, Knowledge, Covering
    <2>2. ASSUME f.pc = "call" PROVE Noted(f.e, Events(f.size), f.d)'
      <3>0. PICK C : C = Events(f.size)
        OBVIOUS
      <3>1. disa[f.e] = f.d /\ Noted(f.e, C, f.d) /\ f.e \in evs
        BY <2>1, <2>2, <3>0 DEF Progress, Known
      <3>2. ASSUME NEW W \in visited \cup {conf}, W \cap f.d = {},
                   NEW P \in SUBSET evs, Configuration(P), C \subseteq P, P \subseteq W, Justifies(P, f.d)
            PROVE  Recorded(f.e, P)'
        <4>1. CASE W \in visited
          <5>1. Recorded(f.e, P)
            BY <3>1, <3>2, <4>1 DEF Noted
          <5> QED BY <5>1, <3>1, <1>a, <1>i, Kept
        <4>2. CASE W = conf
          BY <3>0, <3>1, <3>2, <4>2, <2>1, <2>2, NotesAlternatives
        <4> QED BY <3>2, <4>1, <4>2
      <3>3. \A M, D : Justifies(M, D)' <=> Justifies(M, D)
        BY <1>a, <1>i, Kept
      <3>4. Noted(f.e, C, f.d)'
        BY <3>2, <3>3, <1>c, <1>i DEF Noted
      <3> QED BY <3>0, <3>4, <1>e
    <2> QED BY <2>1, <2>2, <1>e, <1>a, <1>i, ProgressKept
  <1> QED BY <1>2, <1>3, <1>4 DEF Covering

(* explore is called for the first time: nothing is explored or disabled.   *)
LEMMA StartCov == ASSUME EInv, Start PROVE Covering'
  <1>1. visited' = {} /\ frames' = <<Frame(1, Extensions(conf), {}, {})>>
    BY DEF EInv, Running, Start
  <1>2. Len(frames') = 1 /\ frames' # << >> /\ frames'[1].pc = "explore" /\ frames'[1].d = {} /\ Top' = frames'[1]
    BY <1>1 DEF Frame, Top
  <1>3. \A f \in Active' : f.pc = "explore" /\ f.d = {}
    BY <1>2 DEF Active
  <1>4. Returned'
    BY <1>2 DEF Returned, At
  <1>5. Maximal'
    BY <1>1 DEF Maximal
  <1>6. Layered({})'
    BY DEF Layered
  <1>7. \A f \in Active' : Progress(f)'
    BY <1>3, <1>6 DEF Progress
  <1> QED BY <1>4, <1>5, <1>7 DEF Covering

(* An event whose disabled set is not replaced stays left behind. *)
LEMMA LeftSame ==
  ASSUME UNCHANGED prefix, UNCHANGED <<alte, visited>>, NEW x, disa'[x] = disa[x], NEW C, Left(x, C)
  PROVE  Left(x, C)'
  <1>1. evs' = evs /\ past' = past /\ icnf' = icnf /\ \A S : Configuration(S)' <=> Configuration(S)
    BY SamePrefix DEF prefix
  <1>2. \A M : Justifies(M, disa[x])' <=> Justifies(M, disa[x])
    BY <1>1 DEF Justifies
  <1>3. \A P : Covered(P)' <=> Covered(P)
    BY DEF Covered
  <1>4. \A P : Recorded(x, P)' <=> Recorded(x, P)
    BY <1>1 DEF Recorded, Extends
  <1> QED BY <1>1, <1>2, <1>3, <1>4 DEF Left

(* explore chooses an event: it is new to every activation, so that no      *)
(* disabled set anyone relies on is replaced.                               *)
LEMMA EventCov == ASSUME EInv, Covering, NEW e \in evs, ExploreEvent(e) PROVE Covering'
  <1>0. PICK g : g = [Top EXCEPT !.pc = "unfold", !.e = e]
    OBVIOUS
  <1>i. /\ IInv /\ Types /\ Stack /\ Running /\ Chain /\ Alternative /\ frames # << >> /\ job = {} /\ job' = {e}
        /\ Top.pc = "explore" /\ e \in Candidates /\ frames' = Set(g) /\ disa' = [disa EXCEPT ![e] = Top.d]
        /\ UNCHANGED prefix /\ UNCHANGED <<alte, visited>> /\ stak' = stak /\ Top \in Active /\ Top \in Activations
        /\ disa \in [evs -> SUBSET Nat] /\ e \in Nat
    BY <1>0, TopFacts DEF EInv, ExploreEvent, At, vars, prefix, Types, IInv, TypeOK
  <1>e. \A k : Events(k)' = Events(k)
    BY <1>i DEF Events
  <1>g. g \in Activations /\ g.pc = "unfold" /\ g.size = Top.size /\ g.d = Top.d /\ g.e = e
    BY <1>0, <1>i, Zenon DEF Activations
  <1>1. Active' \subseteq Active \cup {g} /\ Top' = g
    BY <1>g, <1>i, Moves
  <1>2. e \notin conf /\ icnf[e] \cap conf = {}
    <2>1. conf = Events(Top.size) /\ e \in Top.en
      BY <1>i DEF Stack, Running, Candidates
    <2>2. e \in Extensions(conf)
      BY <2>1, <1>i DEF EInv, Knowledge, Known
    <2> QED BY <2>2 DEF Extensions, Extends
  <1>3. e \notin Top.d
    <2>1. Top.alt # {} => e \in Top.alt
      BY <1>i DEF Candidates
    <2>2. Configuration(conf \cup Top.alt) /\ \A x \in Top.d : icnf[x] \cap (conf \cup Top.alt) # {}
      BY <1>i DEF Alternative
    <2>3. icnf[e] \cap (conf \cup Top.alt) = {}
      BY <1>2, <2>1, <2>2 DEF Configuration, ConflictFree
    <2> QED BY <2>2, <2>3
  <1>4. \A x : x # e => disa'[x] = disa[x]
    BY <1>i
  <1>5. evs' = evs /\ disa'[e] = Top.d
    BY <1>i DEF prefix
  <1>6. ASSUME NEW f \in Active PROVE Progress(f)'
    <2>0. PICK C : C = Events(f.size)
      OBVIOUS
    <2>1. /\ Progress(f) /\ f.d \subseteq Top.d
          /\ f # Top => f.pc \in {"call", "again"} /\ (f.pc = "again" => f.e \in Top.d)
          /\ f.pc = "call" => f.e \in conf
      BY <1>i, ActiveFacts DEF Covering
    <2>2. f.pc \in {"call", "again", "unfold"} => f.pc # "unfold" /\ f.e # e
      BY <1>2, <1>3, <1>i, <2>1
    <2>3. e \notin f.d /\ Layered(f.d) /\ \A x \in f.d : Left(x, C)
      BY <1>3, <2>0, <2>1 DEF Progress
    <2>4. Layered(f.d)'
      <3>1. \A x \in f.d : disa'[x] = disa[x]
        BY <1>4, <2>3
      <3> QED BY <1>5, <2>3, <3>1 DEF Layered
    <2>5. \A x \in f.d : Left(x, C)'
      BY <1>4, <1>i, <2>3, LeftSame
    <2>6. f.pc = "call" => Noted(f.e, C, f.d)'
      BY <2>0, <2>1, <1>i, NotedKept DEF Progress
    <2>7. f.pc = "again" => Left(f.e, C)'
      BY <2>0, <2>1, <2>2, <1>4, <1>i, LeftSame DEF Progress
    <2>8. f.pc = "again" => Explored(C \cup {f.e}, f.d)'
      <3>1. \A S, D : Explored(S, D) => Explored(S, D)'
        <4>1. /\ evs' = evs /\ icnf' = icnf /\ \A S : Configuration(S)' <=> Configuration(S)
          BY <1>i, SamePrefix DEF prefix
        <4> QED BY <4>1, <1>i DEF Explored, Justifies, Covered
      <3> QED BY <3>1, <2>0, <2>1 DEF Progress
    <2>9. f.pc \in {"unfold", "call", "again"} => disa'[f.e] = f.d /\ f.e \notin f.d
      BY <2>1, <2>2, <1>4 DEF Progress
    <2> QED BY <2>0, <2>4, <2>5, <2>6, <2>7, <2>8, <2>9, <1>e DEF Progress
  <1>7. Progress(g)'
    <2>0. PICK t : t = Top
      OBVIOUS
    <2>1. Progress(t)' /\ t.d = g.d /\ t.size = g.size
      BY <2>0, <1>6, <1>g, <1>i
    <2>2. disa'[g.e] = g.d /\ g.e \notin g.d /\ g.pc = "unfold"
      BY <1>g, <1>3, <1>5
    <2> QED BY <2>1, <2>2 DEF Progress
  <1>8. Returned'
    BY <1>1, <1>g, <1>i DEF Returned, At
  <1>9. Maximal'
    BY <1>i, NotedKept DEF Covering
  <1> QED BY <1>1, <1>6, <1>7, <1>8, <1>9 DEF Covering

(* The chosen event is pushed and explore called: above what the activation *)
(* has now, nothing is explored yet except with disabled events.            *)
LEMMA UnfoldCov == ASSUME EInv, Covering, Unfold PROVE Covering'
  <1>p. /\ Top \in Activations /\ Top \in Active /\ Top.pc = "unfold" /\ Len(stak) = Top.size
        /\ conf = Events(Top.size) /\ Top.e \in evs /\ Push(Top.e)
    BY PushesExtension
  <1>i. /\ IInv /\ Types /\ Stack /\ Running /\ Chain /\ frames # << >> /\ Visited(Top) /\ Progress(Top) /\ Known(Top)
        /\ UNCHANGED prefix /\ UNCHANGED <<disa, alte, visited>> /\ UNCHANGED <<alte, visited>>
        /\ stak' = Append(stak, Top.e) /\ Top.e \in Nat
    BY <1>p DEF EInv, History, Covering, Unfold, push, IInv, TypeOK, Knowledge
  <1>0. PICK g, f, C, e : /\ g = [Top EXCEPT !.pc = "call"] /\ C = Events(Top.size) /\ e = Top.e
                          /\ f = Frame(Len(stak) + 1, Extensions(conf \cup {Top.e}), Top.d, Top.alt \ {Top.e})
    OBVIOUS
  <1>g. g \in Activations /\ g.pc = "call" /\ g.size = Top.size /\ g.d = Top.d /\ g.e = Top.e
    BY <1>0, <1>p, Zenon DEF Activations
  <1>f. f \in Activations /\ f.pc = "explore" /\ f.size = Len(stak) + 1 /\ f.d = Top.d
    <2>1. Len(stak) + 1 \in Nat \ {0}
      BY <1>i DEF Types
    <2>2. Extensions(conf \cup {Top.e}) \in SUBSET Nat
      BY <1>i DEF Extensions, IInv, TypeOK
    <2>3. Top.d \in SUBSET Nat /\ Top.alt \ {Top.e} \in SUBSET Nat
      BY <1>p DEF Activations
    <2> QED BY <1>0, <2>1, <2>2, <2>3 DEF Frame, Activations, bot
  <1>1. Active' \subseteq Active \cup {g, f} /\ Top' = f
    <2>1. frames' = Append(Set(g), f)
      BY <1>0 DEF Unfold, Goto
    <2> QED BY <2>1, <1>g, <1>f, <1>i, Calls
  <1>2. /\ \A k \in 0..Len(stak) : Events(k)' = Events(k)
        /\ Events(f.size)' = C \cup {e}
    <2>1. Len(stak) + 1 \in Nat
      BY <1>i DEF Types
    <2> QED BY <1>0, <1>f, <1>i, <1>p, <2>1, Pushed
  <1>3. ASSUME NEW h \in Active PROVE Progress(h)'
    <2>1. Progress(h) /\ Known(h) /\ h.size \in 1..Len(stak)
      BY <1>i, ActiveFacts DEF EInv, Knowledge, Covering
    <2>2. Events(h.size)' = Events(h.size)
      BY <1>2, <2>1
    <2>3. h.pc = "call" => Noted(h.e, Events(h.size), h.d)'
      BY <2>1, <2>2, <1>i, NotedKept DEF Progress
    <2> QED BY <2>1, <2>2, <2>3, <1>i, ProgressKept
  <1>4. PICK t : t = Top
    OBVIOUS
  <1>5. Progress(t)' /\ t.d = g.d /\ t.size = g.size /\ t.e = g.e /\ t.pc = "unfold" /\ C = Events(g.size)'
    <2>1. Top.size \in 0..Len(stak)
      BY <1>p DEF Activations
    <2> QED BY <1>0, <1>2, <1>3, <1>4, <1>g, <1>p, <2>1
  <1>6. Progress(g)'
    <2>1. \A W \in visited : W \cap g.d # {}
      BY <1>i, <1>p, <1>g DEF Visited
    <2>2. Noted(g.e, C, g.d)'
      BY <2>1, <1>i DEF Noted
    <2> QED BY <1>5, <1>g, <2>2 DEF Progress
  <1>7. Progress(f)'
    <2>1. Layered(f.d)' /\ \A x \in f.d : Left(x, C)'
      BY <1>5, <1>f, <1>g DEF Progress
    <2>2. \A x \in f.d : Left(x, C \cup {e})'
      BY <2>1 DEF Left
    <2>3. \A x \in f.d : Left(x, Events(f.size))'
      BY <2>2, <1>2 DEF Left
    <2> QED BY <2>1, <2>3, <1>f DEF Progress
  <1>8. Returned'
    BY <1>1, <1>f, <1>i DEF Returned, At, Unfold
  <1>9. Maximal'
    BY <1>i, NotedKept DEF Covering
  <1> QED BY <1>1, <1>3, <1>6, <1>7, <1>8, <1>9 DEF Covering

(* When the call with e returns, e can be left behind: all with e is        *)
(* explored, and each maximal configuration that was explored with e has    *)
(* recorded the ways around e.                                              *)
LEMMA LeavesEvent ==
  ASSUME IInv, Maximal, NEW e, NEW C, NEW D, D \subseteq evs, disa[e] = D,
         Explored(C \cup {e}, D), Noted(e, C, D)
  PROVE  Left(e, C)
  <1> SUFFICES ASSUME NEW P \in SUBSET evs, Configuration(P), C \subseteq P, Configuration(P \cup {e}), Justifies(P, D)
               PROVE  Covered(P \cup {e}) /\ Recorded(e, P)
    BY DEF Left
  <1>1. Covered(P \cup {e})
    <2>1. P \cup {e} \in SUBSET evs /\ C \cup {e} \subseteq P \cup {e} /\ Justifies(P \cup {e}, D)
      BY DEF Configuration, Justifies
    <2> QED BY <2>1 DEF Explored
  <1>2. PICK W \in visited : P \cup {e} \subseteq W
    BY <1>1 DEF Covered
  <1>3. W \cap D = {}
    <2>1. Configuration(W)
      BY DEF Maximal
    <2> QED BY <1>2, <2>1 DEF Justifies, Configuration, ConflictFree
  <1>4. Recorded(e, P)
    BY <1>2, <1>3 DEF Noted
  <1> QED BY <1>1, <1>4

(* If alt2 finds no alternative, there is nothing left to explore. *)
LEMMA NothingLeft ==
  ASSUME IInv, Bounded, NEW C, NEW E, Layered(E), \A x \in E : past[x] \subseteq C /\ Left(x, C),
         Configuration(C), ~Justifies(C, E), \A x \in E : \A v \in alte[x] : Configuration(v),
         \A x \in E : \A v \in alte[x] : ~(E \subseteq Conflicts(v) /\ Conflicts(v) \cap C = {})
  PROVE  Explored(C, E)
  <1> SUFFICES ASSUME NEW M \in SUBSET evs, Configuration(M), C \subseteq M, Justifies(M, E)
               PROVE  FALSE
    BY DEF Explored
  <1>1. PICK x \in E : \E v \in alte[x] : C \subseteq v /\ Justifies(v, E)
    BY AlternativeThere
  <1>2. PICK v \in alte[x] : C \subseteq v /\ Justifies(v, E)
    BY <1>1
  <1>3. Configuration(v) /\ \A a, b \in evs : a \in icnf[b] => b \in icnf[a]
    BY DEF IInv, LocalConfigurations
  <1>4. E \subseteq Conflicts(v)
    BY <1>2, <1>3 DEF Justifies, Conflicts, Configuration, Layered
  <1>5. Conflicts(v) \cap C = {}
    BY <1>2, <1>3 DEF Conflicts, Configuration, ConflictFree
  <1> QED BY <1>4, <1>5

LEMMA BacktrackCov == ASSUME EInv, Bounded, Covering, Backtrack PROVE Covering'
  <1>0. PICK g, C, D, e : g = [Top EXCEPT !.pc = "again"] /\ C = Events(Top.size) /\ D = Top.d /\ e = Top.e
    BY Zenon
  <1>p. /\ Top \in Activations /\ Top \in Active /\ Top.pc = "call" /\ stak[Len(stak)] = e
        /\ e \in evs /\ e \notin C /\ conf \ {e} = C /\ Pop(e)
    BY <1>0, PopsMaximal
  <1>i. /\ IInv /\ Types /\ Stack /\ Running /\ Chain /\ frames # << >> /\ job = {} /\ job' = job
        /\ Progress(Top) /\ Known(Top) /\ Maximal /\ Returned
        /\ UNCHANGED prefix /\ UNCHANGED <<disa, alte, visited>> /\ UNCHANGED <<alte, visited>>
    BY <1>p DEF EInv, Covering, Backtrack, At, Pop, pop, Knowledge
  <1>g. /\ g \in Activations /\ g.pc = "again" /\ g.size = Top.size /\ g.d = D /\ g.e = e
        /\ \A f \in Active \cup {g} : Events(f.size)' = Events(f.size)
    BY <1>0, BacktrackFacts, Zenon
  <1>k. /\ \A x \in D : x \in evs /\ past[x] \subseteq C
        /\ past[e] \subseteq C /\ icnf[e] \cap C = {}
    BY <1>0, <1>i, <1>p DEF Known, Extensions, Extends
  <1>c. Configuration(C)
    <2>1. Top.size \in 0..Len(stak)
      BY <1>i, <1>p, ActiveFacts
    <2>2. \A x \in C : past[x] \subseteq C
      BY <2>1, <1>0, <1>i, StackFacts
    <2> QED BY <2>2, <1>i, <1>p DEF Configuration, ConflictFree, IInv, TypeOK, StackIsConfiguration
  <1>1. /\ Layered(D) /\ disa[e] = D /\ e \notin D /\ Noted(e, C, D) /\ Explored(C \cup {e}, D)
        /\ \A x \in D : Left(x, C)
    BY <1>0, <1>i, <1>p DEF Progress, Returned, At
  <1>2. Left(e, C)
    BY <1>1, <1>i, <1>k, LeavesEvent
  <1>3. Layered(D \cup {e})
    BY <1>1, <1>p, LayerAdded
  <1>4. /\ Layered(D)' /\ Layered(D \cup {e})' /\ Explored(C \cup {e}, D)'
        /\ \A x \in D \cup {e} : Left(x, C)'
    BY <1>1, <1>2, <1>3, <1>i, <1>k, <1>p, Kept
  <1>5. ASSUME NEW f \in Active PROVE Progress(f)'
    <2>1. Progress(f) /\ Known(f) /\ Events(f.size)' = Events(f.size)
      BY <1>g DEF EInv, Knowledge, Covering
    <2>2. f.pc = "call" => Noted(f.e, Events(f.size), f.d)'
      BY <2>1, <1>i, NotedKept DEF Progress
    <2> QED BY <2>1, <2>2, <1>i, ProgressKept
  <1>6. Progress(g)'
    <2>1. Events(g.size)' = C
      BY <1>0, <1>g
    <2>2. disa'[e] = D
      BY <1>1, <1>i
    <2> QED BY <1>1, <1>4, <1>g, <2>1, <2>2 DEF Progress
  <1>7. Maximal'
    BY <1>i, NotedKept
  <1>8. CASE frames' = Set(g) /\ \A v \in UNION {alte[x] : x \in Disabled} : ~filter_alte(conf \ {e}, v)
    <2>1. Active' \subseteq Active \cup {g} /\ Top' = g /\ frames' # << >>
      BY <1>8, <1>g, <1>i, Moves
    <2>2. Explored(C, D \cup {e})
      <3>1. \A x \in D \cup {e} : \A v \in alte[x] : ~(D \cup {e} \subseteq Conflicts(v) /\ Conflicts(v) \cap C = {})
        BY <1>0, <1>8, <1>p DEF filter_alte, Disabled
      <3>2. \A x \in D \cup {e} : \A v \in alte[x] : Configuration(v)
        <4>1. Leaving = {}
          BY <1>i, <1>p DEF EInv, Pruning, Leaving
        <4> QED BY <4>1, <1>k, <1>p DEF EInv, Alternatives
      <3>3. ~Justifies(C, D \cup {e})
        BY <1>k DEF Justifies
      <3>4. \A x \in D \cup {e} : past[x] \subseteq C /\ Left(x, C)
        BY <1>1, <1>2, <1>k
      <3> QED BY <3>1, <3>2, <3>3, <3>4, <1>3, <1>c, <1>i, NothingLeft
    <2>3. Explored(C, D \cup {e})'
      BY <2>2, <1>i, Kept
    <2>4. Returned'
      <3>1. At("again")' => Explored(Events(g.size), g.d \cup {g.e})'
        BY <2>3, <1>0, <1>g
      <3> QED BY <2>1, <3>1, <1>g DEF Returned, At, Disabled
    <2> QED BY <2>1, <2>4, <1>5, <1>6, <1>7 DEF Covering
  <1>9. ASSUME NEW f, f \in Activations, f.pc = "explore", f.size = Top.size, f.d = D \cup {e},
               frames' = Append(Set(g), f)
        PROVE  Covering'
    <2>1. Active' \subseteq Active \cup {g, f} /\ Top' = f /\ frames' # << >>
      BY <1>9, <1>g, <1>i, Calls
    <2>2. Events(f.size)' = C
      BY <1>0, <1>9, <1>g
    <2>3. Progress(f)'
      BY <1>4, <1>9, <2>2 DEF Progress
    <2>4. Returned'
      BY <2>1, <1>9 DEF Returned, At
    <2> QED BY <2>1, <2>3, <2>4, <1>5, <1>6, <1>7 DEF Covering
  <1>10. ASSUME NEW x \in Disabled, NEW v \in alte[x],
                frames' = Append(Goto("again"), Frame(Top.size, Top.en, Disabled, v \ (conf \ {e})))
         PROVE  Covering'
    <2>0. PICK f : f = Frame(Top.size, Top.en, Disabled, v \ (conf \ {e}))
      OBVIOUS
    <2>1. x \in evs /\ Disabled = D \cup {e} /\ Disabled \in SUBSET Nat
      BY <1>0, <1>k, <1>p, <1>i DEF Disabled, IInv, TypeOK
    <2>2. v \in SUBSET Nat
      BY <2>1, <1>10, <1>i DEF Types
    <2>3. Top.size \in Nat \ {0} /\ Top.en \in SUBSET Nat
      BY <1>p DEF Activations
    <2>4. f \in Activations /\ f.pc = "explore" /\ f.size = Top.size /\ f.d = D \cup {e}
      BY <2>0, <2>1, <2>2, <2>3 DEF Frame, Activations, bot
    <2>5. frames' = Append(Set(g), f)
      BY <1>0, <1>10, <2>0 DEF Goto
    <2> QED BY <2>4, <2>5, <1>9
  <1>11. \/ /\ frames' = Set(g)
            /\ \A v \in UNION {alte[x] : x \in Disabled} : ~filter_alte(conf \ {e}, v)
         \/ \E x \in Disabled : \E v \in alte[x] :
              frames' = Append(Goto("again"), Frame(Top.size, Top.en, Disabled, v \ (conf \ {e})))
    BY <1>0, <1>p DEF Backtrack, Goto
  <1> QED BY <1>8, <1>10, <1>11

-----------------------------------------------------------------------------
(* A new event that is found in time: no maximal configuration that was     *)
(* explored holds its history.                                              *)
InTime(h) ==
  /\ evs' = evs \cup {cntr} /\ cntr \notin evs
  /\ \A x \in evs : past'[x] = past[x] /\ icnf[x] = icnf'[x] \ {cntr} /\ disa'[x] = disa[x] /\ alte'[x] = alte[x]
  /\ past'[cntr] = localHistory(h) /\ localHistory(h) \subseteq evs
  /\ visited' = visited /\ \A W \in visited : ~(localHistory(h) \subseteq W)

LEMMA NewInTime ==
  ASSUME EInv, NEW h \in SUBSET evs, NEW cnfls \in SUBSET evs, AddEvent(h, cnfls), late' = {}
  PROVE  InTime(h)
  <1>1. /\ evs' = evs \cup {cntr} /\ cntr \notin evs /\ past' = AddTo(past, localHistory(h), {})
        /\ icnf' = AddTo(icnf, cnfls, cnfls) /\ disa' = AddTo(disa, {}, {}) /\ alte' = AddTo(alte, {}, {})
        /\ visited' = visited
    BY Grown DEF EInv, AddEvent, Add
  <1>2. localHistory(h) \subseteq evs /\ icnf \in [evs -> SUBSET evs]
    <2>1. IInv /\ h # {}
      BY DEF EInv, AddEvent, Add, CanAdd
    <2> QED BY <2>1, LocalHistory DEF IInv, TypeOK
  <1>3. past'[cntr] = localHistory(h)
    BY <1>1 DEF AddTo
  <1>4. ASSUME NEW x \in evs
        PROVE  past'[x] = past[x] /\ icnf[x] = icnf'[x] \ {cntr} /\ disa'[x] = disa[x] /\ alte'[x] = alte[x]
    <2>1. x # cntr /\ cntr \notin icnf[x]
      BY <1>1, <1>2
    <2>2. past'[x] = past[x] /\ disa'[x] = disa[x] /\ alte'[x] = alte[x]
      BY <1>1, <2>1 DEF AddTo
    <2>3. icnf'[x] = IF x \in cnfls THEN icnf[x] \cup {cntr} ELSE icnf[x]
      BY <1>1, <2>1 DEF AddTo
    <2> QED BY <2>1, <2>2, <2>3
  <1>5. \A W \in visited : ~(localHistory(h) \subseteq W)
    <2>1. late' = late \cup {x \in {cntr} : \E W \in visited : localHistory(h) \subseteq W}
      BY DEF AddEvent
    <2> QED BY <2>1
  <1> QED BY <1>1, <1>2, <1>3, <1>4, <1>5 DEF InTime

(* What holds of old events is not changed by it, and it is a last event of *)
(* every configuration that has it.                                         *)
LEMMA OldFacts ==
  ASSUME IInv, NEW h, InTime(h)
  PROVE  /\ \A M : Configuration(M)' => /\ Configuration(M \ {cntr}) /\ M \ {cntr} \subseteq evs
                                        /\ cntr \in M => localHistory(h) \subseteq M \ {cntr}
         /\ \A P \in SUBSET evs : \A D \in SUBSET evs : Justifies(P, D)' <=> Justifies(P, D)
         /\ \A P : Covered(P)' <=> Covered(P)
         /\ \A P : Covered(P) => ~(localHistory(h) \subseteq P)
         /\ \A x \in evs : \A P \in SUBSET evs : Recorded(x, P) /\ ~(localHistory(h) \subseteq P) => Recorded(x, P)'
         /\ \A y \in evs : \A P : Extends(y, P)' => Extends(y, P)
  <1>t. past \in [evs -> SUBSET evs]
    BY DEF IInv, TypeOK
  <1>1. ASSUME NEW M, Configuration(M)'
        PROVE  /\ Configuration(M \ {cntr}) /\ M \ {cntr} \subseteq evs
               /\ cntr \in M => localHistory(h) \subseteq M \ {cntr}
    <2>1. M \ {cntr} \subseteq evs
      BY <1>1 DEF Configuration, InTime
    <2>2. \A x \in M \ {cntr} : past[x] \subseteq M \ {cntr}
      BY <1>1, <1>t, <2>1 DEF Configuration, InTime
    <2>3. ConflictFree(M \ {cntr})
      BY <1>1, <2>1 DEF Configuration, ConflictFree, InTime
    <2>4. cntr \in M => localHistory(h) \subseteq M \ {cntr}
      BY <1>1 DEF Configuration, InTime
    <2> QED BY <2>1, <2>2, <2>3, <2>4 DEF Configuration
  <1>2. \A P \in SUBSET evs : \A D \in SUBSET evs : Justifies(P, D)' <=> Justifies(P, D)
    <2> SUFFICES ASSUME NEW P \in SUBSET evs, NEW D \in SUBSET evs, NEW x \in D
                 PROVE  icnf'[x] \cap P = icnf[x] \cap P
      BY DEF Justifies
    <2> QED BY DEF InTime
  <1>3. \A P : Covered(P)' <=> Covered(P)
    BY DEF Covered, InTime
  <1>4. \A P : Covered(P) => ~(localHistory(h) \subseteq P)
    BY DEF Covered, InTime
  <1>5. \A y \in evs : \A P : Extends(y, P)' => Extends(y, P)
    BY DEF Extends, InTime
  <1>6. ASSUME NEW x \in evs, NEW P \in SUBSET evs, Recorded(x, P), ~(localHistory(h) \subseteq P)
        PROVE  Recorded(x, P)'
    <2> SUFFICES ASSUME NEW y \in icnf'[x], Extends(y, P)'
                 PROVE  \E v \in alte'[x] : P \cup {y} \subseteq v
      BY DEF Recorded
    <2>1. y # cntr
      BY <1>6 DEF Extends, InTime
    <2>2. y \in icnf[x]
      BY <2>1 DEF InTime
    <2>3. y \in evs
      BY <2>2 DEF IInv, TypeOK
    <2>4. PICK v \in alte[x] : P \cup {y} \subseteq v
      BY <1>5, <1>6, <2>2, <2>3 DEF Recorded
    <2> QED BY <2>4 DEF InTime
  <1> QED BY <1>1, <1>2, <1>3, <1>4, <1>5, <1>6

(* A configuration with it justifies no disabled events that it had to be   *)
(* explored for: without it, it would have been explored too early.         *)
LEMMA ExploredStays ==
  ASSUME IInv, NEW h, InTime(h), NEW C \in SUBSET evs, NEW D \in SUBSET evs, Layered(D),
         \A x \in D : past[x] \subseteq C /\ Left(x, C), NEW B \in SUBSET evs, C \subseteq B, Explored(B, D)
  PROVE  Explored(B, D)'
  <1> SUFFICES ASSUME NEW M, Configuration(M)', B \subseteq M, Justifies(M, D)'
               PROVE  Covered(M)'
    BY DEF Explored
  <1> DEFINE P == M \ {cntr}
  <1>1. Configuration(P) /\ P \in SUBSET evs /\ (cntr \in M => localHistory(h) \subseteq P)
    BY OldFacts
  <1>2. B \subseteq P
    BY DEF InTime
  <1> HIDE DEF P
  <1>3. Covered(P)
    <2>1. CASE Justifies(P, D)
      BY <1>1, <1>2, <2>1 DEF Explored
    <2>2. CASE ~Justifies(P, D)
      BY <1>1, <1>2, <2>2, OpenCovered
    <2> QED BY <2>1, <2>2
  <1>4. P = M
    <2>1. ~(localHistory(h) \subseteq P)
      BY <1>3, OldFacts, Zenon
    <2>2. cntr \notin M
      BY <1>1, <2>1
    <2> QED BY <2>2 DEF P
  <1> QED BY <1>3, <1>4, OldFacts

LEMMA LeftStays ==
  ASSUME IInv, NEW h, InTime(h), NEW C \in SUBSET evs, NEW D \in SUBSET evs, Layered(D),
         \A x \in D : past[x] \subseteq C /\ Left(x, C), NEW x \in evs, disa[x] \subseteq D, Left(x, C)
  PROVE  Left(x, C)'
  <1> SUFFICES ASSUME NEW M, Configuration(M)', C \subseteq M, Configuration(M \cup {x})', Justifies(M, disa[x])'
               PROVE  Covered(M \cup {x})' /\ Recorded(x, M)'
    <2>1. disa'[x] = disa[x]
      BY DEF InTime
    <2> QED BY <2>1 DEF Left
  <1> DEFINE P == M \ {cntr}
  <1>1. Configuration(P) /\ P \in SUBSET evs /\ (cntr \in M => localHistory(h) \subseteq P)
    BY OldFacts
  <1>2. Configuration(P \cup {x})
    <2>1. (M \cup {x}) \ {cntr} = P \cup {x}
      BY DEF InTime
    <2>2. Configuration((M \cup {x}) \ {cntr})
      BY OldFacts
    <2> QED BY <2>1, <2>2
  <1>3. C \subseteq P
    BY DEF InTime
  <1> HIDE DEF P
  <1>4. Covered(P)
    <2>1. CASE Justifies(P, disa[x])
      <3>1. Covered(P \cup {x})
        BY <1>1, <1>2, <1>3, <2>1 DEF Left
      <3> QED BY <3>1 DEF Covered
    <2>2. CASE ~Justifies(P, disa[x])
      <3>1. ~Justifies(P, D)
        BY <2>2 DEF Justifies
      <3> QED BY <1>1, <1>3, <3>1, OpenCovered
    <2> QED BY <2>1, <2>2
  <1>5. P = M
    <2>1. ~(localHistory(h) \subseteq P)
      BY <1>4, OldFacts, Zenon
    <2>2. cntr \notin M
      BY <1>1, <2>1
    <2> QED BY <2>2 DEF P
  <1>6. Justifies(P, disa[x])
    <2>1. PICK R \in SUBSET evs : R = disa[x] /\ R = disa'[x]
      BY DEF InTime
    <2>2. Justifies(M, R)'
      BY <2>1
    <2>3. Justifies(M, R)
      BY <1>1, <1>5, <2>2, OldFacts
    <2> QED BY <1>5, <2>1, <2>3
  <1>7. Covered(P \cup {x}) /\ Recorded(x, P)
    BY <1>1, <1>2, <1>3, <1>6 DEF Left
  <1> QED BY <1>1, <1>4, <1>5, <1>7, OldFacts

(* An event that unfold finds in time takes nothing away from what was      *)
(* explored and recorded.                                                   *)
LEMMA AddEventCov ==
  ASSUME EInv, Covering, NEW h \in SUBSET evs, NEW cnfls \in SUBSET evs, AddEvent(h, cnfls), late' = {}
  PROVE  Covering'
  <1>i. /\ IInv /\ Types /\ Stack /\ Running /\ Chain /\ Maximal /\ InTime(h)
        /\ job' # {} /\ frames' = frames /\ stak' = stak /\ visited' = visited
    BY NewInTime DEF EInv, Covering, AddEvent
  <1>e. \A k : Events(k)' = Events(k)
    BY <1>i DEF Events
  <1>1. Returned'
    BY <1>i DEF Returned, At
  <1>2. Maximal'
    <2> SUFFICES ASSUME NEW W \in visited PROVE Configuration(W)' /\ Extensions(W)' = {}
      BY <1>i DEF Maximal
    <2>1. Configuration(W) /\ Extensions(W) = {} /\ ~(localHistory(h) \subseteq W)
      BY <1>i DEF Maximal, InTime
    <2>2. Configuration(W)'
      BY <2>1, Grown DEF EInv, AddEvent
    <2>3. ASSUME NEW y \in evs', Extends(y, W)' PROVE FALSE
      <3>1. y # cntr
        BY <2>1, <2>3, <1>i DEF Extends, InTime
      <3>2. y \in evs
        BY <3>1, <1>i DEF InTime
      <3> QED BY <2>1, <2>3, <3>2, <1>i, OldFacts DEF Extensions
    <2> QED BY <2>2, <2>3 DEF Extensions
  <1>3. ASSUME NEW f \in Active PROVE Progress(f)'
    <2>0. PICK C, D, e : C = Events(f.size) /\ D = f.d /\ e = f.e
      OBVIOUS
    <2>1. Known(f) /\ Progress(f) /\ frames # << >>
      BY DEF EInv, Knowledge, Covering, Active
    <2>2. C \in SUBSET evs /\ C = Events(f.size)'
      BY <2>0, <2>1, <1>e, <1>i, ActiveFacts DEF IInv, TypeOK
    <2>3. D \in SUBSET evs /\ Layered(D) /\ \A x \in D : past[x] \subseteq C /\ Left(x, C)
      BY <2>0, <2>1 DEF Known, Progress
    <2>4. Layered(D)'
      <3>1. \A x \in D : x \in evs' /\ disa'[x] = disa[x]
        BY <2>3, <1>i DEF InTime
      <3> QED BY <2>3, <3>1 DEF Layered
    <2>5. \A x \in D : Left(x, C)'
      <3>1. \A x \in D : x \in evs /\ disa[x] \subseteq D
        BY <2>3 DEF Layered
      <3> QED BY <3>1, <2>2, <2>3, <1>i, LeftStays
    <2>6. f.pc \in {"unfold", "call", "again"} => disa'[f.e] = f.d /\ f.e \notin f.d
      BY <2>1, <1>i DEF Known, Progress, InTime
    <2>7. f.pc = "again" => Left(e, C)' /\ Explored(C \cup {e}, D)'
      <3> SUFFICES ASSUME f.pc = "again" PROVE Left(e, C)' /\ Explored(C \cup {e}, D)'
        OBVIOUS
      <3>1. e \in evs /\ disa[e] = D /\ Left(e, C) /\ Explored(C \cup {e}, D)
        BY <2>0, <2>1 DEF Known, Progress
      <3>2. Left(e, C)'
        BY <3>1, <2>2, <2>3, <1>i, LeftStays
      <3>3. C \cup {e} \in SUBSET evs /\ C \subseteq C \cup {e}
        BY <3>1, <2>2
      <3>4. Explored(C \cup {e}, D)'
        BY <3>1, <3>3, <2>2, <2>3, <1>i, ExploredStays
      <3> QED BY <3>2, <3>4
    <2>8. f.pc = "call" => Noted(e, C, D)'
      <3> SUFFICES ASSUME f.pc = "call", NEW W \in visited, W \cap D = {}, NEW P, Configuration(P)', C \subseteq P,
                          P \subseteq W, Justifies(P, D)'
                   PROVE  Recorded(e, P)'
        BY <1>i DEF Noted
      <3>1. e \in evs /\ Noted(e, C, D)
        BY <2>0, <2>1 DEF Known, Progress
      <3>2. W \subseteq evs /\ ~(localHistory(h) \subseteq W)
        BY <1>i DEF Maximal, Configuration, InTime
      <3>3. P \in SUBSET evs /\ P \ {cntr} = P /\ ~(localHistory(h) \subseteq P)
        BY <3>2, <1>i DEF InTime
      <3>4. Configuration(P)
        BY <3>3, <1>i, OldFacts
      <3>5. Justifies(P, D)
        BY <3>3, <2>3, <1>i, OldFacts
      <3>6. Recorded(e, P)
        BY <3>1, <3>3, <3>4, <3>5 DEF Noted
      <3> QED BY <3>1, <3>3, <3>6, <1>i, OldFacts
    <2> QED BY <2>0, <2>2, <2>4, <2>5, <2>6, <2>7, <2>8 DEF Progress
  <1>4. Active' = Active
    BY <1>i DEF Active
  <1> QED BY <1>1, <1>2, <1>3, <1>4 DEF Covering

-----------------------------------------------------------------------------
LEMMA InitCInv == ExploreInit => CInv
  <1> SUFFICES ASSUME ExploreInit PROVE CInv
    OBVIOUS
  <1>1. evs = {bot} /\ frames = << >> /\ job = {bot} /\ visited = {}
    BY DEF ExploreInit, Init
  <1>2. Bounded
    <2>1. \A S \in SUBSET evs : S # {} => S = {0}
      BY <1>1 DEF bot
    <2> QED BY <2>1 DEF Bounded
  <1>3. First
    BY <1>1 DEF First
  <1>4. Covering
    <2>1. Active = {}
      BY <1>1 DEF Active
    <2> QED BY <1>1, <2>1 DEF Covering, Maximal, Returned, At
  <1> QED BY <1>2, <1>3, <1>4 DEF CInv

LEMMA StepCInv == ASSUME EInv, CInv, [ExploreNext]_all PROVE CInv'
  <1>1. Bounded'
    <2>1. IInv /\ Bounded /\ [Next]_vars
      BY StepRefines DEF EInv, CInv
    <2> QED BY <2>1, BoundedStep
  <1>2. First'
    BY ExploreStepInv, FirstStep DEF CInv
  <1>3. ASSUME ~stateless', late' = {} PROVE Covering'
    <2>i. Bounded /\ First
      BY DEF CInv
    <2>1. ~stateless
      BY <1>3 DEF ExploreNext, AddEvent, Start, Unfold, ExploreMaximal, ExploreEvent, Backtrack,
                  Return, ReturnStateless, Prune, Pruned, all
    <2>2. ASSUME NEW h \in SUBSET evs, NEW cnfls \in SUBSET evs, AddEvent(h, cnfls) PROVE Covering'
      <3>1. late = {}
        BY <1>3, <2>2 DEF AddEvent
      <3> QED BY <1>3, <2>1, <2>2, <3>1, AddEventCov DEF CInv
    <2>3. CASE Start
      BY <2>3, StartCov
    <2>4. CASE Unfold \/ ExploreMaximal \/ Backtrack \/ Return
      <3>1. late = {}
        BY <1>3, <2>4 DEF Unfold, ExploreMaximal, Backtrack, Return
      <3>2. Covering
        BY <2>1, <3>1 DEF CInv
      <3> QED BY <2>i, <2>4, <3>2, UnfoldCov, MaximalCov, BacktrackCov, ReturnCov
    <2>5. ASSUME NEW e \in evs, ExploreEvent(e) PROVE Covering'
      <3>1. late = {}
        BY <1>3, <2>5 DEF ExploreEvent
      <3> QED BY <2>1, <2>5, <3>1, EventCov DEF CInv
    <2>6. CASE ReturnStateless \/ Pruned \/ \E x \in evs : Prune(x)
      BY <2>1, <2>6 DEF ReturnStateless, Pruned, Prune, At, EInv, Pruning
    <2>7. CASE UNCHANGED all
      <3>1. late = {}
        BY <1>3, <2>7 DEF all
      <3>2. Covering
        BY <2>1, <3>1 DEF CInv
      <3>3. /\ UNCHANGED prefix /\ UNCHANGED <<disa, alte, visited>> /\ UNCHANGED <<alte, visited>>
            /\ stak' = stak /\ frames' = frames /\ job' = job
        BY <2>7 DEF all, vars, prefix
      <3>4. (\A k : Events(k)' = Events(k)) /\ Active' = Active /\ Top' = Top
        BY <3>3 DEF Events, Active, Top
      <3>5. ASSUME NEW f \in Active PROVE Progress(f)'
        <4>1. Known(f) /\ Progress(f)
          BY <3>2 DEF EInv, Knowledge, Covering
        <4>2. f.pc = "call" => Noted(f.e, Events(f.size), f.d)'
          BY <4>1, <3>3, <3>4, NotedKept DEF Progress
        <4> QED BY <4>1, <4>2, <3>3, <3>4, ProgressKept
      <3>6. Returned'
        <4>1. \A C, D : Explored(C, D) => Explored(C, D)'
          BY <3>3, Kept
        <4> QED BY <4>1, <3>2, <3>3, <3>4 DEF Covering, Returned, At, Disabled
      <3> QED BY <3>2, <3>3, <3>4, <3>5, <3>6, NotedKept DEF Covering
    <2> QED BY <2>2, <2>3, <2>4, <2>5, <2>6, <2>7 DEF ExploreNext
  <1> QED BY <1>1, <1>2, <1>3 DEF CInv

(* EInv and CInv together hold in every state of the exploration. *)
THEOREM CompletenessInvariance == ExploreSpec => [](EInv /\ CInv)
  <1>1. ExploreInit => EInv /\ CInv
    BY ExploreInitInv, InitCInv
  <1>2. (EInv /\ CInv) /\ [ExploreNext]_all => (EInv /\ CInv)'
    BY ExploreStepInv, StepCInv
  <1> QED BY <1>1, <1>2, PTL DEF ExploreSpec

(* When the exploration ends in stateful mode and every event was found in  *)
(* time, explore has visited each maximal configuration of the prefix, and  *)
(* nothing else: between them, the alternatives that computeV records and   *)
(* those that alt2 picks miss none.                                         *)
THEOREM CompleteExploration == ExploreSpec => []VisitsAll
  <1>1. ASSUME EInv, CInv PROVE VisitsAll
    <2> SUFFICES ASSUME ~stateless, late = {}, frames = << >>, job = {}
                 PROVE  visited = {C \in SUBSET evs : Configuration(C) /\ Extensions(C) = {}}
      BY DEF VisitsAll
    <2>1. IInv /\ Maximal /\ Explored({bot}, {})
      BY <1>1 DEF EInv, CInv, Covering, Returned
    <2>2. ASSUME NEW M \in SUBSET evs, Configuration(M), Extensions(M) = {} PROVE M \in visited
      <3>1. bot \in M
        <4>1. CASE M = {}
          BY <4>1, <2>1, <2>2 DEF Extensions, Extends, IInv, Rooted, TypeOK
        <4>2. CASE M # {}
          BY <4>2, <2>1, <2>2 DEF Configuration, IInv, Rooted
        <4> QED BY <4>1, <4>2
      <3>2. Covered(M)
        BY <2>1, <2>2, <3>1 DEF Explored, Justifies
      <3>3. PICK W \in visited : M \subseteq W
        BY <3>2 DEF Covered
      <3>4. W = M
        BY <2>1, <2>2, <3>3, NothingAbove DEF Maximal
      <3> QED BY <3>3, <3>4
    <2>3. \A W \in visited : W \in SUBSET evs /\ Configuration(W) /\ Extensions(W) = {}
      BY <2>1 DEF Maximal, Configuration
    <2> QED BY <2>2, <2>3
  <1> QED BY <1>1, CompletenessInvariance, PTL
=============================================================================
