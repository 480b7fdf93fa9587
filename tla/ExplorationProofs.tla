------------------------- MODULE ExplorationProofs -------------------------
(***************************************************************************)
(* The properties of Exploration for prefixes and recursions of any size.   *)
(* EInv is inductive together with IInv, the invariant of EventStructure;   *)
(* IInv is carried over by showing that every step of the exploration is a  *)
(* step of the event structure or leaves it alone.                          *)
(***************************************************************************)
EXTENDS ExplorationFacts

(* The end of explore in stateless mode: what prune is going to delete is   *)
(* in the prefix and outside of core, and an event that keeps alternatives  *)
(* is needed or about to be deleted.                                        *)
LEMMA ReturnStatelessInv == ASSUME EInv, ReturnStateless PROVE EInv'
  <1> DEFINE e == Top.e
             dels == ({e} \cup UNION alte[e]) \ core
             g == [Top EXCEPT !.pc = "prune", !.dels = dels]
  <1>i. /\ IInv /\ Types /\ Running /\ Chain /\ Knowledge /\ Alternatives /\ Pruning /\ History
        /\ job = {} /\ frames # << >> /\ Top.pc = "again" /\ stateless
        /\ frames' = Set(g) /\ alte' = IF e \in core THEN [alte EXCEPT ![e] = {}] ELSE alte
        /\ UNCHANGED <<vars, stak>> /\ UNCHANGED <<stateless, disa, job, visited>>
    BY DEF EInv, ReturnStateless, At
  <1>1. IInv'
    BY <1>i, NextInv DEF vars
  <1>2. Top \in Activations /\ Top \in Active /\ e \in evs /\ Known(Top) /\ Top.dels = {}
    BY <1>i, TopFacts DEF Pruning, Knowledge, Known
  <1>l. Leaving = {} /\ Live = conf \cup Top.d \cup {e}
    BY <1>i, <1>2 DEF Leaving, Live, Disabled
  <1>3. dels \subseteq evs /\ dels \subseteq Nat /\ dels \cap core = {} /\ (e \notin core => e \in dels)
    <2>1. UNION alte[e] \subseteq evs
      BY <1>i, <1>2, <1>l DEF Alternatives, Configuration
    <2> QED BY <1>i, <1>2, <2>1 DEF IInv, TypeOK
  <1> HIDE DEF dels
  <1>4. /\ g \in Activations /\ g.size = Top.size /\ g.d = Top.d /\ g.pc = "prune" /\ g.e = Top.e
        /\ g.en = Top.en /\ g.dels = dels
    BY <1>2, <1>3, Zenon DEF Activations
  <1> HIDE DEF g, e
  <1>5. /\ frames' \in Seq(Activations) /\ frames' # << >> /\ Top' = g /\ Running' /\ Chain'
        /\ Active' \subseteq Active \cup {g}
    BY <1>i, <1>4, MoveStep
  <1>6. /\ alte' \in [evs -> SUBSET SUBSET Nat]
        /\ \A x \in evs : alte'[x] \subseteq alte[x]
        /\ alte'[e] = {} \/ e \in dels
    BY <1>i, <1>2, <1>3 DEF Types
  <1>7. Types'
    BY <1>i, <1>5, <1>6 DEF Types, vars
  <1>8. Stack' /\ Knowledge'
    <2>1. Known(g)
      BY <1>2, <1>4 DEF Known
    <2> QED BY <1>i, <1>5, <2>1, Quiet DEF Knowledge, EInv
  <1>9. Alternative'
    BY <1>4, <1>5 DEF Alternative
  <1>10. Alternatives'
    <2>1. Live' = conf \cup Top.d /\ Leaving' = dels
      BY <1>i, <1>4, <1>5 DEF Live, Leaving, vars
    <2>2. evs' = evs /\ \A S : Configuration(S)' <=> Configuration(S)
      BY <1>i, Quiet DEF vars
    <2>3. \A x \in evs' \ Leaving' : \A v \in alte'[x] : Configuration(v)'
      BY <1>i, <1>6, <1>l, <2>2 DEF Alternatives
    <2>4. \A x \in evs' : alte'[x] # {} => x \in Live' \cup Leaving'
      BY <1>i, <1>6, <1>l, <2>1, <2>2 DEF Alternatives
    <2> QED BY <2>3, <2>4 DEF Alternatives
  <1>11. Pruning'
    <2>1. conf \cup Top.d \subseteq evs
      BY <1>i, <1>2, Zenon DEF Known, IInv, TypeOK
    <2>2. core' \subseteq core
      <3>1. core' = conf \cup Top.d \cup UNION (UNION {alte'[x] : x \in conf \cup Top.d})
        BY <1>i, <1>4, <1>5 DEF core, vars
      <3> QED BY <3>1, <2>1, <1>6 DEF core
    <2> QED BY <1>i, <1>3, <1>4, <1>5, <2>2, Zenon DEF Pruning, vars
  <1>12. History'
    <2>1. \A k : Events(k)' = Events(k)
      BY <1>i, Quiet
    <2>2. \A f : Visited(f)' <=> Visited(f)
      BY <1>i, <2>1 DEF Visited
    <2>3. Visited(g)
      BY <1>i, <1>2, <1>4 DEF History, Visited
    <2> QED BY <1>i, <1>5, <2>2, <2>3 DEF History
  <1> QED BY <1>1, <1>5, <1>7, <1>8, <1>9, <1>10, <1>11, <1>12 DEF EInv

-----------------------------------------------------------------------------
(* ext and add_ev preserve the invariant: the event being executed is in    *)
(* the history of what they add, so that no configuration on the stack gets *)
(* another extension.                                                       *)
LEMMA AddEventInv ==
  ASSUME EInv, NEW h \in SUBSET evs, NEW cnfls \in SUBSET evs, AddEvent(h, cnfls)
  PROVE  EInv'
  <1>i. /\ IInv /\ Types /\ Stack /\ Running /\ Chain /\ Knowledge /\ Alternative /\ Alternatives
        /\ Pruning /\ History
        /\ job # {} /\ job \subseteq h /\ Add(h, cnfls)
        /\ disa' = AddTo(disa, {}, {}) /\ alte' = AddTo(alte, {}, {})
        /\ UNCHANGED <<stateless, stak, frames, job, visited>>
    BY DEF EInv, AddEvent
  <1>1. IInv'
    BY <1>i, AddInv
  <1>g. /\ evs' = evs \cup {cntr} /\ cntr \notin evs /\ conf' = conf /\ cntr' = cntr + 1
        /\ \A e \in evs : past'[e] = past[e] /\ icnf[e] \subseteq icnf'[e]
        /\ \A S : Configuration(S) => Configuration(S)'
        /\ \A C \in SUBSET evs : ~(h \subseteq C) => Extensions(C)' = Extensions(C)
    BY <1>i, Grown, Zenon
  <1>t. evs \subseteq Nat /\ cntr \in Nat /\ conf \subseteq evs
    BY <1>i DEF IInv, TypeOK
  <1>a. \A e \in evs : alte'[e] = alte[e] /\ alte'[cntr] = {}
    BY <1>i, <1>g DEF AddTo
  <1>e. Active' = Active /\ Top' = Top /\ (\A k : Events(k)' = Events(k)) /\ Leaving' = Leaving /\ Live' = Live
    BY <1>i, <1>g DEF Active, Top, Events, Leaving, Live, Disabled
  <1>2. Types'
    <2>1. disa' \in [evs' -> SUBSET Nat] /\ alte' \in [evs' -> SUBSET SUBSET Nat]
      BY <1>i, <1>g, <1>t DEF Types, AddTo
    <2> QED BY <1>i, <2>1 DEF Types
  <1>3. Stack'
    <2>1. \A k \in 1..Len(stak) : stak[k] \in evs
      BY <1>i, <1>t, StackFacts
    <2>2. \A k \in 1..Len(stak') : past'[stak'[k]] \subseteq Events(k - 1)' /\ stak'[k] \notin Events(k - 1)'
      BY <1>i, <1>g, <1>e, <2>1, Zenon DEF Stack
    <2>3. conf' = Events(Len(stak))'
      BY <1>i, <1>g DEF Stack, Events
    <2> QED BY <1>i, <2>2, <2>3 DEF Stack
  <1>4. Running' /\ Chain'
    BY <1>i DEF Running, Chain, Top, Linked, Follows
  <1>5. Knowledge'
    <2> SUFFICES ASSUME NEW f \in Active PROVE Known(f)'
      BY <1>e DEF Knowledge
    <2>1. frames # << >>
      BY <1>i DEF Active, Types
    <2>2. Top.pc = "unfold" /\ job = {Top.e} /\ Known(Top) /\ Len(stak) = Top.size /\ Known(f)
      BY <1>i, <2>1, TopFacts DEF Running, Knowledge
    <2>3. Events(f.size) \subseteq conf
      BY <1>i, <2>1, ActiveFacts
    <2>4. Top.e \notin conf
      BY <1>i, <2>2 DEF Known, Extensions, Extends, Stack
    <2>5. PICK C : C = Events(f.size)
      OBVIOUS
    <2>6. C \in SUBSET evs /\ ~(h \subseteq C) /\ Events(f.size)' = C
      BY <1>i, <1>t, <1>e, <2>2, <2>3, <2>4, <2>5, Zenon
    <2>7. Extensions(Events(f.size))' = Extensions(Events(f.size))
      <3>1. Extensions(C)' = Extensions(C)
        BY <1>g, <2>6
      <3>2. Extensions(Events(f.size))' = Extensions(C)'
        BY <2>6, Zenon DEF Extensions, Extends
      <3> QED BY <2>5, <3>1, <3>2
    <2>8. f \in Activations
      BY <1>i, <2>1, TopFacts
    <2>9. f.en \cap evs' = f.en \cap evs /\ \A x \in f.en : x < cntr'
      BY <1>g, <1>t, <2>2, <2>8 DEF Known, Activations
    <2>10. \A x \in f.d : x \in evs' /\ past'[x] \subseteq Events(f.size)'
      BY <1>g, <1>e, <2>2 DEF Known
    <2> QED BY <1>g, <2>2, <2>7, <2>9, <2>10 DEF Known

  <1>6. Alternative'
    <2> SUFFICES ASSUME frames # << >>, Top.pc \in {"explore", "unfold"}
                 PROVE  /\ Configuration(conf \cup Top.alt)' /\ conf \cap Top.alt = {}
                        /\ Top.alt = {} => Top.en \subseteq evs'
                        /\ Top.pc = "unfold" /\ Top.alt # {} => Top.e \in Top.alt
                        /\ \A x \in Top.d : icnf'[x] \cap (conf \cup Top.alt) # {}
      BY <1>i, <1>g, <1>e, Zenon DEF Alternative
    <2>1. PICK S : S = conf \cup Top.alt
      BY Zenon
    <2>2. Configuration(S) /\ S = conf' \cup Top'.alt
      BY <1>i, <1>g, <1>e, <2>1 DEF Alternative
    <2>3. Configuration(S)'
      BY <1>g, <2>2
    <2>4. Configuration(conf \cup Top.alt)'
      BY <2>2, <2>3, Zenon DEF Configuration, ConflictFree
    <2>5. Top.d \subseteq evs
      BY <1>i, TopFacts DEF Knowledge, Known
    <2> QED BY <1>i, <1>g, <2>4, <2>5 DEF Alternative
  <1>7. Alternatives'
    <2>1. \A x \in evs' \ Leaving' : \A v \in alte'[x] : Configuration(v)'
      BY <1>i, <1>g, <1>a, <1>e DEF Alternatives
    <2>2. stateless' => \A x \in evs' : alte'[x] # {} => x \in Live' \cup Leaving'
      BY <1>i, <1>g, <1>a, <1>e DEF Alternatives
    <2> QED BY <2>1, <2>2 DEF Alternatives
  <1>8. Pruning'
    BY <1>i, <1>e DEF Pruning, Running
  <1>9. History'
    BY <1>i, <1>e DEF History, Visited
  <1> QED BY <1>1, <1>2, <1>3, <1>4, <1>5, <1>6, <1>7, <1>8, <1>9 DEF EInv

-----------------------------------------------------------------------------
(* prune preserves the invariant: what it deletes is neither on the stack   *)
(* nor disabled, and no alternative that is still needed holds it.          *)
LEMMA PruneInv == ASSUME EInv, NEW x \in evs, Prune(x) PROVE EInv'
  <1> DEFINE g == [Top EXCEPT !.dels = @ \ Above(x)]
  <1>i. /\ IInv /\ Types /\ Stack /\ Running /\ Chain /\ Knowledge /\ Alternatives /\ Pruning /\ History
        /\ job = {} /\ frames # << >> /\ Top.pc = "prune" /\ stateless
        /\ Delete(x) /\ x \notin core /\ x \in Top.dels
        /\ disa' = [y \in evs' |-> disa[y]] /\ frames' = Set(g)
        /\ alte' = [y \in evs' |-> {v \in alte[y] : v \cap Above(x) \cap icnf[y] = {}}]
        /\ UNCHANGED <<stateless, stak, job, visited>>
    BY DeletesOutside DEF EInv, Prune, At
  <1>1. IInv'
    BY <1>i, DeleteInv
  <1>d. /\ evs' = evs \ Above(x) /\ conf' = conf /\ cntr' = cntr /\ conf \cap Above(x) = {}
        /\ \A e \in evs' : past'[e] = past[e]
        /\ \A S : Configuration(S) /\ x \notin S => S \cap Above(x) = {} /\ Configuration(S)'
        /\ \A C \in SUBSET conf : Extensions(C)' = Extensions(C) \ Above(x)
    BY <1>i, Shrunk
  <1>2. Top \in Activations /\ Top \in Active /\ conf \subseteq evs' /\ evs' \subseteq evs
    BY <1>i, <1>d, TopFacts DEF IInv, TypeOK
  <1>3. /\ g \in Activations /\ g.size = Top.size /\ g.d = Top.d /\ g.pc = "prune" /\ g.e = Top.e
        /\ g.en = Top.en /\ g.dels = Top.dels \ Above(x)
    BY <1>i, <1>2, Zenon DEF Activations
  <1> HIDE DEF g
  <1>4. /\ frames' \in Seq(Activations) /\ frames' # << >> /\ Top' = g /\ Running' /\ Chain'
        /\ Active' \subseteq Active \cup {g}
    BY <1>i, <1>3, MoveStep
  <1>e. \A k : Events(k)' = Events(k)
    BY <1>i, Zenon DEF Events
  <1>a. \A y \in evs' : alte'[y] \subseteq alte[y]
    BY <1>i
  <1>5. Types'
    <2>1. disa' \in [evs' -> SUBSET Nat] /\ alte' \in [evs' -> SUBSET SUBSET Nat]
      BY <1>i, <1>2 DEF Types
    <2> QED BY <1>i, <1>4, <2>1 DEF Types
  <1>6. Stack'
    <2>1. \A k \in 1..Len(stak) : stak[k] \in evs'
      BY <1>i, <1>2, StackFacts
    <2>2. \A k \in 1..Len(stak') : past'[stak'[k]] \subseteq Events(k - 1)' /\ stak'[k] \notin Events(k - 1)'
      BY <1>i, <1>d, <1>e, <2>1, Zenon DEF Stack
    <2>3. conf' = Events(Len(stak))'
      BY <1>i, <1>d DEF Stack, Events
    <2> QED BY <1>i, <2>2, <2>3 DEF Stack
  <1>7. Top.d \subseteq evs'
    <2> SUFFICES ASSUME NEW y \in Top.d PROVE y \in evs'
      OBVIOUS
    <2>1. y \in evs /\ past[y] \subseteq Events(Top.size)
      BY <1>i, <1>2 DEF Knowledge, Known
    <2>2. y # x /\ x \notin conf /\ Events(Top.size) \subseteq conf
      BY <1>i, <1>2, ActiveFacts DEF core
    <2> QED BY <1>d, <2>1, <2>2 DEF Above
  <1>8. ASSUME NEW f \in Active PROVE Known(f)'
    <2>1. /\ Known(f) /\ f \in Activations /\ Events(f.size) \subseteq conf /\ f.d \subseteq Top.d
          /\ f.pc = "call" => f.e \in conf
          /\ f # Top => f.pc \in {"call", "again"} /\ (f.pc = "again" => f.e \in Top.d)
      BY <1>i, ActiveFacts DEF Knowledge
    <2>2. PICK C : C = Events(f.size)
      OBVIOUS
    <2>3. C \in SUBSET conf /\ Events(f.size)' = C
      BY <1>e, <2>1, <2>2
    <2>4. Extensions(Events(f.size))' = Extensions(Events(f.size)) \ Above(x)
      <3>1. Extensions(C)' = Extensions(C) \ Above(x)
        BY <1>d, <2>3
      <3>2. Extensions(Events(f.size))' = Extensions(C)'
        BY <2>3, Zenon DEF Extensions, Extends
      <3> QED BY <2>2, <3>1, <3>2
    <2>5. f.en \cap evs' = Extensions(Events(f.size))' /\ \A y \in f.en : y < cntr'
      BY <1>d, <2>1, <2>4 DEF Known
    <2>6. \A y \in f.d : y \in evs' /\ past'[y] \subseteq Events(f.size)'
      BY <1>d, <1>e, <1>7, <2>1 DEF Known
    <2>7. f.pc \in {"unfold", "call", "again"} => f.e \in evs' /\ f.e \in f.en
      BY <1>i, <1>2, <1>7, <2>1 DEF Known
    <2> QED BY <2>5, <2>6, <2>7 DEF Known
  <1>9. Knowledge'
    <2>1. PICK t, u : t = Top /\ u = g
      OBVIOUS
    <2>2. Known(t)'
      BY <1>2, <1>8, <2>1
    <2>3. Events(u.size)' = Events(t.size)'
      BY <1>3, <2>1
    <2>4. Extensions(Events(u.size))' = Extensions(Events(t.size))'
      BY <2>3, Zenon DEF Extensions, Extends
    <2>5. Known(u)'
      BY <1>3, <2>1, <2>2, <2>3, <2>4, Zenon DEF Known
    <2> QED BY <1>4, <1>8, <2>1, <2>5, Zenon DEF Knowledge
  <1>10. Alternative'
    BY <1>3, <1>4 DEF Alternative
  <1>11. Alternatives'
    <2>1. Live' = conf \cup Top.d /\ Live = conf \cup Top.d /\ Leaving = Top.dels /\ Leaving' = Top.dels \ Above(x)
      BY <1>i, <1>d, <1>3, <1>4 DEF Live, Leaving
    <2>2. \A y \in evs' : alte[y] # {} => y \in Live \cup Leaving
      BY <1>i, <1>2 DEF Alternatives
    <2>3. ASSUME NEW y \in evs' \ Leaving', NEW v \in alte'[y] PROVE Configuration(v)'
      <3>1. v \in alte[y] /\ y \in evs \ Leaving
        BY <1>a, <1>d, <2>1, <2>3
      <3>2. y \in conf \cup Top.d /\ Configuration(v)
        BY <1>i, <2>1, <2>2, <3>1 DEF Alternatives
      <3>3. v \subseteq core
        BY <3>1, <3>2 DEF core
      <3> QED BY <1>i, <1>d, <3>2, <3>3
    <2>4. \A y \in evs' : alte'[y] # {} => y \in Live' \cup Leaving'
      BY <1>a, <1>d, <2>1, <2>2
    <2> QED BY <2>3, <2>4 DEF Alternatives
  <1>12. Pruning'
    <2>1. core' \subseteq core
      <3>1. core' = conf \cup Top.d \cup UNION (UNION {alte'[y] : y \in conf \cup Top.d})
        BY <1>i, <1>d, <1>3, <1>4, Zenon DEF core
      <3> QED BY <3>1, <1>2, <1>7, <1>a DEF core
    <2>2. Top'.dels \subseteq evs' /\ Top'.dels \cap core' = {} /\ stateless'
      BY <1>i, <1>d, <1>3, <1>4, <2>1 DEF Pruning
    <2>3. \A f \in Active' : f.pc # "prune" => f.dels = {}
      BY <1>i, <1>3, <1>4, Zenon DEF Pruning
    <2> QED BY <2>2, <2>3 DEF Pruning
  <1>13. History'
    <2>1. \A f : Visited(f)' <=> Visited(f)
      BY <1>i, <1>e DEF Visited
    <2>2. Visited(g)
      BY <1>i, <1>2, <1>3 DEF History, Visited
    <2> QED BY <1>i, <1>4, <2>1, <2>2 DEF History
  <1> QED BY <1>1, <1>4, <1>5, <1>6, <1>9, <1>10, <1>11, <1>12, <1>13 DEF EInv

-----------------------------------------------------------------------------
(* The end of unfold preserves the invariant: the stack grows by an         *)
(* extension, and the call works on the configuration that holds it.        *)
LEMMA UnfoldInv == ASSUME EInv, Unfold PROVE EInv'
  <1> DEFINE e == Top.e
             n == Len(frames)
             m == Len(stak)
             g == [Top EXCEPT !.pc = "call"]
             en == Extensions(conf \cup {e})
             f1 == Frame(m + 1, en, Top.d, Top.alt \ {e})
  <1>i. /\ IInv /\ Types /\ Stack /\ Running /\ Chain /\ Knowledge /\ Alternative /\ Alternatives
        /\ Pruning /\ History
        /\ frames # << >> /\ stak' = Append(stak, e) /\ frames' = Append(Set(g), f1) /\ job' = {}
        /\ UNCHANGED <<stateless, disa, alte, visited>> /\ UNCHANGED prefix /\ conf' = conf \cup {e}
    BY DEF EInv, Unfold, Goto, push
  <1>0. /\ Top \in Activations /\ Top \in Active /\ Top.pc = "unfold" /\ m = Top.size
        /\ conf = Events(Top.size) /\ e \in evs /\ Push(e)
    BY PushesExtension
  <1>1. IInv'
    BY <1>i, <1>0, PushPopInv
  <1>t. /\ e \in Nat /\ en \subseteq evs /\ evs \subseteq Nat /\ m \in Nat \ {0} /\ n \in Nat \ {0}
        /\ past[e] \subseteq conf /\ e \notin conf /\ evs' = evs /\ past' = past /\ icnf' = icnf /\ cntr' = cntr
    BY <1>i, <1>0, StackFacts, TopFacts, Zenon DEF IInv, TypeOK, Push, Extends, Extensions, prefix
  <1>2. /\ g \in Activations /\ g.pc = "call" /\ g.size = m /\ g.d = Top.d /\ g.e = e /\ g.en = Top.en
        /\ g.dels = Top.dels
    BY <1>0, Zenon DEF Activations
  <1>3. /\ f1 \in Activations /\ f1.pc = "explore" /\ f1.size = m + 1 /\ f1.en = en /\ f1.d = Top.d
        /\ f1.alt = Top.alt \ {e} /\ f1.dels = {}
    <2> DEFINE size == m + 1
               alt == Top.alt \ {e}
    <2>1. size \in Nat \ {0}
      BY <1>t
    <2>2. en \in SUBSET Nat
      BY <1>t, Zenon
    <2>3. Top.d \in SUBSET Nat /\ alt \in SUBSET Nat
      BY <1>0 DEF Activations
    <2>4. f1 = Frame(size, en, Top.d, alt)
      OBVIOUS
    <2> HIDE DEF en, f1, size, alt
    <2>5. /\ f1 \in Activations /\ f1.pc = "explore" /\ f1.size = size /\ f1.en = en /\ f1.d = Top.d
          /\ f1.alt = alt /\ f1.dels = {}
      BY <2>1, <2>2, <2>3, <2>4 DEF Frame, Activations, bot
    <2> QED BY <2>5 DEF size, alt
  <1> HIDE DEF g, f1
  <1>4. /\ frames' \in Seq(Activations) /\ frames' # << >> /\ Len(frames') = n + 1 /\ Top' = f1
        /\ frames'[n] = g /\ frames'[n + 1] = f1
        /\ \A i \in 1..(n - 1) : frames'[i] = frames[i]
        /\ Active' \subseteq Active \cup {g, f1}
    BY <1>i, <1>2, <1>3, Calls
  <1>5. Chain'
    <2>1. Follows(g, f1) /\ g.size = Top.size
      BY <1>0, <1>2, <1>3 DEF Follows
    <2> QED BY <1>i, <1>2, <1>3, <2>1, ChainCalls
  <1>s. /\ stak' \in Seq(Nat) /\ Len(stak') = m + 1 /\ stak'[m + 1] = e
        /\ \A k \in 1..m : stak'[k] = stak[k]
        /\ \A k \in 0..m : Events(k)' = Events(k)
        /\ \A k \in Nat : k = m + 1 => Events(k)' = Events(m) \cup {e}
    BY <1>i, <1>t, Pushed
  <1>6. Types'
    BY <1>i, <1>s, <1>t, <1>4 DEF Types
  <1>c. \A k \in Nat : k = m + 1 => Events(k)' = conf \cup {e}
    BY <1>0, <1>s
  <1> HIDE DEF e, m, n, en
  <1>7. Stack'
    <2>1. Len(stak') >= 1 /\ stak'[1] = bot
      BY <1>i, <1>s, <1>t DEF Stack
    <2>2. conf' = Events(Len(stak))'
      <3>1. PICK k \in Nat : k = m + 1
        BY <1>t
      <3>2. Events(k)' = conf'
        BY <1>i, <1>c, <3>1
      <3> QED BY <1>s, <3>1, <3>2 DEF Events
    <2>3. ASSUME NEW k \in 1..Len(stak')
          PROVE  past'[stak'[k]] \subseteq Events(k - 1)' /\ stak'[k] \notin Events(k - 1)'
      <3>1. CASE k \in 1..m
        <4>1. k - 1 \in 0..m /\ stak'[k] = stak[k]
          BY <1>s, <1>t, <3>1
        <4>2. Events(k - 1)' = Events(k - 1)
          BY <1>s, <4>1
        <4> QED BY <1>i, <1>t, <3>1, <4>1, <4>2 DEF Stack, m
      <3>2. CASE k = m + 1
        <4>1. k - 1 \in 0..m /\ k - 1 = m /\ stak'[k] = e
          BY <1>s, <1>t, <3>2
        <4>2. Events(k - 1)' = conf
          BY <1>0, <1>s, <4>1
        <4> QED BY <1>t, <4>1, <4>2
      <3> QED BY <1>s, <1>t, <3>1, <3>2
    <2> QED BY <2>1, <2>2, <2>3, Zenon DEF Stack
  <1>8. Running'
    <2>1. ASSUME NEW i \in 1..Len(frames')
          PROVE  /\ i < Len(frames') => frames'[i].pc \in {"call", "again"}
                 /\ frames'[i].pc = "call" => frames'[i].size < Len(stak') /\ stak'[frames'[i].size + 1] = frames'[i].e
      <3>1. CASE i = n + 1
        BY <3>1, <1>3, <1>4
      <3>2. CASE i = n
        BY <3>2, <1>2, <1>4, <1>s, <1>t
      <3>3. CASE i \in 1..(n - 1)
        <4>1. frames'[i] = frames[i] /\ i \in 1..n /\ i < n /\ frames[i] \in Activations
          BY <3>3, <1>i, <1>4, <1>t, TopFacts DEF n
        <4>2. /\ frames[i].pc \in {"call", "again"} /\ frames[i].size \in Nat \ {0}
              /\ frames[i].pc = "call" => frames[i].size < m /\ stak[frames[i].size + 1] = frames[i].e
          BY <1>i, <4>1 DEF Running, n, m, Activations
        <4>3. frames[i].pc = "call" => frames[i].size + 1 \in 1..m /\ frames[i].size < m + 1
          BY <4>2, <1>t
        <4> QED BY <4>1, <4>2, <4>3, <1>s
      <3> QED BY <3>1, <3>2, <3>3, <1>4, <1>t
    <2>2. Len(stak') = Top'.size /\ Top'.pc = "explore" /\ job' = {}
      BY <1>i, <1>s, <1>3, <1>4
    <2> QED BY <1>4, <2>1, <2>2, Zenon DEF Running

  <1>q. \A f \in Active : Events(f.size)' = Events(f.size) /\ Events(f.size) \subseteq conf
    <2>1. \A f \in Active : f.size \in 1..m /\ Events(f.size) \subseteq conf
      BY <1>i, ActiveFacts DEF m
    <2>2. \A k \in 1..m : k \in 0..m
      BY <1>t
    <2> QED BY <1>s, <2>1, <2>2
  <1>9. Knowledge'
    <2>1. \A f \in Active : Known(f)'
      BY <1>i, <1>q, SamePrefix DEF Knowledge
    <2>2. PICK t, u, w : t = Top /\ u = g /\ w = f1
      OBVIOUS
    <2>3. Known(t)' /\ Known(t) /\ t.pc = "unfold"
      BY <1>i, <1>0, <2>1, <2>2 DEF Knowledge
    <2>4. Known(u)'
      <3>1. Events(u.size)' = Events(t.size)'
        BY <1>0, <1>2, <2>2
      <3>2. Extensions(Events(u.size))' = Extensions(Events(t.size))'
        BY <3>1, Zenon DEF Extensions, Extends
      <3> QED BY <1>2, <2>2, <2>3, <3>1, <3>2 DEF Known, e
    <2>5. Known(w)'
      <3>1. PICK C : C = conf \cup {e}
        BY Zenon
      <3>2. w.size \in Nat /\ w.size = m + 1
        BY <1>3, <1>t, <2>2
      <3>3. Events(w.size)' = C
        BY <1>c, <3>1, <3>2
      <3>4. Extensions(Events(w.size))' = Extensions(C)' /\ Extensions(C)' = Extensions(C)
        <4>1. Extensions(Events(w.size))' = Extensions(C)'
          BY <3>3, Zenon DEF Extensions, Extends
        <4> QED BY <1>i, <4>1, SamePrefix
      <3>5. w.en \cap evs' = Extensions(Events(w.size))'
        BY <1>3, <1>t, <2>2, <3>1, <3>4, Zenon DEF en
      <3>6. \A x \in w.en : x < cntr'
        BY <1>i, <1>3, <1>t, <2>2, Zenon DEF IInv, Rooted
      <3>7. \A x \in w.d : x \in evs' /\ past'[x] \subseteq Events(w.size)'
        BY <1>0, <1>3, <1>t, <2>2, <2>3, <3>1, <3>3 DEF Known
      <3> QED BY <1>3, <2>2, <3>5, <3>6, <3>7 DEF Known
    <2> QED BY <1>4, <2>1, <2>2, <2>4, <2>5, Zenon DEF Knowledge
  <1>10. Alternative'
    <2>1. /\ Configuration(conf \cup Top.alt) /\ conf \cap Top.alt = {}
          /\ Top.alt # {} => e \in Top.alt
          /\ \A x \in Top.d : icnf[x] \cap (conf \cup Top.alt) # {}
      BY <1>i, <1>0 DEF Alternative, e
    <2>2. PICK S : S = conf \cup {e} \cup (Top.alt \ {e})
      BY Zenon
    <2>3. S = conf' \cup Top'.alt
      BY <1>i, <1>3, <1>4, <2>2
    <2>4. Configuration(S)'
      <3>1. CASE Top.alt = {}
        <4>1. S = conf'
          BY <1>i, <2>2, <3>1
        <4> QED BY <1>1, <4>1 DEF Configuration, IInv, TypeOK, StackIsConfiguration, ConflictFree
      <3>2. CASE Top.alt # {}
        <4>1. S = conf \cup Top.alt
          BY <2>1, <2>2, <3>2
        <4> QED BY <1>i, <2>1, <4>1, SamePrefix
      <3> QED BY <3>1, <3>2
    <2>5. Configuration(conf \cup Top.alt)'
      BY <2>3, <2>4, Zenon DEF Configuration, ConflictFree
    <2>6. conf' \cap Top'.alt = {} /\ Top'.en \subseteq evs' /\ Top'.pc = "explore"
      BY <1>i, <1>3, <1>4, <1>t, <2>1, Zenon
    <2>7. \A x \in Top'.d : icnf'[x] \cap (conf' \cup Top'.alt) # {}
      BY <1>3, <1>4, <1>t, <2>1, <2>2, <2>3
    <2> QED BY <2>5, <2>6, <2>7, Zenon DEF Alternative
  <1>11. Alternatives'
    <2>1. Live \subseteq Live' /\ Leaving = {} /\ Leaving' = {}
      BY <1>i, <1>0, <1>3, <1>4 DEF Live, Leaving, Pruning
    <2>2. \A S : Configuration(S)' <=> Configuration(S)
      BY <1>i, SamePrefix
    <2> QED BY <1>i, <1>t, <2>1, <2>2, Zenon DEF Alternatives
  <1>12. Pruning'
    BY <1>i, <1>0, <1>2, <1>3, <1>4, Zenon DEF Pruning
  <1>13. History'
    <2>1. \A f \in Active : Visited(f)'
      BY <1>i, <1>q DEF History, Visited
    <2>2. \A M \in visited : M \cap Top.d # {}
      BY <1>i, <1>0 DEF History, Visited
    <2>3. \A f : f.d = Top.d => Visited(f)'
      BY <1>i, <2>2 DEF Visited
    <2> QED BY <1>2, <1>3, <1>4, <2>1, <2>3 DEF History
  <1> QED BY <1>1, <1>5, <1>6, <1>7, <1>8, <1>9, <1>10, <1>11, <1>12, <1>13 DEF EInv

-----------------------------------------------------------------------------
(* When the call has returned, the activation that made it and its callers  *)
(* find their configurations as they left them.                             *)
LEMMA BacktrackFacts ==
  ASSUME EInv, Backtrack, NEW g, g = [Top EXCEPT !.pc = "again"]
  PROVE  /\ g \in Activations /\ g.pc = "again" /\ g.size = Top.size /\ g.d = Top.d /\ g.e = Top.e
         /\ g.en = Top.en /\ g.dels = {}
         /\ IInv' /\ Stack' /\ stak' \in Seq(Nat) /\ Len(stak') = Top.size /\ conf' = conf \ {Top.e}
         /\ \A f \in Active \cup {g} : /\ Events(f.size)' = Events(f.size) /\ Known(f)' /\ f.dels = {} /\ Visited(f)'
         /\ \A i \in 1..(Len(frames) - 1) :
              /\ frames[i].pc \in {"call", "again"}
              /\ frames[i].pc = "call" => /\ frames[i].size < Len(stak')
                                          /\ stak'[frames[i].size + 1] = frames[i].e
  <1> DEFINE e == Top.e
             n == Len(frames)
             m == Top.size
  <1>i. /\ IInv /\ Types /\ Stack /\ Running /\ Chain /\ Knowledge /\ Pruning /\ History
        /\ frames # << >> /\ stak' = SubSeq(stak, 1, Len(stak) - 1) /\ visited' = visited
    BY DEF EInv, Backtrack, At
  <1>0. /\ Top \in Activations /\ Top \in Active /\ Top.pc = "call" /\ Len(stak) = m + 1
        /\ e \in evs /\ conf \ {e} = Events(m) /\ Pop(e)
    BY PopsMaximal
  <1>1. IInv'
    BY <1>i, <1>0, PushPopInv
  <1>2. /\ g \in Activations /\ g.pc = "again" /\ g.size = m /\ g.d = Top.d /\ g.e = Top.e
        /\ g.en = Top.en /\ g.dels = Top.dels
    BY <1>0, Zenon DEF Activations
  <1>p. UNCHANGED prefix /\ conf' = conf \ {e} /\ past' = past
    BY <1>0 DEF Pop, pop, prefix
  <1>t. m \in Nat \ {0} /\ n \in Nat \ {0} /\ Top = frames[n] /\ stak # << >>
    BY <1>i, <1>0, TopFacts DEF Activations
  <1>s. /\ stak' \in Seq(Nat) /\ Len(stak') = m
        /\ \A k \in 1..m : stak'[k] = stak[k]
        /\ \A k \in 0..m : Events(k)' = Events(k)
    <2>1. Len(stak) - 1 = m
      BY <1>0, <1>t
    <2> QED BY <1>i, <1>t, <2>1, TakenOff
  <1> HIDE DEF e, m, n
  <1>3. Stack'
    <2>1. Len(stak') >= 1 /\ stak'[1] = bot
      BY <1>i, <1>s, <1>t DEF Stack
    <2>2. conf' = Events(Len(stak))'
      <3>1. PICK k \in 0..m : k = m
        BY <1>t
      <3>2. Events(k)' = conf'
        BY <1>0, <1>p, <1>s, <3>1
      <3> QED BY <1>s, <3>1, <3>2 DEF Events
    <2>3. ASSUME NEW k \in 1..Len(stak')
          PROVE  past'[stak'[k]] \subseteq Events(k - 1)' /\ stak'[k] \notin Events(k - 1)'
      <3>1. k - 1 \in 0..m /\ k \in 1..m /\ k \in 1..Len(stak) /\ stak'[k] = stak[k]
        BY <1>0, <1>s, <1>t
      <3>2. Events(k - 1)' = Events(k - 1)
        BY <1>s, <3>1
      <3> QED BY <1>i, <1>p, <3>1, <3>2 DEF Stack
    <2> QED BY <2>1, <2>2, <2>3, Zenon DEF Stack
  <1>4. ASSUME NEW i \in 1..(n - 1)
        PROVE  /\ frames[i].pc \in {"call", "again"}
               /\ frames[i].pc = "call" => frames[i].size < Len(stak') /\ stak'[frames[i].size + 1] = frames[i].e
    <2>1. i \in 1..n /\ n \in 1..n /\ i < n
      BY <1>t
    <2>2. frames[i].pc \in {"call", "again"} /\ Linked(frames[i], Top) /\ frames[i].size \in Nat \ {0}
      <3>1. frames[i] \in Activations /\ frames[n] = Top
        BY <1>i, <1>t, <2>1, TopFacts DEF n
      <3> QED BY <1>i, <2>1, <3>1 DEF Running, Chain, n, Activations
    <2>3. frames[i].pc = "call" => frames[i].size < m /\ stak[frames[i].size + 1] = frames[i].e
      BY <1>i, <2>1, <2>2 DEF Running, Linked, n, m
    <2>4. frames[i].pc = "call" => frames[i].size + 1 \in 1..m
      BY <1>t, <2>2, <2>3
    <2> QED BY <1>s, <2>2, <2>3, <2>4
  <1>5. \A f \in Active : Events(f.size)' = Events(f.size)
    <2>1. \A f \in Active : f.size \in 1..Len(stak) /\ f.size <= m
      BY <1>i, ActiveFacts DEF m
    <2>2. \A f \in Active : f.size \in 0..m
      BY <1>0, <1>t, <2>1
    <2> QED BY <1>s, <2>2
  <1>6. \A f \in Active : Known(f)' /\ Visited(f)' /\ f.dels = {}
    <2>1. \A f \in Active : Known(f)'
      BY <1>i, <1>p, <1>5, SamePrefix DEF Knowledge
    <2>2. \A f \in Active : Visited(f)'
      BY <1>i, <1>5 DEF History, Visited
    <2>3. \A f \in Active : f.pc # "prune"
      BY <1>i, <1>0, ActiveFacts
    <2> QED BY <1>i, <2>1, <2>2, <2>3 DEF Pruning
  <1>7. Events(g.size)' = Events(g.size) /\ Known(g)' /\ Visited(g)'
    <2>1. PICK t : t = Top
      OBVIOUS
    <2>2. /\ t.size = g.size /\ t.en = g.en /\ t.d = g.d /\ t.e = g.e /\ t.pc = "call" /\ g.pc = "again"
          /\ t \in Active
      BY <1>0, <1>2, <2>1 DEF m
    <2>3. Events(t.size)' = Events(t.size) /\ Known(t)' /\ Visited(t)'
      BY <1>5, <1>6, <2>2
    <2>4. Known(g)'
      BY <2>2, <2>3, Zenon DEF Known
    <2>5. Visited(g)'
      BY <2>2, <2>3 DEF Visited
    <2> QED BY <2>2, <2>3, <2>4, <2>5
  <1> QED BY <1>0, <1>1, <1>2, <1>3, <1>4, <1>5, <1>6, <1>7, <1>p, <1>s, Zenon DEF e, m, n

(* Backtracking preserves the invariant when no alternative is found ...    *)
LEMMA GoOnInv == ASSUME EInv, Backtrack, frames' = Goto("again") PROVE EInv'
  <1>i. /\ IInv /\ Types /\ Running /\ Chain /\ Alternatives /\ frames # << >> /\ job = {} /\ Top.pc = "call"
        /\ UNCHANGED <<stateless, disa, alte, job, visited>>
    BY DEF EInv, Backtrack, At
  <1>0. PICK g : g = [Top EXCEPT !.pc = "again"]
    BY Zenon
  <1>1. /\ g \in Activations /\ g.pc = "again" /\ g.size = Top.size /\ g.d = Top.d /\ g.e = Top.e
        /\ g.en = Top.en /\ g.dels = {}
        /\ IInv' /\ Stack' /\ stak' \in Seq(Nat) /\ Len(stak') = Top.size /\ conf' = conf \ {Top.e}
        /\ \A f \in Active \cup {g} : /\ Events(f.size)' = Events(f.size) /\ Known(f)' /\ f.dels = {} /\ Visited(f)'
    BY <1>0, BacktrackFacts, Zenon
  <1>2. \A i \in 1..(Len(frames) - 1) :
          /\ frames[i].pc \in {"call", "again"}
          /\ frames[i].pc = "call" => frames[i].size < Len(stak') /\ stak'[frames[i].size + 1] = frames[i].e
    BY <1>0, BacktrackFacts
  <1>3. frames' = Set(g)
    BY <1>0 DEF Goto
  <1>4. /\ frames' \in Seq(Activations) /\ frames' # << >> /\ Len(frames') = Len(frames) /\ Top' = g
        /\ frames'[Len(frames)] = g
        /\ \A i \in 1..(Len(frames) - 1) : frames'[i] = frames[i]
        /\ Active' \subseteq Active \cup {g} /\ Len(frames) \in Nat \ {0}
    BY <1>i, <1>1, <1>3, Moves, TopFacts
  <1>p. UNCHANGED prefix /\ Top.e \in conf
    BY PopsMaximal DEF Pop, pop
  <1>5. Types'
    BY <1>i, <1>1, <1>4, <1>p DEF Types, prefix
  <1>6. Chain'
    BY <1>i, <1>1, <1>3, ChainMoves
  <1>7. Running'
    <2>1. ASSUME NEW i \in 1..Len(frames')
          PROVE  /\ i < Len(frames') => frames'[i].pc \in {"call", "again"}
                 /\ frames'[i].pc = "call" => frames'[i].size < Len(stak') /\ stak'[frames'[i].size + 1] = frames'[i].e
      <3>1. CASE i = Len(frames)
        BY <3>1, <1>1, <1>4
      <3>2. CASE i \in 1..(Len(frames) - 1)
        BY <3>2, <1>2, <1>4
      <3> QED BY <3>1, <3>2, <1>4
    <2>2. Len(stak') = Top'.size /\ Top'.pc = "again" /\ job' = {}
      BY <1>i, <1>1, <1>4
    <2> QED BY <1>4, <2>1, <2>2, Zenon DEF Running
  <1>8. Knowledge' /\ History' /\ Pruning' /\ Alternative'
    <2>1. Knowledge'
      BY <1>1, <1>4, Zenon DEF Knowledge
    <2>2. History'
      BY <1>1, <1>4, Zenon DEF History
    <2>3. Pruning'
      BY <1>1, <1>4 DEF Pruning
    <2>4. Alternative'
      BY <1>1, <1>4 DEF Alternative
    <2> QED BY <2>1, <2>2, <2>3, <2>4
  <1>9. Alternatives'
    <2>1. Live \subseteq Live' /\ Leaving' = {} /\ Leaving = {}
      BY <1>i, <1>1, <1>4, <1>p, TopFacts DEF Live, Leaving, Disabled
    <2>2. evs' = evs /\ \A S : Configuration(S)' <=> Configuration(S)
      BY <1>p, SamePrefix DEF prefix
    <2> QED BY <1>i, <2>1, <2>2 DEF Alternatives
  <1> QED BY <1>1, <1>5, <1>6, <1>7, <1>8, <1>9 DEF EInv

(* Backtracking into the alternative v. *)
BacktrackInto(v) ==
  /\ Backtrack
  /\ v \in UNION {alte[x] : x \in Disabled} /\ filter_alte(conf \ {Top.e}, v)
  /\ frames' = Append(Goto("again"), Frame(Top.size, Top.en, Disabled, v \ (conf \ {Top.e})))

(* ... and when explore is called to follow one: with what is left of the   *)
(* stack it is a configuration, it holds a conflict with every event that   *)
(* is disabled, and so it is not on the stack already.                      *)
LEMMA FollowInv == ASSUME EInv, NEW v, BacktrackInto(v) PROVE EInv'
  <1> DEFINE c == conf \ {Top.e}
             n == Len(frames)
  <1>b. Backtrack
    BY DEF BacktrackInto
  <1>i. /\ IInv /\ Types /\ Running /\ Chain /\ Knowledge /\ Alternatives /\ History
        /\ frames # << >> /\ job = {} /\ Top.pc = "call"
        /\ UNCHANGED <<stateless, disa, alte, job, visited>>
    BY <1>b DEF EInv, Backtrack, At
  <1>0. PICK g, w : g = [Top EXCEPT !.pc = "again"] /\ w = Frame(Top.size, Top.en, Disabled, v \ c)
    BY Zenon
  <1>1. /\ g \in Activations /\ g.pc = "again" /\ g.size = Top.size /\ g.d = Top.d /\ g.e = Top.e
        /\ g.en = Top.en /\ g.dels = {}
        /\ IInv' /\ Stack' /\ stak' \in Seq(Nat) /\ Len(stak') = Top.size /\ conf' = c
        /\ \A f \in Active \cup {g} : /\ Events(f.size)' = Events(f.size) /\ Known(f)' /\ f.dels = {} /\ Visited(f)'
    BY <1>0, <1>b, BacktrackFacts, Zenon
  <1>2. \A i \in 1..(n - 1) :
          /\ frames[i].pc \in {"call", "again"}
          /\ frames[i].pc = "call" => frames[i].size < Len(stak') /\ stak'[frames[i].size + 1] = frames[i].e
    BY <1>0, <1>b, BacktrackFacts
  <1>p. /\ UNCHANGED prefix /\ evs' = evs /\ past' = past /\ icnf' = icnf
        /\ Top \in Activations /\ Top \in Active /\ Top.e \in conf /\ Top.e \in evs /\ c = Events(Top.size)
        /\ evs \subseteq Nat
    BY <1>i, <1>b, PopsMaximal DEF Pop, pop, prefix, IInv, TypeOK
  <1>3. Disabled \subseteq evs /\ \A x \in Disabled : past[x] \subseteq c
    <2>1. \A x \in Top.d : x \in evs /\ past[x] \subseteq c
      BY <1>i, <1>p DEF Knowledge, Known
    <2>2. past[Top.e] \subseteq c
      <3>1. past[Top.e] \subseteq conf
        BY <1>i, <1>p, Zenon DEF IInv, StackIsConfiguration
      <3>2. \A x \in evs : x \notin past[x]
        BY <1>i, <1>p DEF IInv, Rooted
      <3> QED BY <1>p, <3>1, <3>2, Zenon
    <2> QED BY <2>1, <2>2, <1>p DEF Disabled
  <1>4. Configuration(v) /\ v \subseteq evs
    <2>1. Leaving = {}
      BY <1>i, <1>1, <1>p, Zenon DEF Leaving
    <2> QED BY <1>i, <1>3, <2>1 DEF BacktrackInto, Alternatives, Configuration
  <1>5. /\ \A x \in Disabled : \E y \in v : x \in icnf[y]
        /\ \A y \in v : icnf[y] \cap c = {}
    BY DEF BacktrackInto, filter_alte, Conflicts
  <1>6. /\ w \in Activations /\ w.pc = "explore" /\ w.size = Top.size /\ w.en = Top.en /\ w.d = Disabled
        /\ w.alt = v \ c /\ w.dels = {}
    <2>0. PICK size, en, d, alt : size = Top.size /\ en = Top.en /\ d = Disabled /\ alt = v \ c
      BY Zenon
    <2>1. size \in Nat \ {0} /\ en \in SUBSET Nat
      BY <1>p, <2>0 DEF Activations
    <2>2. d \in SUBSET Nat /\ alt \in SUBSET Nat
      BY <1>p, <1>3, <1>4, <2>0, Zenon
    <2>3. w = Frame(size, en, d, alt)
      BY <1>0, <2>0
    <2>4. /\ w \in Activations /\ w.pc = "explore" /\ w.size = size /\ w.en = en /\ w.d = d
          /\ w.alt = alt /\ w.dels = {}
      BY <2>1, <2>2, <2>3 DEF Frame, Activations, bot
    <2> QED BY <2>0, <2>4

  <1> HIDE DEF c, n
  <1>7. /\ frames' \in Seq(Activations) /\ frames' # << >> /\ Len(frames') = n + 1 /\ Top' = w
        /\ frames'[n] = g /\ frames'[n + 1] = w
        /\ \A i \in 1..(n - 1) : frames'[i] = frames[i]
        /\ Active' \subseteq Active \cup {g, w} /\ n \in Nat \ {0}
    <2>1. frames' = Append(Set(g), w)
      BY <1>0 DEF BacktrackInto, Goto, c
    <2> QED BY <1>i, <1>1, <1>6, <2>1, Calls, TopFacts DEF n
  <1>8. Types'
    BY <1>i, <1>1, <1>7, <1>p DEF Types
  <1>9. Chain'
    <2>1. frames' = Append(Set(g), w)
      BY <1>0 DEF BacktrackInto, Goto, c
    <2>2. Follows(g, w)
      BY <1>1, <1>6 DEF Follows, Disabled
    <2> QED BY <1>i, <1>1, <1>6, <2>1, <2>2, ChainCalls
  <1>10. Running'
    <2>1. ASSUME NEW i \in 1..Len(frames')
          PROVE  /\ i < Len(frames') => frames'[i].pc \in {"call", "again"}
                 /\ frames'[i].pc = "call" => frames'[i].size < Len(stak') /\ stak'[frames'[i].size + 1] = frames'[i].e
      <3>1. CASE i = n + 1
        BY <3>1, <1>6, <1>7
      <3>2. CASE i = n
        BY <3>2, <1>1, <1>7
      <3>3. CASE i \in 1..(n - 1)
        BY <3>3, <1>2, <1>7
      <3> QED BY <3>1, <3>2, <3>3, <1>7
    <2>2. Len(stak') = Top'.size /\ Top'.pc = "explore" /\ job' = {}
      BY <1>i, <1>1, <1>6, <1>7
    <2> QED BY <1>7, <2>1, <2>2, Zenon DEF Running
  <1>11. Known(w)' /\ Visited(w)'
    <2>1. PICK t : t = Top
      OBVIOUS
    <2>2. t.size = w.size /\ t.en = w.en /\ Known(t)' /\ Events(t.size)' = c /\ w.pc = "explore"
      BY <1>1, <1>6, <1>p, <2>1
    <2>3. \A x \in w.d : x \in evs' /\ past'[x] \subseteq Events(t.size)'
      BY <1>3, <1>6, <1>p, <2>2, Zenon
    <2>4. Known(w)'
      BY <2>2, <2>3, Zenon DEF Known
    <2>5. Visited(Top)
      BY <1>i, <1>p DEF History
    <2>6. \A M \in visited : M \cap w.d # {}
      BY <1>i, <1>6, <2>5, Zenon DEF Visited, Disabled
    <2> QED BY <1>i, <2>4, <2>6 DEF Visited
  <1>12. Knowledge' /\ History' /\ Pruning'
    <2>1. Knowledge'
      BY <1>1, <1>7, <1>11, Zenon DEF Knowledge
    <2>2. History'
      BY <1>1, <1>7, <1>11, Zenon DEF History
    <2>3. Pruning'
      BY <1>1, <1>6, <1>7 DEF Pruning
    <2> QED BY <2>1, <2>2, <2>3
  <1>13. Alternatives'
    <2>1. Live \subseteq Live' /\ Leaving' = {} /\ Leaving = {}
      BY <1>i, <1>1, <1>6, <1>7, <1>p, Zenon DEF Live, Leaving, Disabled, c
    <2>2. \A S : Configuration(S)' <=> Configuration(S)
      BY <1>p, SamePrefix, Zenon
    <2> QED BY <1>i, <1>p, <2>1, <2>2, Zenon DEF Alternatives
  <1>14. Alternative'
    <2>s. \A a, b \in evs : a \in icnf[b] => b \in icnf[a]
      BY <1>i, Zenon DEF IInv, LocalConfigurations
    <2>c. c \subseteq evs /\ (\A x \in c : past[x] \subseteq c) /\ (\A a, b \in c : b \notin icnf[a])
      BY <1>1, <1>p, Zenon DEF IInv, TypeOK, StackIsConfiguration, ConflictFree
    <2>1. Configuration(c \cup v)
      <3>1. c \cup v \subseteq evs /\ \A x \in c \cup v : past[x] \subseteq c \cup v
        BY <1>4, <2>c DEF Configuration
      <3>2. \A a, b \in c \cup v : b \notin icnf[a]
        BY <1>4, <1>5, <2>c, <2>s DEF Configuration, ConflictFree
      <3> QED BY <3>1, <3>2 DEF Configuration, ConflictFree
    <2>2. PICK S : S = c \cup v
      BY Zenon
    <2>3. S = conf' \cup Top'.alt /\ conf' \cap Top'.alt = {}
      BY <1>1, <1>6, <1>7, <2>2
    <2>4. Configuration(S)'
      BY <1>p, <2>1, <2>2, SamePrefix
    <2>5. Configuration(conf \cup Top.alt)'
      BY <2>3, <2>4, Zenon DEF Configuration, ConflictFree
    <2>6. \A x \in Top'.d : icnf'[x] \cap (conf' \cup Top'.alt) # {}
      <3> SUFFICES ASSUME NEW x \in Disabled PROVE icnf[x] \cap S # {}
        BY <1>6, <1>7, <1>p, <2>3, Zenon
      <3>1. PICK y \in v : x \in icnf[y]
        BY <1>5
      <3>2. y \in icnf[x] /\ y \in S
        BY <1>3, <1>4, <2>s, <2>2, <3>1
      <3> QED BY <3>2
    <2>7. Top'.alt # {} /\ Top'.pc = "explore"
      <3>1. PICK y \in v : Top.e \in icnf[y]
        BY <1>5 DEF Disabled
      <3>2. y \notin c
        BY <1>i, <1>p, <3>1 DEF IInv, StackIsConfiguration, ConflictFree, c
      <3> QED BY <1>6, <1>7, <3>2
    <2> QED BY <2>3, <2>5, <2>6, <2>7, Zenon DEF Alternative
  <1> QED BY <1>1, <1>8, <1>9, <1>10, <1>12, <1>13, <1>14 DEF EInv

(* Either way, backtracking preserves the invariant. *)
LEMMA BacktrackInv == ASSUME EInv, Backtrack PROVE EInv'
  <1>1. stak[Len(stak)] = Top.e
    BY PopsMaximal
  <1>2. \/ frames' = Goto("again")
        \/ \E v : BacktrackInto(v)
    BY <1>1, Zenon DEF Backtrack, BacktrackInto
  <1> QED BY <1>2, GoOnInv, FollowInv, Zenon

-----------------------------------------------------------------------------
(* Every exploration starts with bottom alone on the stack. *)
LEMMA ExploreInitInv == ExploreInit => EInv
  <1> SUFFICES ASSUME ExploreInit PROVE EInv
    OBVIOUS
  <1>1. /\ IInv /\ stateless \in BOOLEAN /\ evs = {bot} /\ conf = {bot}
        /\ disa = [e \in {bot} |-> {}] /\ alte = [e \in {bot} |-> {}]
        /\ past = [e \in {bot} |-> {}] /\ stak = <<bot>> /\ frames = << >> /\ job = {bot} /\ visited = {}
    BY InitInv DEF ExploreInit, Init
  <1>2. Len(stak) = 1 /\ stak[1] = bot /\ stak \in Seq(Nat) /\ Len(frames) = 0 /\ frames \in Seq(Activations)
    BY <1>1 DEF bot
  <1>3. Active = {}
    BY <1>1, <1>2 DEF Active
  <1>4. Types
    BY <1>1, <1>2 DEF Types
  <1>5. Stack
    <2>1. Events(1) = {bot} /\ Events(0) = {}
      BY <1>2 DEF Events
    <2>2. \A k \in 1..Len(stak) : k = 1 /\ k - 1 = 0
      BY <1>2
    <2>3. past[bot] = {}
      BY <1>1
    <2> QED BY <1>1, <1>2, <2>1, <2>2, <2>3 DEF Stack
  <1>6. Running /\ Chain
    BY <1>1, <1>2 DEF Running, Chain
  <1>7. Knowledge /\ Alternative /\ Pruning /\ History
    BY <1>1, <1>3, Zenon DEF Knowledge, Alternative, Pruning, History
  <1>8. Alternatives
    BY <1>1 DEF Alternatives
  <1> QED BY <1>1, <1>4, <1>5, <1>6, <1>7, <1>8 DEF EInv

(* bot_explore calls explore on the initial configuration. *)
LEMMA StartInv == ASSUME EInv, Start PROVE EInv'
  <1>i. /\ IInv /\ Types /\ Stack /\ Running /\ Alternatives /\ job # {} /\ frames = << >> /\ job' = {}
        /\ UNCHANGED <<vars, stak>> /\ UNCHANGED <<stateless, disa, alte, visited>>
    BY DEF EInv, Start
  <1>0. PICK w : w = Frame(1, Extensions(conf), {}, {})
    OBVIOUS
  <1>1. IInv'
    BY <1>i, NextInv DEF vars
  <1>2. Extensions(conf) \subseteq evs /\ evs \subseteq Nat /\ Extensions(conf) \in SUBSET Nat
    BY <1>i DEF IInv, TypeOK, Extensions
  <1>3. /\ w \in Activations /\ w.pc = "explore" /\ w.size = 1 /\ w.en = Extensions(conf) /\ w.d = {}
        /\ w.alt = {} /\ w.dels = {}
    <2>0. PICK size, en, d : size = 1 /\ en = Extensions(conf) /\ d = {}
      BY Zenon
    <2>1. size \in Nat \ {0} /\ en \in SUBSET Nat /\ d \in SUBSET Nat
      BY <1>2, <2>0
    <2>2. w = Frame(size, en, d, d)
      BY <1>0, <2>0
    <2>3. /\ w \in Activations /\ w.pc = "explore" /\ w.size = size /\ w.en = en /\ w.d = d
          /\ w.alt = d /\ w.dels = {}
      BY <2>1, <2>2, FrameFacts
    <2> QED BY <2>0, <2>3
  <1>4. frames' = <<w>>
    BY <1>0 DEF Start
  <1>5. frames' \in Seq(Activations) /\ Len(frames') = 1 /\ frames'[1] = w /\ frames' # << >>
    BY <1>3, <1>4
  <1>6. Top' = w /\ Active' = {w}
    BY <1>5 DEF Top, Active
  <1>7. Len(stak) = 1 /\ visited = {} /\ conf = Events(1)
    BY <1>i DEF Running, Stack
  <1>8. Types' /\ Stack'
    BY <1>i, <1>5, Quiet DEF Types, vars
  <1>9. Running'
    <2>1. job' = {} /\ Len(stak') = 1
      BY <1>i, <1>7
    <2> QED BY <1>3, <1>5, <1>6, <2>1 DEF Running
  <1>10. Chain'
    BY <1>3, <1>5 DEF Chain
  <1>11. Knowledge'
    <2>1. w.en \cap evs = Extensions(Events(w.size)) /\ \A x \in w.en : x < cntr
      BY <1>i, <1>2, <1>3, <1>7 DEF IInv, Rooted
    <2>2. Known(w)
      BY <1>3, <2>1 DEF Known
    <2> QED BY <1>i, <1>6, <2>2, Quiet DEF Knowledge
  <1>12. Alternative'
    <2>1. PICK S : S = conf
      OBVIOUS
    <2>2. Configuration(S)
      BY <1>i, <2>1 DEF Configuration, IInv, TypeOK, StackIsConfiguration
    <2>3. Configuration(S)' /\ conf' = S /\ evs' = evs
      BY <1>i, <2>1, <2>2, Quiet DEF vars
    <2>4. conf' \cup Top'.alt = S
      BY <1>3, <1>6, <2>3
    <2>5. Configuration(conf \cup Top.alt)'
      BY <2>3, <2>4, Zenon DEF Configuration, ConflictFree
    <2> QED BY <1>2, <1>3, <1>6, <2>3, <2>5, Zenon DEF Alternative
  <1>13. Alternatives'
    <2>1. Live = Live' /\ Leaving' = {} /\ Leaving = {}
      BY <1>i, <1>3, <1>5, <1>6 DEF Live, Leaving, vars
    <2>2. evs' = evs /\ \A S : Configuration(S)' <=> Configuration(S)
      BY <1>i, Quiet DEF vars
    <2> QED BY <1>i, <2>1, <2>2 DEF Alternatives
  <1>14. Pruning' /\ History'
    BY <1>i, <1>3, <1>6, <1>7 DEF Pruning, History, Visited
  <1> QED BY <1>1, <1>8, <1>9, <1>10, <1>11, <1>12, <1>13, <1>14 DEF EInv

(* Every step preserves the invariant. *)
LEMMA ExploreStepInv == ASSUME EInv, [ExploreNext]_all PROVE EInv'
  <1>1. ASSUME NEW h \in SUBSET evs, NEW cnfls \in SUBSET evs, AddEvent(h, cnfls) PROVE EInv'
    BY <1>1, AddEventInv
  <1>2. CASE Start \/ Unfold \/ ExploreMaximal \/ \E e \in evs : ExploreEvent(e)
    BY <1>2, StartInv, UnfoldInv, MaximalInv, EventInv, Zenon
  <1>3. CASE Backtrack \/ Return \/ ReturnStateless \/ (\E x \in evs : Prune(x)) \/ Pruned
    BY <1>3, BacktrackInv, ReturnInv, ReturnStatelessInv, PruneInv, PrunedInv, Zenon
  <1>4. CASE UNCHANGED all
    <2>1. /\ UNCHANGED <<vars, stak>> /\ UNCHANGED <<stateless, disa, alte, frames, job, visited>>
          /\ IInv /\ Types /\ Stack /\ Running /\ Chain /\ Knowledge /\ Alternative /\ Alternatives
          /\ Pruning /\ History
      BY <1>4 DEF all, EInv
    <2>2. Active' = Active /\ Top' = Top /\ conf' = conf /\ evs' = evs /\ icnf' = icnf
      BY <2>1 DEF Active, Top, vars
    <2>3. IInv' /\ Types' /\ Stack' /\ Running' /\ Chain'
      <3>1. IInv'
        BY <2>1, NextInv DEF vars
      <3>2. Types' /\ Stack'
        BY <2>1, <2>2, Quiet DEF Types
      <3>3. Running' /\ Chain'
        BY <2>1, <2>2, Zenon DEF Running, Chain, Linked, Follows
      <3> QED BY <3>1, <3>2, <3>3
    <2>4. Knowledge' /\ History'
      <3>1. \A k : Events(k)' = Events(k)
        BY <2>1, Quiet
      <3> QED BY <2>1, <2>2, <3>1, Quiet DEF Knowledge, History, Visited
    <2>5. Alternative'
      BY <2>1, <2>2, Zenon DEF Alternative, Configuration, ConflictFree, vars
    <2>6. Alternatives'
      BY <2>1, <2>2, Quiet DEF Alternatives, Live, Leaving, Disabled
    <2>7. Pruning'
      <3>1. core' = core
        BY <2>1, <2>2 DEF core
      <3> QED BY <2>1, <2>2, <3>1, Zenon DEF Pruning
    <2> QED BY <2>3, <2>4, <2>5, <2>6, <2>7 DEF EInv
  <1> QED BY <1>1, <1>2, <1>3, <1>4, Zenon DEF ExploreNext

(* The invariant of the exploration, for every prefix and recursion. *)
THEOREM ExplorationInvariance == ExploreSpec => []EInv
  BY ExploreInitInv, ExploreStepInv, PTL DEF ExploreSpec

(* The exploration builds and walks an event structure: all that is proved  *)
(* of EventStructure holds of it.                                           *)
THEOREM ExplorationRefines == ExploreSpec => Spec
  <1>1. ExploreInit => Init
    BY DEF ExploreInit
  <1>2. EInv /\ [ExploreNext]_all => [Next]_vars
    BY StepRefines
  <1> QED BY <1>1, <1>2, ExplorationInvariance, PTL DEF ExploreSpec, Spec

-----------------------------------------------------------------------------
(* No call of error in explore: the alternative has an enabled event, and   *)
(* get_event finds what alt2, core and prune ask for, deletions included.   *)
THEOREM NeverFails == ExploreSpec => []NoFailure
  <1>1. EInv => NoFailure
    <2> SUFFICES ASSUME EInv PROVE NoFailure
      OBVIOUS
    <2>1. ASSUME At("explore"), Top.en # {} PROVE Candidates # {} /\ Candidates \subseteq evs
      <3>1. Configuration(conf \cup Top.alt) /\ (Top.alt = {} => Top.en \subseteq evs)
        BY <2>1 DEF EInv, At, Alternative
      <3>2. Top.alt # {} => Top.en \cap Top.alt # {}
        BY <2>1, AlternativeEnabled
      <3> QED BY <2>1, <3>1, <3>2 DEF Candidates, Configuration
    <2>2. ASSUME At("call") \/ At("again")
          PROVE  Disabled \subseteq evs /\ \A x \in Disabled : UNION alte[x] \subseteq evs
      <3>1. /\ frames # << >> /\ Top.pc \in {"call", "again"} /\ Types /\ Knowledge /\ Pruning /\ Alternatives
        BY <2>2 DEF At, EInv
      <3>2. Known(Top) /\ Leaving = {}
        BY <3>1, TopFacts DEF Knowledge, Pruning, Leaving
      <3>3. Disabled \subseteq evs
        BY <3>1, <3>2 DEF Known, Disabled
      <3> QED BY <3>1, <3>2, <3>3 DEF Alternatives, Configuration
    <2> QED BY <2>1, <2>2 DEF NoFailure
  <1> QED BY <1>1, ExplorationInvariance, PTL

(* Every activation finds its configuration as it left it, whatever the     *)
(* calls in between added and deleted.                                      *)
THEOREM AlwaysResumes == ExploreSpec => []Resumes
  <1>1. EInv => Resumes
    <2> SUFFICES ASSUME EInv PROVE Resumes
      OBVIOUS
    <2>1. Types /\ Stack /\ Running /\ Knowledge
      BY DEF EInv
    <2>2. At("call") => stak[Len(stak)] = Top.e
      <3> SUFFICES ASSUME At("call") PROVE stak[Len(stak)] = Top.e
        OBVIOUS
      <3>1. frames # << >> /\ Top.pc = "call"
        BY DEF At
      <3>2. Len(frames) \in 1..Len(frames) /\ Top = frames[Len(frames)]
        BY <2>1, <3>1, TopFacts
      <3> QED BY <2>1, <3>1, <3>2 DEF Running
    <2>3. ASSUME NEW i \in 1..Len(frames) PROVE frames[i].en \cap evs = Extensions(Events(frames[i].size))
      <3>1. frames[i] \in Active
        BY Zenon DEF Active
      <3> QED BY <2>1, <3>1 DEF Knowledge, Known
    <2> QED BY <2>1, <2>2, <2>3 DEF Resumes, Stack
  <1> QED BY <1>1, ExplorationInvariance, PTL

(* A disabled event stays out of every configuration explored below the     *)
(* call that disabled it.                                                   *)
THEOREM DisabledAlwaysOut == ExploreSpec => []DisabledStayOut
  <1>1. EInv => DisabledStayOut
    BY DEF EInv, Alternative, DisabledStayOut, At
  <1> QED BY <1>1, ExplorationInvariance, PTL

(* No maximal configuration is explored twice, whatever the program, in     *)
(* stateful and in stateless mode.                                          *)
THEOREM OptimalExploration == ExploreSpec => []NeverTwice
  <1>1. EInv => NeverTwice
    <2> SUFFICES ASSUME EInv, At("explore"), Top.en = {}, conf \in visited PROVE FALSE
      BY DEF NeverTwice
    <2>1. frames # << >> /\ Top.pc = "explore" /\ Types /\ IInv /\ History /\ Alternative
      BY DEF At, EInv
    <2>2. Top.alt = {}
      BY AlternativeEnabled
    <2>3. \A x \in Top.d : icnf[x] \cap conf # {}
      BY <2>1, <2>2 DEF Alternative
    <2>4. conf \cap Top.d = {}
      BY <2>1, <2>3 DEF IInv, StackIsConfiguration, ConflictFree
    <2>5. Visited(Top)
      BY <2>1, TopFacts DEF History
    <2> QED BY <2>1, <2>4, <2>5 DEF Visited
  <1> QED BY <1>1, ExplorationInvariance, PTL
=============================================================================
