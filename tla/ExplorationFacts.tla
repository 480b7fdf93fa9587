-------------------------- MODULE ExplorationFacts --------------------------
(***************************************************************************)
(* The inductive invariant EInv of Exploration, and what follows from it:   *)
(* how the stack and the list of activations change, and that every step of *)
(* the exploration is a step of the event structure or leaves it alone.     *)
(***************************************************************************)
EXTENDS EventStructureProofs, Exploration

Activations ==
  [pc : {"explore", "unfold", "call", "again", "prune"}, size : Nat \ {0}, e : Nat, en : SUBSET Nat,
   d : SUBSET Nat, alt : SUBSET Nat, dels : SUBSET Nat]

Active == {frames[i] : i \in 1..Len(frames)}

Types ==
  /\ stateless \in BOOLEAN /\ disa \in [evs -> SUBSET Nat] /\ alte \in [evs -> SUBSET SUBSET Nat]
  /\ stak \in Seq(Nat) /\ frames \in Seq(Activations)

(* The stack lists the configuration in an order its events can occur in. *)
Stack ==
  /\ Len(stak) >= 1 /\ stak[1] = bot /\ conf = Events(Len(stak))
  /\ \A k \in 1..Len(stak) : past[stak[k]] \subseteq Events(k - 1) /\ stak[k] \notin Events(k - 1)

(* Only the last activation is not in a call, and only it can be in unfold. *)
Running ==
  /\ frames = << >> /\ job # {} => job = {bot} /\ Len(stak) = 1 /\ visited = {}
  /\ frames # << >> => /\ job = IF Top.pc = "unfold" THEN {Top.e} ELSE {}
                       /\ Len(stak) = IF Top.pc = "call" THEN Top.size + 1 ELSE Top.size
  /\ \A i \in 1..Len(frames) :
       /\ i < Len(frames) => frames[i].pc \in {"call", "again"}
       /\ frames[i].pc = "call" => frames[i].size < Len(stak) /\ stak[frames[i].size + 1] = frames[i].e

(* From one activation to the next *)
Linked(f, g) ==
  /\ f.size <= g.size /\ f.d \subseteq g.d
  /\ f.pc = "call" => f.size < g.size
  /\ f.pc = "again" => f.e \in g.d

Follows(f, g) ==
  /\ f.pc = "call" => g.size = f.size + 1 /\ g.d = f.d
  /\ f.pc = "again" => g.size = f.size /\ g.d = f.d \cup {f.e}

Chain ==
  /\ \A i, j \in 1..Len(frames) : i < j => Linked(frames[i], frames[j])
  /\ \A i \in 1..Len(frames) : i < Len(frames) => Follows(frames[i], frames[i + 1])
  /\ frames # << >> => frames[1].d = {}

(* What an activation knows of its configuration stays true. *)
Known(f) ==
  /\ f.en \cap evs = Extensions(Events(f.size)) /\ \A x \in f.en : x < cntr
  /\ \A x \in f.d : x \in evs /\ past[x] \subseteq Events(f.size)
  /\ f.pc \in {"unfold", "call", "again"} => f.e \in evs /\ f.e \in f.en

Knowledge == \A f \in Active : Known(f)

(* Before its choice is executed: the alternative can be followed to its    *)
(* end, and keeps the disabled events out.                                  *)
Alternative ==
  frames # << >> /\ Top.pc \in {"explore", "unfold"} =>
    /\ Configuration(conf \cup Top.alt) /\ conf \cap Top.alt = {}
    /\ Top.alt = {} => Top.en \subseteq evs
    /\ Top.pc = "unfold" /\ Top.alt # {} => Top.e \in Top.alt
    /\ \A x \in Top.d : icnf[x] \cap (conf \cup Top.alt) # {}

(* The events whose alternatives are still needed *)
Live == conf \cup (IF frames = << >> THEN {} ELSE IF Top.pc = "again" THEN Disabled ELSE Top.d)
Leaving == IF frames = << >> THEN {} ELSE Top.dels

Alternatives ==
  /\ \A x \in evs \ Leaving : \A v \in alte[x] : Configuration(v)
  /\ stateless => \A x \in evs : alte[x] # {} => x \in Live \cup Leaving

Pruning ==
  /\ \A f \in Active : f.pc # "prune" => f.dels = {}
  /\ frames # << >> /\ Top.pc = "prune" => stateless /\ Top.dels \subseteq evs /\ Top.dels \cap core = {}

(* Where the maximal configurations explored so far lie *)
Visited(f) ==
  \A M \in visited :
    \/ M \cap f.d # {}
    \/ f.pc = "call" /\ Events(f.size) \cup {f.e} \subseteq M
    \/ f.pc \in {"again", "prune"} /\ Events(f.size) \subseteq M

History == \A f \in Active : Visited(f)

EInv ==
  /\ IInv /\ Types /\ Stack /\ Running /\ Chain /\ Knowledge /\ Alternative /\ Alternatives
  /\ Pruning /\ History

-----------------------------------------------------------------------------
(* The three things that happen to the list of activations: the last one    *)
(* returns ...                                                              *)
LEMMA Popped ==
  ASSUME NEW S, NEW s \in Seq(S), s # << >>, NEW m, m = Len(s) - 1, NEW t, t = SubSeq(s, 1, m)
  PROVE  /\ Len(s) \in Nat \ {0} /\ t \in Seq(S) /\ Len(t) = m
         /\ \A i \in 1..m : t[i] = s[i]
  <1>1. Len(s) \in Nat \ {0} /\ m \in Nat /\ \A i \in 1..m : s[i] \in S
    OBVIOUS
  <1>2. t \in Seq(S) /\ Len(t) = m /\ \A i \in 1..m : t[i] = s[i]
    BY <1>1
  <1> QED BY <1>1, <1>2

(* ... or changes ...                                                       *)
LEMMA Changed ==
  ASSUME NEW S, NEW s \in Seq(S), s # << >>, NEW g \in S, NEW t, t = [s EXCEPT ![Len(s)] = g]
  PROVE  /\ Len(s) \in Nat \ {0} /\ t \in Seq(S) /\ Len(t) = Len(s) /\ t[Len(s)] = g
         /\ \A i \in 1..(Len(s) - 1) : t[i] = s[i]
  <1>1. Len(s) \in Nat \ {0} /\ Len(s) \in 1..Len(s)
    OBVIOUS
  <1>2. t \in Seq(S) /\ Len(t) = Len(s)
    BY <1>1
  <1>3. t[Len(s)] = g /\ \A i \in 1..(Len(s) - 1) : t[i] = s[i]
    BY <1>1
  <1> QED BY <1>1, <1>2, <1>3, Zenon

(* ... or changes and calls.                                                *)
LEMMA Called ==
  ASSUME NEW S, NEW s \in Seq(S), s # << >>, NEW g \in S, NEW f \in S, NEW t,
         t = Append([s EXCEPT ![Len(s)] = g], f)
  PROVE  /\ Len(s) \in Nat \ {0} /\ t \in Seq(S) /\ Len(t) = Len(s) + 1
         /\ t[Len(s) + 1] = f /\ t[Len(s)] = g
         /\ \A i \in 1..(Len(s) - 1) : t[i] = s[i]
  <1> DEFINE u == [s EXCEPT ![Len(s)] = g]
  <1>1. /\ u \in Seq(S) /\ Len(u) = Len(s) /\ Len(s) \in Nat \ {0} /\ u[Len(s)] = g
        /\ \A i \in 1..(Len(s) - 1) : u[i] = s[i]
    BY Changed
  <1>2. t = Append(u, f)
    OBVIOUS
  <1> HIDE DEF u
  <1>3. t \in Seq(S) /\ Len(t) = Len(s) + 1 /\ t[Len(s) + 1] = f
    BY <1>1, <1>2
  <1>4. \A i \in 1..Len(s) : t[i] = u[i]
    BY <1>1, <1>2
  <1> QED BY <1>1, <1>3, <1>4

-----------------------------------------------------------------------------
(* A part of the stack, from its bottom, is closed under causes. *)
LEMMA StackFacts ==
  ASSUME Types, Stack
  PROVE  /\ Len(stak) \in Nat \ {0} /\ \A k \in 1..Len(stak) : stak[k] \in Nat /\ stak[k] \in conf
         /\ \A m \in 0..Len(stak) : /\ Events(m) \subseteq conf
                                    /\ \A k \in 0..m : Events(k) \subseteq Events(m)
                                    /\ \A x \in Events(m) : past[x] \subseteq Events(m)
         /\ \A m \in 1..Len(stak) : bot \in Events(m) /\ Events(m) = Events(m - 1) \cup {stak[m]}
  <1>1. Len(stak) \in Nat \ {0} /\ \A k \in 1..Len(stak) : stak[k] \in Nat
    BY DEF Types, Stack
  <1>2. \A m \in 0..Len(stak) : \A k \in 0..m : Events(k) \subseteq Events(m)
    BY <1>1 DEF Events
  <1>3. \A m \in 0..Len(stak) : Events(m) \subseteq conf
    BY <1>1, <1>2 DEF Stack
  <1>4. \A k \in 1..Len(stak) : stak[k] \in conf
    BY <1>1 DEF Stack, Events
  <1>5. ASSUME NEW m \in 0..Len(stak), NEW x \in Events(m) PROVE past[x] \subseteq Events(m)
    <2>1. PICK k \in 1..m : x = stak[k]
      BY <1>5 DEF Events
    <2>2. k \in 1..Len(stak) /\ k - 1 \in 0..m
      BY <1>1
    <2>3. past[x] \subseteq Events(k - 1)
      BY <2>1, <2>2 DEF Stack
    <2> QED BY <2>2, <2>3, <1>2
  <1>6. \A m \in 1..Len(stak) : bot \in Events(m)
    BY <1>1 DEF Stack, Events
  <1>7. ASSUME NEW m \in 1..Len(stak) PROVE Events(m) = Events(m - 1) \cup {stak[m]}
    <2>1. 1..m = (1..(m - 1)) \cup {m}
      BY <1>1
    <2> QED BY <2>1, Zenon DEF Events
  <1> QED BY <1>1, <1>2, <1>3, <1>4, <1>5, <1>6, <1>7

(* push leaves the parts of the stack alone and adds e on top. *)
LEMMA Pushed ==
  ASSUME Types, NEW e \in Nat, stak' = Append(stak, e)
  PROVE  /\ stak' \in Seq(Nat) /\ Len(stak') = Len(stak) + 1 /\ stak'[Len(stak) + 1] = e
         /\ \A k \in 1..Len(stak) : stak'[k] = stak[k]
         /\ \A k \in 0..Len(stak) : Events(k)' = Events(k)
         /\ \A k \in Nat : k = Len(stak) + 1 => Events(k)' = Events(Len(stak)) \cup {e}
  <1>1. /\ Len(stak) \in Nat /\ stak' \in Seq(Nat) /\ Len(stak') = Len(stak) + 1 /\ stak'[Len(stak) + 1] = e
        /\ \A k \in 1..Len(stak) : stak'[k] = stak[k]
    BY DEF Types
  <1>2. ASSUME NEW k \in 0..Len(stak) PROVE Events(k)' = Events(k)
    <2>1. \A j \in 1..k : stak'[j] = stak[j]
      BY <1>1
    <2> QED BY <2>1, Zenon DEF Events
  <1>3. 1..(Len(stak) + 1) = (1..Len(stak)) \cup {Len(stak) + 1}
    BY <1>1
  <1>4. ASSUME NEW k \in Nat, k = Len(stak) + 1 PROVE Events(k)' = Events(Len(stak)) \cup {e}
    <2>1. \A x : x \in Events(k)' <=> \E j \in 1..k : x = stak'[j]
      BY Zenon DEF Events
    <2>2. \A x : x \in Events(Len(stak)) <=> \E j \in 1..Len(stak) : x = stak[j]
      BY Zenon DEF Events
    <2>3. 1..k = (1..Len(stak)) \cup {k} /\ stak'[k] = e
      BY <1>1, <1>3, <1>4
    <2>4. \A j \in 1..Len(stak) : stak'[j] = stak[j]
      BY <1>1
    <2>5. \A x : (\E j \in 1..k : x = stak'[j]) <=> (x = e \/ \E j \in 1..Len(stak) : x = stak[j])
      BY <2>3, <2>4, Zenon
    <2> QED BY <2>1, <2>2, <2>5, Zenon
  <1> QED BY <1>1, <1>2, <1>4

(* pop takes the top off and leaves the parts below it alone. *)
LEMMA TakenOff ==
  ASSUME Types, stak # << >>, stak' = SubSeq(stak, 1, Len(stak) - 1)
  PROVE  /\ stak' \in Seq(Nat) /\ Len(stak') = Len(stak) - 1 /\ Len(stak) \in Nat \ {0}
         /\ \A k \in 1..(Len(stak) - 1) : stak'[k] = stak[k]
         /\ \A k \in 0..(Len(stak) - 1) : Events(k)' = Events(k)
  <1>1. /\ stak' \in Seq(Nat) /\ Len(stak') = Len(stak) - 1 /\ Len(stak) \in Nat \ {0}
        /\ \A k \in 1..(Len(stak) - 1) : stak'[k] = stak[k]
    <2> DEFINE m == Len(stak) - 1
    <2>1. stak \in Seq(Nat) /\ stak' = SubSeq(stak, 1, m) /\ m = Len(stak) - 1
      BY DEF Types
    <2> HIDE DEF m
    <2>2. /\ Len(stak) \in Nat \ {0} /\ stak' \in Seq(Nat) /\ Len(stak') = m
          /\ \A i \in 1..m : stak'[i] = stak[i]
      BY <2>1, Popped
    <2> QED BY <2>1, <2>2
  <1>2. ASSUME NEW k \in 0..(Len(stak) - 1) PROVE Events(k)' = Events(k)
    <2>1. \A j \in 1..k : stak'[j] = stak[j]
      BY <1>1
    <2> QED BY <2>1, Zenon DEF Events
  <1> QED BY <1>1, <1>2

-----------------------------------------------------------------------------
(* The running activation is the last of the list. *)
LEMMA TopFacts ==
  ASSUME Types, frames # << >>
  PROVE  /\ Len(frames) \in Nat \ {0} /\ Top = frames[Len(frames)] /\ Top \in Activations /\ Top \in Active
         /\ \A i \in 1..Len(frames) : frames[i] \in Activations /\ frames[i] \in Active
         /\ \A f \in Active : f \in Activations /\ \E i \in 1..Len(frames) : f = frames[i]
  <1>1. /\ frames \in Seq(Activations) /\ Len(frames) \in Nat \ {0} /\ Len(frames) \in 1..Len(frames)
        /\ \A i \in 1..Len(frames) : frames[i] \in Activations
    BY DEF Types
  <1> QED BY <1>1, Zenon DEF Top, Active

(* explore returns. *)
LEMMA Returns ==
  ASSUME Types, frames # << >>, frames' = Callers
  PROVE  /\ frames' \in Seq(Activations) /\ Len(frames') = Len(frames) - 1
         /\ \A i \in 1..(Len(frames) - 1) : frames'[i] = frames[i]
         /\ Active' \subseteq {frames[i] : i \in 1..(Len(frames) - 1)} /\ Active' \subseteq Active
         /\ frames' # << >> => Len(frames) - 1 \in Nat \ {0} /\ Top' = frames[Len(frames) - 1]
  <1> DEFINE m == Len(frames) - 1
  <1>1. frames \in Seq(Activations) /\ frames' = SubSeq(frames, 1, m) /\ m = Len(frames) - 1
    BY DEF Types, Callers
  <1> HIDE DEF m
  <1>2. /\ Len(frames) \in Nat \ {0} /\ frames' \in Seq(Activations) /\ Len(frames') = m
        /\ \A i \in 1..m : frames'[i] = frames[i]
    BY <1>1, Popped
  <1>3. Active' \subseteq {frames[i] : i \in 1..m}
    BY <1>2, Zenon DEF Active
  <1>4. {frames[i] : i \in 1..m} \subseteq Active
    <2>1. \A i \in 1..m : i \in 1..Len(frames)
      BY <1>1, <1>2
    <2> QED BY <2>1, Zenon DEF Active
  <1>5. frames' # << >> => m \in Nat \ {0} /\ m \in 1..m
    BY <1>1, <1>2
  <1>6. frames' # << >> => Top' = frames[m]
    BY <1>2, <1>5 DEF Top
  <1> QED BY <1>1, <1>2, <1>3, <1>4, <1>5, <1>6

(* explore goes on. *)
LEMMA Moves ==
  ASSUME Types, frames # << >>, NEW g \in Activations, frames' = Set(g)
  PROVE  /\ frames' \in Seq(Activations) /\ frames' # << >> /\ Len(frames') = Len(frames) /\ Top' = g
         /\ frames'[Len(frames)] = g
         /\ \A i \in 1..(Len(frames) - 1) : frames'[i] = frames[i]
         /\ Active' \subseteq Active \cup {g}
  <1>1. /\ Len(frames) \in Nat \ {0} /\ frames' \in Seq(Activations) /\ Len(frames') = Len(frames)
        /\ frames'[Len(frames)] = g
        /\ \A i \in 1..(Len(frames) - 1) : frames'[i] = frames[i]
    BY Changed DEF Types, Set
  <1>2. Top' = g /\ frames' # << >>
    BY <1>1 DEF Top
  <1>3. \A i \in 1..Len(frames) : i = Len(frames) \/ i \in 1..(Len(frames) - 1)
    BY <1>1
  <1>4. Active' \subseteq Active \cup {g}
    BY <1>1, <1>3, Zenon DEF Active
  <1> QED BY <1>1, <1>2, <1>4

(* explore calls itself. *)
LEMMA Calls ==
  ASSUME Types, frames # << >>, NEW g \in Activations, NEW f \in Activations, frames' = Append(Set(g), f)
  PROVE  /\ frames' \in Seq(Activations) /\ frames' # << >> /\ Len(frames') = Len(frames) + 1 /\ Top' = f
         /\ frames'[Len(frames)] = g /\ frames'[Len(frames) + 1] = f
         /\ \A i \in 1..(Len(frames) - 1) : frames'[i] = frames[i]
         /\ Active' \subseteq Active \cup {g, f}
  <1>1. /\ Len(frames) \in Nat \ {0} /\ frames' \in Seq(Activations) /\ Len(frames') = Len(frames) + 1
        /\ frames'[Len(frames)] = g /\ frames'[Len(frames) + 1] = f
        /\ \A i \in 1..(Len(frames) - 1) : frames'[i] = frames[i]
    BY Called DEF Types, Set
  <1>2. Top' = f /\ frames' # << >>
    BY <1>1 DEF Top
  <1>3. \A i \in 1..(Len(frames) + 1) : i = Len(frames) + 1 \/ i = Len(frames) \/ i \in 1..(Len(frames) - 1)
    BY <1>1
  <1>5. \A i \in 1..(Len(frames) - 1) : i \in 1..Len(frames)
    BY <1>1
  <1>4. Active' \subseteq Active \cup {g, f}
    BY <1>1, <1>3, <1>5, Zenon DEF Active
  <1> QED BY <1>1, <1>2, <1>4

-----------------------------------------------------------------------------
(* Disabled events and configurations grow along the list of activations,   *)
(* whichever way it changes.                                                *)
LEMMA ChainReturns ==
  ASSUME Types, Chain, frames # << >>, frames' = Callers
  PROVE  Chain'
  <1>1. /\ Len(frames) \in Nat \ {0} /\ Len(frames') = Len(frames) - 1
        /\ \A i \in 1..(Len(frames) - 1) : frames'[i] = frames[i]
    BY Returns, TopFacts
  <1>2. \A i \in 1..Len(frames') : i \in 1..Len(frames) /\ frames'[i] = frames[i]
    BY <1>1
  <1>3. \A i \in 1..Len(frames') : i < Len(frames') => i + 1 \in 1..Len(frames') /\ i < Len(frames)
    BY <1>1
  <1>4. \A i, j \in 1..Len(frames') : i < j => Linked(frames'[i], frames'[j])
    BY <1>2 DEF Chain
  <1>5. \A i \in 1..Len(frames') : i < Len(frames') => Follows(frames'[i], frames'[i + 1])
    BY <1>2, <1>3 DEF Chain
  <1>6. frames' # << >> => frames'[1].d = {}
    <2> SUFFICES ASSUME frames' # << >> PROVE frames'[1].d = {}
      OBVIOUS
    <2>1. 1 \in 1..Len(frames')
      BY <1>1, Returns
    <2> QED BY <2>1, <1>2 DEF Chain
  <1> QED BY <1>4, <1>5, <1>6, Zenon DEF Chain, Linked, Follows

(* The activations stay linked when the last one only changes. *)
LEMMA ChainMoves ==
  ASSUME Types, Chain, frames # << >>, NEW g \in Activations, frames' = Set(g),
         g.size = Top.size, g.d = Top.d
  PROVE  Chain'
  <1> DEFINE n == Len(frames)
  <1>1. /\ n \in Nat \ {0} /\ Len(frames') = n /\ frames'[n] = g /\ Top = frames[n]
        /\ \A i \in 1..(n - 1) : frames'[i] = frames[i]
    BY Moves, TopFacts
  <1> HIDE DEF n
  <1>2. \A i \in 1..n : frames'[i].size = frames[i].size /\ frames'[i].d = frames[i].d
    <2> TAKE i \in 1..n
    <2>1. CASE i = n
      BY <2>1, <1>1
    <2>2. CASE i \in 1..(n - 1)
      BY <2>2, <1>1
    <2> QED BY <2>1, <2>2, <1>1
  <1>3. \A i \in 1..n : i < n => frames'[i] = frames[i] /\ i + 1 \in 1..n
    BY <1>1
  <1>4. \A i, j \in 1..n : i < j => i < n
    BY <1>1
  <1>5. \A i, j \in 1..n : i < j => Linked(frames'[i], frames'[j])
    BY <1>2, <1>3, <1>4 DEF Chain, Linked, n
  <1>6. ASSUME NEW i \in 1..n, i < n PROVE Follows(frames'[i], frames'[i + 1])
    <2>1. frames'[i] = frames[i] /\ i + 1 \in 1..n
      BY <1>3, <1>6
    <2>2. frames'[i + 1].size = frames[i + 1].size /\ frames'[i + 1].d = frames[i + 1].d
      BY <2>1, <1>2, Zenon
    <2>3. Follows(frames[i], frames[i + 1])
      BY <1>6 DEF Chain, n
    <2> QED BY <2>1, <2>2, <2>3, Zenon DEF Follows
  <1>7. frames'[1].d = {}
    <2>1. 1 \in 1..n
      BY <1>1
    <2> QED BY <2>1, <1>2 DEF Chain
  <1>8. \A i, j \in 1..Len(frames') : i < j => Linked(frames'[i], frames'[j])
    BY <1>1, <1>5
  <1>9. \A i \in 1..Len(frames') : i < Len(frames') => Follows(frames'[i], frames'[i + 1])
    BY <1>1, <1>6
  <1> QED BY <1>7, <1>8, <1>9, Zenon DEF Chain, Linked, Follows

(* The activations stay linked when the last one makes a call that follows it. *)
LEMMA ChainCalls ==
  ASSUME Types, Chain, frames # << >>, NEW g \in Activations, NEW f \in Activations,
         frames' = Append(Set(g), f), g.size = Top.size, g.d = Top.d, g.pc \in {"call", "again"}, Follows(g, f)
  PROVE  Chain'
  <1> DEFINE n == Len(frames)
  <1>1. /\ n \in Nat \ {0} /\ Len(frames') = n + 1 /\ frames'[n] = g /\ frames'[n + 1] = f /\ Top = frames[n]
        /\ \A i \in 1..(n - 1) : frames'[i] = frames[i]
    BY Calls, TopFacts
  <1>t. \A i \in 1..n : frames[i] \in Activations
    BY TopFacts
  <1> HIDE DEF n
  <1>2. \A i \in 1..n : frames'[i].size = frames[i].size /\ frames'[i].d = frames[i].d
    <2> TAKE i \in 1..n
    <2>1. CASE i = n
      BY <2>1, <1>1
    <2>2. CASE i \in 1..(n - 1)
      BY <2>2, <1>1
    <2> QED BY <2>1, <2>2, <1>1
  <1>3. \A i \in 1..n : i < n => frames'[i] = frames[i] /\ i + 1 \in 1..n
    BY <1>1
  <1>g. /\ g.size \in Nat /\ f.size \in Nat /\ g.size <= f.size /\ g.d \subseteq f.d
        /\ (g.pc = "call" => g.size < f.size) /\ (g.pc = "again" => g.e \in f.d)
    BY DEF Follows, Activations
  <1>4. ASSUME NEW i \in 1..(n + 1), NEW j \in 1..(n + 1), i < j PROVE Linked(frames'[i], frames'[j])
    <2>1. CASE j \in 1..n
      <3>1. i \in 1..n /\ i < n
        BY <2>1, <1>1, <1>4
      <3>2. frames'[i] = frames[i] /\ frames'[j].size = frames[j].size /\ frames'[j].d = frames[j].d
        BY <2>1, <3>1, <1>2, <1>3, Zenon
      <3>3. Linked(frames[i], frames[j])
        BY <2>1, <3>1, <1>4 DEF Chain, n
      <3> QED BY <3>2, <3>3, Zenon DEF Linked
    <2>2. CASE j = n + 1 /\ i = n
      BY <2>2, <1>1, <1>g DEF Linked
    <2>3. CASE j = n + 1 /\ i \in 1..(n - 1)
      <3>1. i \in 1..n /\ n \in 1..n /\ i < n /\ frames'[i] = frames[i] /\ frames'[j] = f
        BY <2>3, <1>1
      <3>2. Linked(frames[i], frames[n])
        BY <3>1 DEF Chain, n
      <3>3. frames[i].size \in Nat /\ frames[n].size = g.size /\ frames[n].d = g.d
        BY <3>1, <1>t, <1>1 DEF Activations
      <3>4. frames[i].size <= f.size /\ (frames[i].pc = "call" => frames[i].size < f.size)
        BY <3>2, <3>3, <1>g DEF Linked
      <3>5. frames[i].d \subseteq f.d /\ (frames[i].pc = "again" => frames[i].e \in f.d)
        BY <3>2, <3>3, <1>g DEF Linked
      <3> QED BY <3>1, <3>4, <3>5 DEF Linked
    <2> QED BY <2>1, <2>2, <2>3, <1>1, <1>4
  <1>5. ASSUME NEW i \in 1..(n + 1), i < n + 1 PROVE Follows(frames'[i], frames'[i + 1])
    <2>1. CASE i = n
      BY <2>1, <1>1
    <2>2. CASE i \in 1..(n - 1)
      <3>1. i \in 1..n /\ i < n /\ i + 1 \in 1..n /\ frames'[i] = frames[i]
        BY <2>2, <1>1
      <3>2. frames'[i + 1].size = frames[i + 1].size /\ frames'[i + 1].d = frames[i + 1].d
        BY <3>1, <1>2, Zenon
      <3>3. Follows(frames[i], frames[i + 1])
        BY <3>1 DEF Chain, n
      <3> QED BY <3>1, <3>2, <3>3 DEF Follows
    <2> QED BY <2>1, <2>2, <1>1, <1>5
  <1>6. \A i, j \in 1..Len(frames') : i < j => Linked(frames'[i], frames'[j])
    BY <1>1, <1>4
  <1>7. \A i \in 1..Len(frames') : i < Len(frames') => Follows(frames'[i], frames'[i + 1])
    BY <1>1, <1>5
  <1>8. frames'[1].d = {}
    <2>1. 1 \in 1..n
      BY <1>1
    <2>2. frames'[1].d = frames[1].d
      BY <2>1, <1>2
    <2> QED BY <2>2 DEF Chain
  <1> QED BY <1>6, <1>7, <1>8, Zenon DEF Chain, Linked, Follows

(* The configuration of every activation is a part of the stack, its        *)
(* disabled events are disabled in the running one, and the event it has    *)
(* chosen is on the stack or disabled.                                      *)
LEMMA ActiveFacts ==
  ASSUME Types, Stack, Running, Chain, frames # << >>
  PROVE  \A f \in Active :
           /\ f \in Activations /\ f.size \in 1..Len(stak) /\ Events(f.size) \subseteq conf
           /\ f.d \subseteq Top.d /\ f.size <= Top.size
           /\ f.pc = "call" => f.e \in conf
           /\ f # Top => f.pc \in {"call", "again"} /\ (f.pc = "again" => f.e \in Top.d)
  <1> SUFFICES ASSUME NEW f \in Active
               PROVE  /\ f \in Activations /\ f.size \in 1..Len(stak) /\ Events(f.size) \subseteq conf
                      /\ f.d \subseteq Top.d /\ f.size <= Top.size
                      /\ f.pc = "call" => f.e \in conf
                      /\ f # Top => f.pc \in {"call", "again"} /\ (f.pc = "again" => f.e \in Top.d)
    OBVIOUS
  <1> DEFINE n == Len(frames)
  <1>1. /\ n \in Nat \ {0} /\ Top = frames[n] /\ Top \in Activations /\ f \in Activations
        /\ \E i \in 1..n : f = frames[i]
    BY TopFacts
  <1>2. PICK i \in 1..n : f = frames[i]
    BY <1>1
  <1>3. /\ Top.size \in Nat \ {0} /\ f.size \in Nat \ {0}
        /\ Len(stak) = IF Top.pc = "call" THEN Top.size + 1 ELSE Top.size
    BY <1>1 DEF Running, Activations
  <1>c. f.pc = "call" => f.size < Len(stak) /\ stak[f.size + 1] = f.e
    BY <1>2 DEF Running
  <1>4. CASE i = n
    <2>1. f = Top
      BY <1>1, <1>2, <1>4
    <2>2. f.size \in 1..Len(stak)
      BY <2>1, <1>3
    <2>3. Events(f.size) \subseteq conf /\ (f.pc = "call" => f.e \in conf)
      <3>1. Events(f.size) \subseteq conf
        BY <2>2, StackFacts
      <3>2. f.pc = "call" => f.e = stak[f.size + 1] /\ f.size + 1 \in 1..Len(stak)
        BY <1>c, <1>3, <2>2
      <3> QED BY <3>1, <3>2, StackFacts
    <2> QED BY <2>1, <2>2, <2>3, <1>1, <1>3
  <1>5. CASE i < n
    <2>1. n \in 1..n /\ Linked(f, Top) /\ f.pc \in {"call", "again"}
      BY <1>1, <1>2, <1>5 DEF Chain, Running
    <2>2. f.size \in 1..Len(stak)
      BY <2>1, <1>3 DEF Linked
    <2>3. Events(f.size) \subseteq conf /\ (f.pc = "call" => f.e \in conf)
      <3>1. Events(f.size) \subseteq conf
        BY <2>2, StackFacts
      <3>2. f.pc = "call" => f.e = stak[f.size + 1] /\ f.size + 1 \in 1..Len(stak)
        BY <1>c, <1>3, <2>2
      <3> QED BY <3>1, <3>2, StackFacts
    <2> QED BY <2>1, <2>2, <2>3, <1>1 DEF Linked
  <1> QED BY <1>1, <1>4, <1>5

-----------------------------------------------------------------------------
(* The event that unfold pushes extends the configuration. *)
LEMMA PushesExtension ==
  ASSUME EInv, Unfold
  PROVE  /\ Top \in Activations /\ Top \in Active /\ Top.pc = "unfold" /\ Len(stak) = Top.size
         /\ conf = Events(Top.size) /\ Top.e \in evs /\ Push(Top.e)
  <1>1. Top \in Activations /\ Top \in Active
    BY TopFacts DEF EInv, Unfold
  <1>2. Top.pc = "unfold"
    BY DEF EInv, Running, Unfold
  <1>3. Len(stak) = Top.size /\ conf = Events(Top.size)
    BY <1>2 DEF EInv, Running, Unfold, Stack
  <1>4. Known(Top)
    BY <1>1 DEF EInv, Knowledge
  <1>5. Top.e \in evs /\ Top.e \in Extensions(conf)
    BY <1>2, <1>3, <1>4 DEF Known
  <1> QED BY <1>1, <1>2, <1>3, <1>5 DEF Extensions, Push, Unfold

(* The event that Backtrack pops is the one the activation pushed, and is   *)
(* maximal in the configuration.                                            *)
LEMMA PopsMaximal ==
  ASSUME EInv, Backtrack
  PROVE  /\ Top \in Activations /\ Top \in Active /\ Top.pc = "call" /\ Len(stak) = Top.size + 1
         /\ stak[Len(stak)] = Top.e /\ Top.e \in evs /\ Top.e \notin Events(Top.size)
         /\ conf \ {Top.e} = Events(Top.size) /\ Pop(Top.e)
  <1> DEFINE n == Len(stak)
             e == stak[n]
  <1>1. Top \in Activations /\ Top \in Active /\ Len(frames) \in 1..Len(frames) /\ Top = frames[Len(frames)]
    BY TopFacts DEF EInv, Backtrack, At
  <1>2. Top.pc = "call" /\ n = Top.size + 1 /\ Top.size \in Nat \ {0}
    BY <1>1 DEF EInv, Running, Backtrack, At, Activations
  <1>3. e = Top.e
    BY <1>1, <1>2 DEF EInv, Running
  <1>4. n \in 2..n /\ n \in 1..n /\ n - 1 = Top.size /\ 1 \in 1..(n - 1) /\ n - 1 \in 1..n
    BY <1>2
  <1>5. e \notin Events(n - 1) /\ conf = Events(n) /\ past[e] \subseteq Events(n - 1)
    BY <1>4 DEF EInv, Stack
  <1>6. Events(n) = Events(n - 1) \cup {e} /\ bot \in Events(n - 1)
    BY <1>4, StackFacts DEF EInv
  <1>7. \A x \in Events(n - 1) : past[x] \subseteq Events(n - 1)
    BY <1>4, StackFacts DEF EInv
  <1>8. \A x \in conf : e \notin past[x]
    BY <1>5, <1>6, <1>7
  <1>9. pop(e) /\ e \in evs
    BY <1>5, <1>6 DEF Backtrack, EInv, IInv, TypeOK
  <1> HIDE DEF n, e
  <1>10. Pop(e)
    BY <1>5, <1>6, <1>8, <1>9 DEF Pop
  <1> QED BY <1>1, <1>2, <1>3, <1>4, <1>5, <1>6, <1>9, <1>10 DEF n, e

(* prune deletes nothing of the configuration. *)
LEMMA DeletesOutside ==
  ASSUME EInv, NEW x \in evs, Prune(x)
  PROVE  Delete(x) /\ stateless /\ Top.pc = "prune" /\ x \notin core /\ x \in Top.dels
  BY DEF EInv, Pruning, Prune, At, core, Delete

(* Every step of the exploration is a step of the event structure. *)
LEMMA StepRefines ==
  ASSUME EInv, [ExploreNext]_all
  PROVE  [Next]_vars
  <1>1. ASSUME NEW h \in SUBSET evs, NEW cnfls \in SUBSET evs, AddEvent(h, cnfls) PROVE Next
    BY <1>1 DEF AddEvent, Next
  <1>2. CASE Unfold
    BY <1>2, PushesExtension DEF Next
  <1>3. CASE Backtrack
    BY <1>3, PopsMaximal DEF Next
  <1>4. ASSUME NEW x \in evs, Prune(x) PROVE Next
    BY <1>4, DeletesOutside DEF Next
  <1>5. ASSUME Start \/ ExploreMaximal \/ (\E e \in evs : ExploreEvent(e)) \/ Return \/ ReturnStateless \/ Pruned
               \/ UNCHANGED all
        PROVE  UNCHANGED vars
    <2>1. CASE Start \/ ExploreMaximal \/ \E e \in evs : ExploreEvent(e)
      BY <2>1, Zenon DEF Start, ExploreMaximal, ExploreEvent
    <2>2. CASE Return \/ ReturnStateless \/ Pruned \/ UNCHANGED all
      BY <2>2 DEF Return, ReturnStateless, Pruned, all
    <2> QED BY <1>5, <2>1, <2>2, Zenon
  <1> QED BY <1>1, <1>2, <1>3, <1>4, <1>5 DEF ExploreNext

-----------------------------------------------------------------------------
(* The records that explore makes are activations. *)
LEMMA FrameFacts ==
  ASSUME NEW size \in Nat \ {0}, NEW en \in SUBSET Nat, NEW d \in SUBSET Nat, NEW alt \in SUBSET Nat,
         NEW f, f = Frame(size, en, d, alt)
  PROVE  /\ f \in Activations /\ f.pc = "explore" /\ f.size = size /\ f.en = en /\ f.d = d
         /\ f.alt = alt /\ f.dels = {}
  BY DEF Frame, Activations, bot

(* What is true of an event structure stays true when nothing happens to it *)
(* or to the stack.                                                         *)
LEMMA Quiet ==
  ASSUME UNCHANGED <<vars, stak>>
  PROVE  /\ Stack => Stack'
         /\ \A k : Events(k)' = Events(k)
         /\ \A f : Known(f)' <=> Known(f)
         /\ \A S : Configuration(S)' <=> Configuration(S)
  <1>1. /\ stak' = stak /\ conf' = conf /\ evs' = evs /\ past' = past /\ icnf' = icnf /\ cntr' = cntr
    BY DEF vars
  <1>2. \A k : Events(k)' = Events(k)
    BY <1>1 DEF Events
  <1>3. Stack => Stack'
    <2> SUFFICES ASSUME Stack PROVE Stack'
      OBVIOUS
    <2>1. Len(stak') >= 1 /\ stak'[1] = bot
      BY <1>1 DEF Stack
    <2>2. conf' = Events(Len(stak))'
      BY <1>1 DEF Stack, Events
    <2>3. \A k \in 1..Len(stak') : past'[stak'[k]] \subseteq Events(k - 1)' /\ stak'[k] \notin Events(k - 1)'
      BY <1>1, <1>2, Zenon DEF Stack
    <2> QED BY <2>1, <2>2, <2>3, Zenon DEF Stack
  <1>4. \A f : Known(f)' <=> Known(f)
    BY <1>1 DEF Known, Extensions, Extends, Events
  <1>5. \A S : Configuration(S)' <=> Configuration(S)
    BY <1>1 DEF Configuration, ConflictFree
  <1> QED BY <1>2, <1>3, <1>4, <1>5

(* The prefix stays, whatever happens to the configuration. *)
LEMMA SamePrefix ==
  ASSUME UNCHANGED prefix
  PROVE  /\ \A S : Configuration(S)' <=> Configuration(S)
         /\ \A f : Events(f.size)' = Events(f.size) => (Known(f)' <=> Known(f))
         /\ \A C : Extensions(C)' = Extensions(C)
  <1>1. evs' = evs /\ past' = past /\ icnf' = icnf /\ cntr' = cntr
    BY DEF prefix
  <1>2. \A S : Configuration(S)' <=> Configuration(S)
    BY <1>1 DEF Configuration, ConflictFree
  <1>3. \A C : Extensions(C)' = Extensions(C)
    BY <1>1 DEF Extensions, Extends
  <1>4. ASSUME NEW f, Events(f.size)' = Events(f.size) PROVE Known(f)' <=> Known(f)
    <2>1. Extensions(Events(f.size))' = Extensions(Events(f.size))
      BY <1>1, <1>4 DEF Extensions, Extends
    <2> QED BY <2>1, <1>1, <1>4, Zenon DEF Known
  <1> QED BY <1>2, <1>3, <1>4

(* When explore returns, its caller finds the stack as it expects it, and   *)
(* needs the alternatives of the same events.                               *)
LEMMA ReturnStep ==
  ASSUME EInv, job = {}, frames # << >>, Top.pc # "call", frames' = Callers, UNCHANGED <<vars, stak, job>>
  PROVE  /\ frames' \in Seq(Activations) /\ Stack' /\ Running' /\ Chain' /\ Knowledge' /\ Alternative' /\ Pruning'
         /\ Live' = conf \cup Top.d /\ Leaving' = {}
         /\ \A f \in Active' : f \in Active /\ f.pc \in {"call", "again"}
  <1> DEFINE n == Len(frames)
  <1>i. Types /\ Stack /\ Running /\ Chain /\ Knowledge /\ Pruning
    BY DEF EInv
  <1>1. n \in Nat \ {0} /\ Top = frames[n] /\ Top \in Activations /\ Top.size \in Nat \ {0}
    BY <1>i, TopFacts DEF Activations
  <1>2. /\ frames' \in Seq(Activations) /\ Len(frames') = n - 1
        /\ \A i \in 1..(n - 1) : frames'[i] = frames[i]
        /\ Active' \subseteq {frames[i] : i \in 1..(n - 1)} /\ Active' \subseteq Active
        /\ frames' # << >> => n - 1 \in Nat \ {0} /\ Top' = frames[n - 1]
    BY <1>i, Returns
  <1>3. \A i \in 1..(n - 1) : i \in 1..n /\ i < n
    BY <1>1
  <1>4. \A i \in 1..(n - 1) : frames[i].pc \in {"call", "again"}
    BY <1>i, <1>3 DEF Running
  <1>5. \A f \in Active' : f \in Active /\ f.pc \in {"call", "again"}
    BY <1>2, <1>4
  <1>6. frames' # << >> => /\ Top' \in Activations /\ Top' \in Active
                           /\ Top'.pc \in {"call", "again"} /\ Follows(Top', Top)
    <2> SUFFICES ASSUME frames' # << >> PROVE /\ Top' \in Activations /\ Top' \in Active
                                              /\ Top'.pc \in {"call", "again"} /\ Follows(Top', Top)
      OBVIOUS
    <2>1. n - 1 \in 1..n /\ n - 1 \in 1..(n - 1) /\ n - 1 < n /\ (n - 1) + 1 = n /\ Top' = frames[n - 1]
      BY <1>1, <1>2
    <2>2. Top' \in Activations /\ Top' \in Active
      BY <1>i, <2>1, TopFacts
    <2>3. Follows(frames[n - 1], frames[n])
      BY <1>i, <2>1 DEF Chain
    <2> QED BY <2>1, <2>2, <2>3, <1>1, <1>4
  <1>7. Stack' /\ \A f : Known(f)' <=> Known(f)
    BY <1>i, Quiet
  <1>8. Knowledge'
    BY <1>i, <1>5, <1>7 DEF Knowledge
  <1>9. Chain'
    BY <1>i, ChainReturns
  <1>10. Alternative'
    BY <1>6 DEF Alternative
  <1>11. Pruning'
    <2>1. \A f \in Active' : f.pc # "prune" => f.dels = {}
      BY <1>i, <1>5 DEF Pruning
    <2>2. frames' # << >> => Top'.pc # "prune"
      BY <1>6
    <2> QED BY <2>1, <2>2 DEF Pruning
  <1>12. Leaving' = {}
    <2>1. \A f \in Active : f.pc # "prune" => f.dels = {}
      BY <1>i DEF Pruning
    <2> QED BY <1>6, <2>1 DEF Leaving
  <1>13. Live' = conf \cup Top.d
    <2>1. conf' = conf
      BY DEF vars
    <2>2. CASE frames' = << >>
      <3>1. n = 1
        BY <2>2, <1>1, <1>2
      <3> QED BY <3>1, <2>1, <2>2, <1>1, <1>i DEF Live, Chain
    <2>3. CASE frames' # << >>
      BY <2>1, <2>3, <1>6 DEF Live, Follows, Disabled
    <2> QED BY <2>2, <2>3
  <1>14. Running'
    <2>1. stak' = stak /\ job' = {}
      OBVIOUS
    <2>2. Len(stak) = Top.size
      BY <1>i DEF Running
    <2>3. ASSUME frames' # << >>
          PROVE  /\ job' = IF Top'.pc = "unfold" THEN {Top'.e} ELSE {}
                 /\ Len(stak') = IF Top'.pc = "call" THEN Top'.size + 1 ELSE Top'.size
      <3>1. Top'.pc \in {"call", "again"} /\ Follows(Top', Top)
        BY <2>3, <1>6
      <3> QED BY <2>1, <2>2, <3>1 DEF Follows
    <2>4. \A i \in 1..Len(frames') :
            /\ i < Len(frames') => frames'[i].pc \in {"call", "again"}
            /\ frames'[i].pc = "call" => frames'[i].size < Len(stak') /\ stak'[frames'[i].size + 1] = frames'[i].e
      <3>1. \A i \in 1..Len(frames') : i \in 1..n /\ frames'[i] = frames[i] /\ frames[i].pc \in {"call", "again"}
        BY <1>2, <1>3, <1>4
      <3> QED BY <2>1, <3>1, <1>i DEF Running
    <2> QED BY <2>1, <2>3, <2>4, Zenon DEF Running
  <1> QED BY <1>2, <1>5, <1>7, <1>8, <1>9, <1>10, <1>11, <1>12, <1>13, <1>14

(* When explore goes on, its callers are where they were. *)
LEMMA MoveStep ==
  ASSUME Types, Running, Chain, frames # << >>, NEW g \in Activations, frames' = Set(g), stak' = stak,
         g.size = Top.size, g.d = Top.d, g.pc # "call", Top.pc # "call",
         job' = IF g.pc = "unfold" THEN {g.e} ELSE {}
  PROVE  /\ frames' \in Seq(Activations) /\ frames' # << >> /\ Top' = g /\ Running' /\ Chain'
         /\ Active' \subseteq Active \cup {g}
  <1> DEFINE n == Len(frames)
  <1>1. /\ frames' \in Seq(Activations) /\ frames' # << >> /\ Len(frames') = n /\ Top' = g
        /\ frames'[n] = g
        /\ \A i \in 1..(n - 1) : frames'[i] = frames[i]
        /\ Active' \subseteq Active \cup {g} /\ n \in Nat \ {0}
    BY Moves, TopFacts
  <1>2. Chain'
    BY ChainMoves
  <1>3. ASSUME NEW i \in 1..Len(frames')
        PROVE  /\ i < Len(frames') => frames'[i].pc \in {"call", "again"}
               /\ frames'[i].pc = "call" => frames'[i].size < Len(stak') /\ stak'[frames'[i].size + 1] = frames'[i].e
    <2>1. CASE i = n
      BY <2>1, <1>1
    <2>2. CASE i \in 1..(n - 1)
      <3>1. frames'[i] = frames[i] /\ i \in 1..n /\ i < n
        BY <2>2, <1>1
      <3> QED BY <3>1 DEF Running
    <2> QED BY <2>1, <2>2, <1>1
  <1>4. Len(stak') = Top'.size /\ Top'.pc # "call"
    BY <1>1 DEF Running
  <1>5. Running'
    BY <1>1, <1>3, <1>4, Zenon DEF Running
  <1> QED BY <1>1, <1>2, <1>5

-----------------------------------------------------------------------------
(* computeV returns a configuration: what it takes away is closed upwards,  *)
(* and the history of y is not among it.                                    *)
LEMMA VIsConfiguration ==
  ASSUME IInv, NEW y \in evs, pred[y] \subseteq conf
  PROVE  Configuration(V(y))
  <1> DEFINE gone == UNION {Above(c) : c \in icnf[y] \cap conf}
  <1>t. /\ conf \subseteq evs /\ past \in [evs -> SUBSET evs] /\ icnf \in [evs -> SUBSET evs]
    BY DEF IInv, TypeOK
  <1>1. /\ \A e \in conf : past[e] \subseteq conf
        /\ \A a, b \in conf : b \notin icnf[a]
        /\ \A a, b \in evs : a \in icnf[b] => b \in icnf[a]
        /\ \A e \in evs : \A a, b \in past[e] \cup {e} : b \notin icnf[a]
        /\ \A e \in evs : \A p \in past[e] : past[p] \subseteq past[e]
    BY DEF IInv, StackIsConfiguration, ConflictFree, LocalConfigurations, Causality
  <1>2. past[y] \subseteq conf
    <2> SUFFICES ASSUME NEW p \in past[y] PROVE p \in conf
      OBVIOUS
    <2>1. p \in pred[y] \/ \E q \in pred[y] : p \in past[q]
      BY DEF IInv, Causality
    <2> QED BY <2>1, <1>1
  <1>3. \A z : z \in gone <=> z \in evs /\ \E c \in icnf[y] \cap conf : z = c \/ c \in past[z]
    BY <1>t DEF Above
  <1>4. V(y) = (conf \ gone) \cup {y}
    BY DEF V
  <1> HIDE DEF gone
  <1>5. V(y) \subseteq evs
    BY <1>4, <1>t
  <1>6. ASSUME NEW z \in conf, z \notin gone PROVE past[z] \subseteq V(y)
    <2> SUFFICES ASSUME NEW p \in past[z] PROVE p \in V(y)
      OBVIOUS
    <2>1. z \in evs /\ p \in conf /\ p \in evs
      BY <1>1, <1>t
    <2>2. p \notin gone
      BY <1>6, <2>1, <1>3, <1>1
    <2> QED BY <2>1, <2>2, <1>4
  <1>7. past[y] \subseteq V(y)
    <2> SUFFICES ASSUME NEW p \in past[y] PROVE p \in V(y)
      OBVIOUS
    <2>1. p \in conf /\ p \in evs
      BY <1>2, <1>t
    <2>2. p \notin gone
      BY <2>1, <1>3, <1>1
    <2> QED BY <2>1, <2>2, <1>4
  <1>8. \A z \in conf \ gone : z \notin icnf[y] /\ y \notin icnf[z]
    BY <1>t, <1>1, <1>3
  <1>9. y \notin icnf[y]
    BY <1>1
  <1>10. ConflictFree(V(y))
    BY <1>1, <1>4, <1>8, <1>9 DEF ConflictFree
  <1> QED BY <1>4, <1>5, <1>6, <1>7, <1>10 DEF Configuration

(* A new event leaves configurations what they are, and it extends only     *)
(* those that hold its history.                                             *)
LEMMA Grown ==
  ASSUME IInv, NEW h \in SUBSET evs, NEW cnfls \in SUBSET evs, Add(h, cnfls)
  PROVE  /\ evs' = evs \cup {cntr} /\ cntr \notin evs /\ conf' = conf /\ cntr' = cntr + 1
         /\ \A e \in evs : past'[e] = past[e] /\ icnf[e] \subseteq icnf'[e]
         /\ \A S : Configuration(S) => Configuration(S)'
         /\ \A C \in SUBSET evs : ~(h \subseteq C) => Extensions(C)' = Extensions(C)
  <1>1. evs' = evs \cup {cntr} /\ cntr \notin evs /\ conf' = conf /\ cntr' = cntr + 1
    BY LocalHistory DEF Add, CanAdd
  <1>2. /\ h \subseteq past'[cntr]
        /\ \A e \in evs : /\ past'[e] = past[e] /\ icnf[e] \subseteq icnf'[e]
                          /\ \A x \in evs : x \in icnf'[e] <=> x \in icnf[e]
    BY <1>1 DEF Add, AddTo, localHistory
  <1>3. ASSUME NEW S, Configuration(S) PROVE Configuration(S)'
    BY <1>1, <1>2, <1>3 DEF Configuration, ConflictFree
  <1>4. ASSUME NEW C \in SUBSET evs, ~(h \subseteq C) PROVE Extensions(C)' = Extensions(C)
    <2>1. \A x : x = cntr => ~Extends(x, C)'
      BY <1>2, <1>4, Zenon DEF Extends
    <2>2. \A x \in evs : Extends(x, C)' <=> Extends(x, C)
      BY <1>2 DEF Extends
    <2>3. \A x : x \in Extensions(C)' <=> x \in evs' /\ Extends(x, C)'
      BY Zenon DEF Extensions
    <2>4. \A x : x \in Extensions(C) <=> x \in evs /\ Extends(x, C)
      BY Zenon DEF Extensions
    <2>5. \A x \in evs' : x \in evs \/ x = cntr
      BY <1>1
    <2>6. \A x : x \in evs => x \in evs'
      BY <1>1
    <2>7. \A x : (x \in evs' /\ Extends(x, C)') => (x \in evs /\ Extends(x, C))
      BY <2>1, <2>2, <2>5
    <2> QED BY <2>2, <2>3, <2>4, <2>6, <2>7, Zenon
  <1> QED BY <1>1, <1>2, <1>3, <1>4

(* del_event leaves configurations without the event what they are, and     *)
(* takes only what it deletes from the extensions of a part of the stack.   *)
LEMMA Shrunk ==
  ASSUME IInv, NEW x \in evs, Delete(x)
  PROVE  /\ evs' = evs \ Above(x) /\ conf' = conf /\ cntr' = cntr /\ conf \cap Above(x) = {}
         /\ \A e \in evs' : past'[e] = past[e]
         /\ \A S : Configuration(S) /\ x \notin S => S \cap Above(x) = {} /\ Configuration(S)'
         /\ \A C \in SUBSET conf : Extensions(C)' = Extensions(C) \ Above(x)
  <1>1. evs' = evs \ Above(x) /\ conf' = conf /\ cntr' = cntr /\ x \notin conf
    BY DEF Delete, del_event
  <1>2. \A e \in evs' : past'[e] = past[e] /\ icnf'[e] = icnf[e] \ Above(x)
    BY DEF Delete, del_event
  <1>3. ASSUME NEW S, Configuration(S), x \notin S PROVE S \cap Above(x) = {} /\ Configuration(S)'
    <2>1. S \cap Above(x) = {} /\ S \subseteq evs'
      BY <1>1, <1>3 DEF Configuration, Above
    <2> QED BY <1>2, <1>3, <2>1 DEF Configuration, ConflictFree
  <1>4. Configuration(conf)
    BY DEF IInv, TypeOK, StackIsConfiguration, Configuration
  <1>5. conf \cap Above(x) = {}
    BY <1>1, <1>3, <1>4
  <1>6. ASSUME NEW C \in SUBSET conf PROVE Extensions(C)' = Extensions(C) \ Above(x)
    <2>1. \A e \in evs' : Extends(e, C)' <=> Extends(e, C)
      BY <1>2, <1>5 DEF Extends
    <2>2. \A e : e \in Extensions(C)' <=> e \in evs' /\ Extends(e, C)'
      BY Zenon DEF Extensions
    <2>3. \A e : e \in Extensions(C) <=> e \in evs /\ Extends(e, C)
      BY Zenon DEF Extensions
    <2>4. \A e : e \in evs' <=> e \in evs /\ e \notin Above(x)
      BY <1>1
    <2>5. \A e : e \in Extensions(C)' <=> e \in Extensions(C) /\ e \notin Above(x)
      BY <2>1, <2>2, <2>3, <2>4, Zenon
    <2> QED BY <2>5
  <1> QED BY <1>1, <1>2, <1>3, <1>5, <1>6

(* A minimal event of the alternative that is followed is enabled.          *)
LEMMA AlternativeEnabled ==
  ASSUME EInv, At("explore"), Top.alt # {}
  PROVE  Top.en \cap Top.alt # {}
  <1>1. /\ IInv /\ Types /\ Stack /\ Running /\ Knowledge /\ Alternative /\ frames # << >> /\ Top.pc = "explore"
    BY DEF EInv, At
  <1>2. /\ Configuration(conf \cup Top.alt) /\ conf \cap Top.alt = {}
        /\ Known(Top) /\ conf = Events(Top.size)
    BY <1>1, TopFacts DEF Alternative, Knowledge, Running, Stack
  <1>3. PICK x \in Top.alt : past[x] \cap Top.alt = {}
    <2>1. Top.alt \in SUBSET evs
      BY <1>2 DEF Configuration
    <2> QED BY <1>1, <2>1 DEF IInv, Founded
  <1>4. x \in evs /\ x \notin conf /\ past[x] \subseteq conf \cup Top.alt /\ icnf[x] \cap conf = {}
    BY <1>2 DEF Configuration, ConflictFree
  <1>5. x \in Extensions(conf)
    BY <1>3, <1>4 DEF Extensions, Extends
  <1> QED BY <1>2, <1>5 DEF Known

-----------------------------------------------------------------------------
(* The end of explore preserves the invariant, in stateful mode. *)
LEMMA ReturnInv == ASSUME EInv, Return PROVE EInv'
  <1>i. /\ IInv /\ Types /\ Knowledge /\ Alternatives /\ Pruning /\ History
        /\ job = {} /\ frames # << >> /\ Top.pc = "again" /\ frames' = Callers
        /\ UNCHANGED <<vars, stak, job>> /\ UNCHANGED <<stateless, disa, alte, visited>> /\ ~stateless
    BY DEF EInv, Return, At
  <1>1. IInv'
    BY <1>i, NextInv DEF vars
  <1>2. /\ frames' \in Seq(Activations) /\ Stack' /\ Running' /\ Chain' /\ Knowledge' /\ Alternative' /\ Pruning'
        /\ Live' = conf \cup Top.d /\ Leaving' = {}
        /\ \A f \in Active' : f \in Active /\ f.pc \in {"call", "again"}
    BY <1>i, ReturnStep
  <1>3. Types'
    BY <1>i, <1>2 DEF Types, vars
  <1>4. Leaving = {}
    BY <1>i, TopFacts DEF Pruning, Leaving
  <1>5. Alternatives'
    <2>1. evs' = evs /\ \A S : Configuration(S)' <=> Configuration(S)
      BY <1>i, Quiet DEF vars
    <2>2. \A x \in evs' \ Leaving' : \A v \in alte'[x] : Configuration(v)'
      BY <1>i, <1>2, <1>4, <2>1 DEF Alternatives
    <2> QED BY <1>i, <2>2 DEF Alternatives
  <1>6. History'
    <2>1. \A k : Events(k)' = Events(k)
      BY <1>i, Quiet
    <2>2. \A f : Visited(f)' <=> Visited(f)
      BY <1>i, <2>1 DEF Visited
    <2> QED BY <1>i, <1>2, <2>2 DEF History
  <1> QED BY <1>1, <1>2, <1>3, <1>5, <1>6 DEF EInv

(* In stateless mode explore returns when there is nothing left to delete.  *)
LEMMA PrunedInv == ASSUME EInv, Pruned PROVE EInv'
  <1>i. /\ IInv /\ Types /\ Knowledge /\ Alternatives /\ Pruning /\ History
        /\ job = {} /\ frames # << >> /\ Top.pc = "prune" /\ Top.dels = {} /\ frames' = Callers
        /\ UNCHANGED <<vars, stak, job>> /\ UNCHANGED <<stateless, disa, alte, visited>>
    BY DEF EInv, Pruned, At
  <1>1. IInv'
    BY <1>i, NextInv DEF vars
  <1>2. /\ frames' \in Seq(Activations) /\ Stack' /\ Running' /\ Chain' /\ Knowledge' /\ Alternative' /\ Pruning'
        /\ Live' = conf \cup Top.d /\ Leaving' = {}
        /\ \A f \in Active' : f \in Active /\ f.pc \in {"call", "again"}
    BY <1>i, ReturnStep
  <1>3. Types'
    BY <1>i, <1>2 DEF Types, vars
  <1>4. Leaving = {} /\ Live = conf \cup Top.d
    BY <1>i DEF Leaving, Live
  <1>5. Alternatives'
    <2>1. evs' = evs /\ \A S : Configuration(S)' <=> Configuration(S)
      BY <1>i, Quiet DEF vars
    <2>2. \A x \in evs' \ Leaving' : \A v \in alte'[x] : Configuration(v)'
      BY <1>i, <1>2, <1>4, <2>1 DEF Alternatives
    <2>3. stateless' => \A x \in evs' : alte'[x] # {} => x \in Live' \cup Leaving'
      BY <1>i, <1>2, <1>4, <2>1 DEF Alternatives
    <2> QED BY <2>2, <2>3 DEF Alternatives
  <1>6. History'
    <2>1. \A k : Events(k)' = Events(k)
      BY <1>i, Quiet
    <2>2. \A f : Visited(f)' <=> Visited(f)
      BY <1>i, <2>1 DEF Visited
    <2> QED BY <1>i, <1>2, <2>2 DEF History
  <1> QED BY <1>1, <1>2, <1>3, <1>5, <1>6 DEF EInv

(* explore on a maximal configuration preserves the invariant: the          *)
(* alternatives it records are configurations, and the configuration it     *)
(* leaves behind lies above that of every caller.                           *)
LEMMA MaximalInv == ASSUME EInv, ExploreMaximal PROVE EInv'
  <1> DEFINE new(e) == {V(y) : y \in {x \in icnf[e] : computeV(e, x)}}
  <1>i. /\ IInv /\ Types /\ Stack /\ Running /\ Chain /\ Knowledge /\ Alternatives /\ Pruning /\ History
        /\ job = {} /\ frames # << >> /\ Top.pc = "explore" /\ frames' = Callers
        /\ UNCHANGED <<vars, stak, job>> /\ stateless' = stateless /\ disa' = disa
        /\ visited' = visited \cup {conf}
    BY DEF EInv, ExploreMaximal, At
  <1>a. /\ alte' = [e \in evs |-> IF e \in conf THEN alte[e] \cup new(e) ELSE alte[e]]
        /\ alte \in [evs -> SUBSET SUBSET Nat]
    BY <1>i DEF ExploreMaximal, Types
  <1>1. IInv'
    BY <1>i, NextInv DEF vars
  <1>2. /\ frames' \in Seq(Activations) /\ Stack' /\ Running' /\ Chain' /\ Knowledge' /\ Alternative' /\ Pruning'
        /\ Live' = conf \cup Top.d /\ Leaving' = {}
        /\ \A f \in Active' : f \in Active /\ f.pc \in {"call", "again"}
    BY <1>i, ReturnStep DEF EInv
  <1>3. ASSUME NEW e \in evs, NEW v \in new(e) PROVE Configuration(v) /\ v \in SUBSET Nat
    <2>1. PICK y \in icnf[e] : computeV(e, y) /\ v = V(y)
      BY <1>3
    <2>2. y \in evs /\ pred[y] \subseteq conf /\ evs \subseteq Nat
      BY <1>i, <2>1 DEF IInv, TypeOK, computeV
    <2>3. Configuration(V(y))
      BY <1>i, <2>2, VIsConfiguration
    <2> QED BY <2>1, <2>2, <2>3 DEF Configuration
  <1>4. \A e \in evs : /\ alte'[e] \subseteq alte[e] \cup new(e)
                       /\ e \notin conf => alte'[e] = alte[e]
    BY <1>a
  <1> HIDE DEF new
  <1>5. Types'
    <2>1. alte' \in [evs -> SUBSET SUBSET Nat]
      BY <1>3, <1>a
    <2> QED BY <2>1, <1>i, <1>2 DEF Types, vars
  <1>6. Leaving = {} /\ Live = conf \cup Top.d
    BY <1>i, TopFacts DEF Pruning, Leaving, Live
  <1>7. Alternatives'
    <2>1. evs' = evs /\ \A S : Configuration(S)' <=> Configuration(S)
      BY <1>i, Quiet DEF vars
    <2>2. \A x \in evs' \ Leaving' : \A v \in alte'[x] : Configuration(v)'
      BY <1>i, <1>3, <1>4, <1>6, <2>1 DEF Alternatives
    <2>3. stateless' => \A x \in evs' : alte'[x] # {} => x \in Live' \cup Leaving'
      BY <1>i, <1>2, <1>4, <1>6, <2>1 DEF Alternatives
    <2> QED BY <2>2, <2>3 DEF Alternatives
  <1>8. History'
    <2>1. \A k : Events(k)' = Events(k)
      BY <1>i, Quiet
    <2>2. ASSUME NEW f \in Active' PROVE Visited(f)'
      <3>1. f \in Active /\ f.pc \in {"call", "again"} /\ Visited(f)
        BY <1>i, <1>2, <2>2 DEF History
      <3>2. Events(f.size) \subseteq conf /\ (f.pc = "call" => f.e \in conf)
        BY <1>i, <3>1, ActiveFacts
      <3>3. \A M \in visited \cup {conf} :
              \/ M \cap f.d # {}
              \/ f.pc = "call" /\ Events(f.size) \cup {f.e} \subseteq M
              \/ f.pc \in {"again", "prune"} /\ Events(f.size) \subseteq M
        BY <3>1, <3>2 DEF Visited
      <3> QED BY <1>i, <2>1, <3>3 DEF Visited
    <2> QED BY <2>2 DEF History
  <1> QED BY <1>1, <1>2, <1>5, <1>7, <1>8 DEF EInv

(* The choice of an event preserves the invariant. *)
LEMMA EventInv == ASSUME EInv, NEW e \in evs, ExploreEvent(e) PROVE EInv'
  <1> DEFINE g == [Top EXCEPT !.pc = "unfold", !.e = e]
  <1>i. /\ IInv /\ Types /\ Running /\ Chain /\ Knowledge /\ Alternative /\ Alternatives /\ Pruning /\ History
        /\ job = {} /\ frames # << >> /\ Top.pc = "explore" /\ e \in Candidates
        /\ frames' = Set(g) /\ job' = {e} /\ disa' = [disa EXCEPT ![e] = Top.d]
        /\ UNCHANGED <<vars, stak>> /\ UNCHANGED <<stateless, alte, visited>>
    BY DEF EInv, ExploreEvent, At
  <1>1. IInv'
    BY <1>i, NextInv DEF vars
  <1>2. Top \in Activations /\ Top \in Active /\ e \in Nat /\ Top.dels = {}
    BY <1>i, TopFacts, Zenon DEF IInv, TypeOK, Pruning
  <1>3. /\ g \in Activations /\ g.size = Top.size /\ g.d = Top.d /\ g.pc = "unfold" /\ g.e = e
        /\ g.en = Top.en /\ g.alt = Top.alt /\ g.dels = {}
    BY <1>2, Zenon DEF Activations
  <1> HIDE DEF g
  <1>4. /\ frames' \in Seq(Activations) /\ frames' # << >> /\ Top' = g /\ Running' /\ Chain'
        /\ Active' \subseteq Active \cup {g}
    BY <1>i, <1>3, MoveStep
  <1>5. Types'
    <2>1. Top.d \in SUBSET Nat /\ disa \in [evs -> SUBSET Nat] /\ evs' = evs
      BY <1>i, <1>2 DEF Types, Activations, vars
    <2>2. disa' \in [evs' -> SUBSET Nat]
      BY <1>i, <2>1
    <2> QED BY <1>i, <1>4, <2>1, <2>2, Zenon DEF Types
  <1>6. Stack' /\ Knowledge'
    <2>1. Known(Top) /\ e \in Top.en
      BY <1>i, <1>2 DEF Knowledge, Candidates
    <2>2. Known(g)
      BY <2>1, <1>3 DEF Known
    <2> QED BY <1>i, <1>4, <2>2, Quiet DEF Knowledge, EInv
  <1>7. Alternative'
    <2>1. Configuration(conf \cup Top.alt)
      BY <1>i DEF Alternative
    <2>2. Configuration(conf \cup Top.alt)'
      BY <1>i, <1>3, <1>4, <2>1 DEF Configuration, ConflictFree, vars
    <2> QED BY <1>i, <1>3, <1>4, <2>2 DEF Alternative, Candidates, vars
  <1>8. Alternatives'
    <2>1. Live' = Live /\ Leaving' = Leaving
      BY <1>i, <1>2, <1>3, <1>4 DEF Live, Leaving, vars
    <2>2. evs' = evs /\ \A S : Configuration(S)' <=> Configuration(S)
      BY <1>i, Quiet DEF vars
    <2> QED BY <1>i, <2>1, <2>2 DEF Alternatives
  <1>9. Pruning'
    BY <1>i, <1>3, <1>4 DEF Pruning
  <1>10. History'
    <2>1. \A k : Events(k)' = Events(k)
      BY <1>i, Quiet
    <2>2. \A f : Visited(f)' <=> Visited(f)
      BY <1>i, <2>1 DEF Visited
    <2>3. Visited(g)
      BY <1>i, <1>2, <1>3 DEF History, Visited
    <2> QED BY <1>i, <1>4, <2>2, <2>3 DEF History
  <1> QED BY <1>1, <1>4, <1>5, <1>6, <1>7, <1>8, <1>9, <1>10 DEF EInv
=============================================================================
