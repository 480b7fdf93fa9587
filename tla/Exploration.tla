----------------------------- MODULE Exploration -----------------------------
(***************************************************************************)
(* What explore (Exploration/UNF/Unfolder.hs) does with an event structure, *)
(* whatever program it explores: the depth-first walk over configurations,  *)
(* the disabled events and the alternatives of optimal partial order        *)
(* reduction, and the deletions of stateless mode.                          *)
(*                                                                          *)
(* The program appears only in what unfold finds out about it, and that is  *)
(* taken as given: a new event has a configuration as its history and the   *)
(* event that is being executed among its immediate predecessors (Add and   *)
(* AddEvent), and the enabled events of a new configuration are the events  *)
(* of the prefix that extend it (Unfold).  Lists are sets here, except for  *)
(* the two stacks, whose newest element is the last one; where the code     *)
(* takes the first element that fits, any one may be taken.                 *)
(***************************************************************************)
EXTENDS EventStructure, Sequences

VARIABLES stateless,  \* the option
          disa,       \* the disabled events when an event was last chosen
          alte,       \* the alternatives to an event
          stak,       \* call stack: the configuration, oldest event first
          frames,     \* the activations of explore, the running one last
          job,        \* {e} while unfold or initial_ext extends from e, else {}
          visited,    \* history variable: the maximal configurations explored
          late        \* history variable: the events found after one of these held their history

all == <<vars, stateless, disa, alte, stak, frames, job, visited, late>>

(* An activation: size events of the call stack are its configuration c,    *)
(* en are the enabled events of c, d the disabled events, alt the rest of   *)
(* the alternative, e the event it has chosen; dels, in prune, what is left *)
(* to delete.                                                               *)
Frame(size, en, d, alt) ==
  [pc |-> "explore", size |-> size, e |-> bot, en |-> en, d |-> d, alt |-> alt, dels |-> {}]

Events(k) == {stak[j] : j \in 1..k}
Top == frames[Len(frames)]
Set(f) == [frames EXCEPT ![Len(frames)] = f]
Goto(pc) == Set([Top EXCEPT !.pc = pc])
Callers == SubSeq(frames, 1, Len(frames) - 1)
At(pc) == job = {} /\ frames # << >> /\ Top.pc = pc

(* i_unf_state; initial_ext begins *)
ExploreInit ==
  /\ Init
  /\ stateless \in BOOLEAN
  /\ disa = [e \in {bot} |-> {}] /\ alte = [e \in {bot} |-> {}]
  /\ stak = <<bot>> /\ frames = << >> /\ job = {bot} /\ visited = {} /\ late = {}

-----------------------------------------------------------------------------
AddEvent_anywhere(h, cnfls) ==  \* mutant: a history need not hold e
  /\ job # {}
  /\ Add(h, cnfls)
  /\ disa' = AddTo(disa, {}, {}) /\ alte' = AddTo(alte, {}, {})
  /\ late' = late \cup {x \in {cntr} : \E C \in visited : localHistory(h) \subseteq C}
  /\ UNCHANGED <<stateless, stak, frames, job, visited>>

(* ext and add_ev, while unfold extends the configuration with e *)
AddEvent(h, cnfls) ==
  /\ job # {} /\ job \subseteq h
  /\ Add(h, cnfls)
  /\ disa' = AddTo(disa, {}, {}) /\ alte' = AddTo(alte, {}, {})
  /\ late' = late \cup {x \in {cntr} : \E C \in visited : localHistory(h) \subseteq C}
  /\ UNCHANGED <<stateless, stak, frames, job, visited>>

Extensions(C) == {x \in evs : Extends(x, C)}
Configuration(S) == S \subseteq evs /\ (\A x \in S : past[x] \subseteq S) /\ ConflictFree(S)

(* the end of initial_ext: bot_explore calls explore *)
Start ==
  /\ job # {} /\ frames = << >>
  /\ frames' = <<Frame(1, Extensions(conf), {}, {})>>
  /\ job' = {}
  /\ UNCHANGED <<vars, stateless, disa, alte, stak, visited, late>>

(* the end of unfold: e is pushed and explore called *)
Unfold ==
  /\ job # {} /\ frames # << >>
  /\ push(Top.e) /\ stak' = Append(stak, Top.e)
  /\ frames' = Append(Goto("call"), Frame(Len(stak) + 1, Extensions(conf \cup {Top.e}), Top.d, Top.alt \ {Top.e}))
  /\ job' = {}
  /\ UNCHANGED <<stateless, disa, alte, visited, late>>

-----------------------------------------------------------------------------
(* the part of the stack below e *)
Below(e) == {stak[j] : j \in {i \in 1..Len(stak) : \E k \in 1..Len(stak) : i < k /\ stak[k] = e}}

Conflicts(S) == UNION {icnf[x] : x \in S}

(* computeV: the configuration without the conflicts of y and what is above *)
(* them, and with y                                                         *)
V(y) == (conf \ UNION {Above(c) : c \in icnf[y] \cap conf}) \cup {y}

computeV_below(e, y) ==  \* mutant: y must be enabled where e was chosen
  /\ pred[y] \subseteq Below(e)
  /\ icnf[y] \cap Below(e) = {}
  /\ Below(e) \subseteq V(y)
  /\ disa[e] \subseteq Conflicts(V(y))

computeV(e, y) ==
  /\ pred[y] \subseteq conf  \* isCExtension
  /\ icnf[y] \cap Below(e) = {}
  /\ Below(e) \subseteq V(y)
  /\ disa[e] \subseteq Conflicts(V(y))

(* explore on a configuration without enabled events: possible_altes *)
ExploreMaximal ==
  /\ At("explore") /\ Top.en = {}
  /\ alte' = [e \in evs |-> IF e \in conf THEN alte[e] \cup {V(y) : y \in {x \in icnf[e] : computeV(e, x)}}
                            ELSE alte[e]]
  /\ visited' = visited \cup {conf}
  /\ frames' = Callers
  /\ UNCHANGED <<vars, stateless, disa, stak, job, late>>

(* explore chooses an event, one of the alternative if there is one *)
Candidates_any == Top.en  \* mutant: the alternative is not followed

Candidates == IF Top.alt = {} THEN Top.en ELSE Top.en \cap Top.alt

ExploreEvent(e) ==
  /\ At("explore") /\ e \in Candidates /\ e \in evs
  /\ disa' = [disa EXCEPT ![e] = Top.d]
  /\ frames' = Set([Top EXCEPT !.pc = "unfold", !.e = e])
  /\ job' = {e}
  /\ UNCHANGED <<vars, stateless, alte, stak, visited, late>>

(* the disabled events after e *)
Disabled == Top.d \cup {Top.e}

filter_alte_unjustified(C, v) == Conflicts(v) \cap C = {}  \* mutant

filter_alte(C, v) == Disabled \subseteq Conflicts(v) /\ Conflicts(v) \cap C = {}

(* the call has returned: pop, and explore an alternative if alt2 finds one *)
Backtrack ==
  /\ At("call")
  /\ stak' = SubSeq(stak, 1, Len(stak) - 1)
  /\ LET e  == stak[Len(stak)]
         vs == {v \in UNION {alte[x] : x \in Disabled} : filter_alte(conf \ {e}, v)}
     IN  /\ pop(e)
         /\ \/ vs = {} /\ frames' = Goto("again")
            \/ \E v \in vs : frames' = Append(Goto("again"), Frame(Top.size, Top.en, Disabled, v \ (conf \ {e})))
  /\ UNCHANGED <<stateless, disa, alte, job, visited, late>>

-----------------------------------------------------------------------------
core_stack == conf \cup UNION (UNION {alte[x] : x \in conf})  \* mutant

core == conf \cup Top.d \cup UNION (UNION {alte[x] : x \in conf \cup Top.d})

(* the end of explore, in stateful and in stateless mode *)
Return ==
  /\ At("again") /\ ~stateless
  /\ frames' = Callers
  /\ UNCHANGED <<vars, stateless, disa, alte, stak, job, visited, late>>

ReturnStateless ==
  /\ At("again") /\ stateless
  /\ frames' = Set([Top EXCEPT !.pc = "prune", !.dels = ({Top.e} \cup UNION alte[Top.e]) \ core])
  /\ alte' = IF Top.e \in core THEN [alte EXCEPT ![Top.e] = {}] ELSE alte
  /\ UNCHANGED <<vars, stateless, disa, stak, job, visited, late>>

(* prune deletes the events of dels that are still there, one at a time *)
Prune(x) ==
  /\ At("prune") /\ x \in Top.dels
  /\ del_event(x)
  /\ disa' = [y \in evs' |-> disa[y]]
  /\ alte' = [y \in evs' |-> {v \in alte[y] : v \cap Above(x) \cap icnf[y] = {}}]
  /\ frames' = Set([Top EXCEPT !.dels = @ \ Above(x)])
  /\ late' = late \ Above(x)
  /\ UNCHANGED <<stateless, stak, job, visited>>

Pruned ==
  /\ At("prune") /\ Top.dels = {}
  /\ frames' = Callers
  /\ UNCHANGED <<vars, stateless, disa, alte, stak, job, visited, late>>

ExploreNext ==
  \/ \E h, cnfls \in SUBSET evs : AddEvent(h, cnfls)
  \/ Start \/ Unfold \/ ExploreMaximal
  \/ \E e \in evs : ExploreEvent(e)
  \/ Backtrack \/ Return \/ ReturnStateless
  \/ \E x \in evs : Prune(x)
  \/ Pruned

ExploreSpec == ExploreInit /\ [][ExploreNext]_all
-----------------------------------------------------------------------------
(* No call of error: the alternative that is followed has an enabled event  *)
(* ("A intersect en(C) = 0"), and get_event finds every event explore asks  *)
(* for, in stateless mode too: the one it chooses, the disabled ones, and   *)
(* those of their alternatives (alt2, core, prune).                         *)
NoFailure ==
  /\ At("explore") /\ Top.en # {} => Candidates # {} /\ Candidates \subseteq evs
  /\ At("call") \/ At("again") =>
       Disabled \subseteq evs /\ \A x \in Disabled : UNION alte[x] \subseteq evs

(* An activation finds its configuration as it left it.  The stack is back  *)
(* to it, below the event the activation pushed and pop is about to take    *)
(* off, and of the enabled events it remembers those that are still in the  *)
(* prefix are the extensions of the configuration, although events were     *)
(* added and deleted in between.                                            *)
Resumes ==
  /\ conf = Events(Len(stak))
  /\ At("call") => stak[Len(stak)] = Top.e
  /\ \A i \in 1..Len(frames) : frames[i].en \cap evs = Extensions(Events(frames[i].size))

(* A disabled event is never explored below the call that disabled it: it   *)
(* conflicts with the configuration or with the alternative to be followed. *)
DisabledStayOut ==
  At("explore") => \A x \in Top.d : icnf[x] \cap (conf \cup Top.alt) # {}

(* No maximal configuration is explored twice: the reduction is optimal.    *)
NeverTwice == At("explore") /\ Top.en = {} => conf \notin visited

(* And none is missed: when the exploration ends, the configurations it     *)
(* explored to their end are the maximal configurations of the prefix,      *)
(* although an event that conflicts with the one chosen is explored only if *)
(* an alternative with it was recorded (computeV), kept, and found (alt2).  *)
(* This is so when ext found every event in time.  In stateless mode there  *)
(* is no prefix left to compare with.                                       *)
VisitsAll ==
  ~stateless /\ late = {} /\ frames = << >> /\ job = {} =>
    visited = {C \in SUBSET evs : Configuration(C) /\ Extensions(C) = {}}
=============================================================================
