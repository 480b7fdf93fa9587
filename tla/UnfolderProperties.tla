------------------------- MODULE UnfolderProperties -------------------------
(***************************************************************************)
(* What the exploration must satisfy.  The reference for what it finds is   *)
(* Traces; the reference for how it walks over the prefix is Exploration.   *)
(***************************************************************************)
EXTENDS Unfolder, Traces

Past(e) == ToSet(predecessors(evts, e))
Icnf(e) == ToSet(evts[e].icnf)
Extends(e, C) == Past(e) \subseteq C /\ Icnf(e) \cap C = {}

(* the states of a configuration when its events are replayed in this order *)
ReplayIn(order) ==
  FoldLeft(LAMBDA sts, e : IF e = botEID THEN sts
                           ELSE {f.st : f \in UNION {drun(prog.code, st, evts[e].name) : st \in sts}},
           {gbst(prog)}, order)
Replay(C) == ReplayIn(st_order(evts, C))  \* the order of st_history
OldestFirst(C) == SelectSeq([i \in 1..cntr |-> i - 1], LAMBDA e : e \in C)

(* The links of the table stay inside the table and no list of identifiers  *)
(* repeats one, so that every get_event on a neighbour succeeds and delete, *)
(* which removes one occurrence, removes them all.                          *)
Distinct(s) == Cardinality(ToSet(s)) = Len(s)

TypeOK ==
  /\ DOMAIN evts \subseteq 0..(cntr - 1) /\ ToSet(stak) \subseteq DOMAIN evts /\ Distinct(stak)
  /\ \A e \in DOMAIN evts :
       /\ \A l \in {evts[e].pred, evts[e].succ, evts[e].icnf} :
            ToSet(l) \subseteq DOMAIN evts /\ Distinct(l)
       /\ evts[e].acts \in Acts
  /\ \A i \in 1..Len(frames) : frames[i].pc \in {"explore", "unfold", "call", "again", "prune"}

(* No error call of the code is reached: no lookup of a deleted event, no   *)
(* alternative without an enabled event ("A intersect en(C) = 0"), no       *)
(* history of the wrong shape, no duplicate of a duplicate, no replay that  *)
(* misses its position.                                                     *)
NoError == err = "none"

(* Every trace is explored at most once, in stateful and in stateless mode: *)
(* the reduction is optimal.                                                *)
Explored == {TraceOf(maxconfs[i].trace) : i \in 1..Len(maxconfs)}
Optimal == Cardinality(Explored) = Len(maxconfs)

(* When the exploration ends, the maximal configurations it visited are the *)
(* maximal traces of the program: none is missed and none is invented, and  *)
(* stateless mode, which forgets, finds as many as stateful mode.           *)
Complete == Done => Explored = MaximalTraces(prog)

(* An event can happen where its history puts it: after its local history   *)
(* its thread runs to its position (the comment on History in State.hs).    *)
(* Checked for the newest event.                                            *)
HistoryEnables ==
  cntr - 1 \in DOMAIN evts \ {botEID} =>
    LET ev == evts[cntr - 1]
    IN  \E st \in Replay(ToSet(localHistory(evts, ev.pred))) :
          \E f \in run(prog.code, st, tidOf(ev.name)).res : f.pos = ev.name[2]

(* No two events have the same name and the same history: ext looks for     *)
(* successors of e with the same name "to avoid duplicates".                *)
NoDuplicateEvents ==
  \A e1, e2 \in DOMAIN evts :
    evts[e1].name = evts[e2].name /\ ToSet(evts[e1].pred) = ToSet(evts[e2].pred) => e1 = e2

(* The icnf lists hold the immediate conflicts and nothing else.  Two events *)
(* race when they are dependent and neither is a cause of the other; they   *)
(* are in immediate conflict when no other pair at or below them races, so  *)
(* that one configuration has room for either.  compute_conflicts looks     *)
(* once, when the later of the two is added, and stops at what it has       *)
(* already found: a list must miss no conflict behind a stop, keep none     *)
(* above a conflict found late, and be mirrored in the other event's.       *)
(* Checked of the whole prefix at the end and, where stateless mode will    *)
(* have deleted some of it by then, at every maximal configuration.         *)
ImmediateConflicts ==
  Done \/ (opts.stateless /\ AtPc("explore") /\ Head(frames).c.enevs = << >>) =>
    LET ids    == DOMAIN evts
        below  == UNION {{<<p, e>> : p \in Past(e) \cup {e}} : e \in ids}
        racing == {c \in ids \X ids :
                     c \notin below /\ <<c[2], c[1]>> \notin below /\ ~is_independent(evts, c[1], c[2])}
    IN  UNION {{<<e, f>> : f \in Icnf(e)} : e \in ids} =
          {c \in racing : \A b \in racing :
                            <<b[1], c[1]>> \in below /\ <<b[2], c[2]>> \in below => b = c}

(* Where explore starts, the enabled events still in the prefix extend the  *)
(* configuration (the @ASSERT in unfold), no two are of one thread, and     *)
(* without cutoffs and with nothing in d to avoid there is one for every    *)
(* enabled thread: the configuration is taken for maximal only when every   *)
(* thread is stuck.                                                         *)
EnabledEvents ==
  AtPc("explore") =>
    LET c  == Head(frames).c
        en == ToSet(c.enevs) \cap DOMAIN evts
    IN  /\ \A e \in en : Extends(e, ToSet(stak))
        /\ \A e1, e2 \in en : tidOf(evts[e1].name) = tidOf(evts[e2].name) => e1 = e2
        /\ ~opts.cutoffs /\ Head(frames).d = << >> =>
             {tidOf(evts[e].name) : e \in en} = enabled(prog.code, c.state)

(* The state explore works with, which it reached in the order of the call  *)
(* stack, is the state of its configuration in other orders too, that of    *)
(* st_history and that of creation: independent events commute.             *)
StateOfConfiguration ==
  AtPc("explore") =>
    \A order \in {st_order(evts, ToSet(stak)), OldestFirst(ToSet(stak))} :
      ReplayIn(order) = {Head(frames).c.state}

(* Stateless mode keeps the current branch only: when explore is entered,   *)
(* an event of the prefix is in the configuration, in the disabled set or   *)
(* in the alternative to be followed, or extends these by one step, and in  *)
(* the end bottom alone is left (core and prune).                           *)
CurrentBranchOnly ==
  opts.stateless =>
    /\ Done => DOMAIN evts = {botEID}
    /\ AtPc("explore") =>
         LET branch == ToSet(stak) \cup ToSet(Head(frames).d) \cup ToSet(Head(frames).alt)
         IN  \A e \in DOMAIN evts \ branch : ToSet(evts[e].pred) \subseteq branch

(* The exploration ends, and not with a call of error. *)
Termination == <>Done

-----------------------------------------------------------------------------
(* The states and edges that are reachable under any schedule. *)
MaxDepth == 20
ReachableStates ==
  LET level[k \in 0..MaxDepth] ==
        IF k = 0 THEN {gbst(prog)}
        ELSE UNION {{st} \cup {f.st : f \in UNION {run(prog.code, st, t).res : t \in DOMAIN st.th}}
                    : st \in level[k - 1]}
  IN  level[MaxDepth]

(* With cutoffs every block of code some schedule executes is an event of   *)
(* the prefix (stateful mode keeps it all).                                 *)
CoversBlocks ==
  Done /\ ~opts.stateless =>
    {evts[e].name : e \in DOMAIN evts \ {botEID}} =
      UNION {UNION {{<<t, f.pos, toThCFGSym(f.st, t)>> : f \in run(prog.code, st, t).res}
                    : t \in DOMAIN st.th} : st \in ReachableStates}

(* The warnings are the calls of __VERIFIER_error that some schedule        *)
(* executes, cutoffs and pruning notwithstanding.                           *)
Warnings ==
  Done => stats.nr_warns =
            UNION {UNION {run(prog.code, st, t).warns : t \in enabled(prog.code, st)} : st \in ReachableStates}

-----------------------------------------------------------------------------
(* The unfolder implements Exploration, and with it EventStructure: what    *)
(* ext finds for a program satisfies what Exploration takes as given, and   *)
(* explore does with it what Exploration says.                              *)

(* predecessors as a set, of all events at once *)
Causes(E) ==
  LET c[x \in DOMAIN E] == ToSet(E[x].pred) \cup UNION {c[p] : p \in ToSet(E[x].pred)} IN c

(* frame i, counted from the newest; its configuration is what the calls of *)
(* it and of newer frames have not pushed                                   *)
Activation(i) ==
  LET f == frames[i]
  IN  [pc |-> f.pc, size |-> Len(stak) - Cardinality({j \in 1..i : frames[j].pc = "call"}),
       e |-> f.e, en |-> ToSet(f.c.enevs), d |-> ToSet(f.d), alt |-> ToSet(f.alt),
       dels |-> ToSet(f.dels) \cap DOMAIN evts]

(* the events found after a maximal configuration that holds their history *)
Late ==
  LET c == Causes(evts)
  IN  {e \in DOMAIN evts : \E i \in 1..Len(maxconfs) : maxconfs[i].next <= e /\ c[e] \subseteq maxconfs[i].events}

(* In stateful mode there are none, unless the program locks: ext finds the *)
(* conflicting extensions of an event with the event itself, while          *)
(* histories_lock goes back in the order of the critical sections one       *)
(* unlock at a time, so that of programs with locks this says nothing.      *)
(* This is what Exploration's VisitsAll assumes.                            *)
FoundInTime == ~opts.stateless /\ (\A e \in DOMAIN evts : ~isLock(evts[e].acts)) => Late = {}

Ex == INSTANCE Exploration WITH
        evs  <- DOMAIN evts,
        pred <- [e \in DOMAIN evts |-> ToSet(evts[e].pred)],
        succ <- [e \in DOMAIN evts |-> ToSet(evts[e].succ)],
        icnf <- [e \in DOMAIN evts |-> ToSet(evts[e].icnf)],
        past <- Causes(evts),
        conf <- ToSet(stak),
        stateless <- opts.stateless,
        disa <- [e \in DOMAIN evts |-> ToSet(evts[e].disa)],
        alte <- [e \in DOMAIN evts |-> {ToSet(v) : v \in ToSet(evts[e].alte)}],
        stak <- Reverse(stak),
        frames <- [i \in 1..Len(frames) |-> Activation(Len(frames) + 1 - i)],
        job <- IF job = NoJob THEN {} ELSE {job.e},
        visited <- {maxconfs[i].events : i \in 1..Len(maxconfs)},
        late <- Late

(* Exploration's next-state relation with its choices read off the next state *)
ExplorationStep ==
  \/ cntr' # cntr /\ Ex!AddEvent(ToSet(evts'[cntr].pred), ToSet(evts'[cntr].icnf))
  \/ Ex!Start \/ Ex!Unfold \/ Ex!ExploreMaximal \/ Ex!Backtrack \/ Ex!Return \/ Ex!ReturnStateless
  \/ job' # NoJob /\ Ex!ExploreEvent(job'.e)
  \/ \E x \in DOMAIN evts \ DOMAIN evts' : Ex!Prune(x)
  \/ Ex!Pruned

ImplementsExploration == Ex!ExploreInit /\ [][ExplorationStep]_(Ex!all)

-----------------------------------------------------------------------------
(* What comments of the code say and some programs refute.                  *)

(* A history is a set of maximal events "of a configuration" (State.hs): it *)
(* holds no two events in conflict.                                         *)
HistoriesAreConfigurations ==
  \A e \in DOMAIN evts : \A p \in Past(e) : Icnf(p) \cap Past(e) = {}

(* The history of a lock "can be composed of at most two events one to      *)
(* enable this transition in the thread and an unlock from another thread"  *)
(* (Unfolder.hs): histories_lock meets no other shape.                      *)
LockHistoryShape == err # "histories_lock"
=============================================================================
