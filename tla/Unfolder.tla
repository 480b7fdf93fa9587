------------------------------ MODULE Unfolder ------------------------------
(***************************************************************************)
(* The unfolder (Exploration/UNF/Unfolder.hs): a depth-first exploration of *)
(* the configurations of the unfolding of a concurrent program, which it    *)
(* builds on the way, with the alternatives of optimal partial order        *)
(* reduction, in stateful or stateless mode, with or without cutoffs.       *)
(*                                                                          *)
(* explore is recursive; frames holds its activations, the running one      *)
(* first, and the field pc of a frame says where it stands:                 *)
(*   "explore"  at its entry                                                *)
(*   "unfold"   in unfold, whose loop over threads and histories is job     *)
(*   "call"     in the recursive call on the configuration with e           *)
(*   "again"    in the recursive call on an alternative, or after it        *)
(*   "prune"    in prune, with the events dels left to delete               *)
(* An error call of the code stops the program: err is set and nothing      *)
(* moves.                                                                   *)
(***************************************************************************)
EXTENDS Extensions, Alternatives

CONSTANTS Programs,  \* records [code, heap, main], see Collapse
          Options    \* records [stateless, cutoffs]

VARIABLES prog, opts,  \* the system and the options, fixed by Init
          evts,        \* the unfolding prefix
          stak,        \* call stack: the events of the current configuration
          cntr,        \* event counter
          stas,        \* cutoff table: pairs <<state, size>>
          stats,       \* statistics
          frames, job, err,
          maxconfs     \* history variable: the maximal configurations explored

vars == <<prog, opts, evts, stak, cntr, stas, stats, frames, job, err, maxconfs>>
system == <<prog, opts>>

Conf(st, ma, en, cf) == [state |-> st, maevs |-> ma, enevs |-> en, cfevs |-> cf]
Frame(c, eh, d, alt) == [pc |-> "explore", c |-> c, eh |-> eh, d |-> d, alt |-> alt, e |-> botEID,
                         dels |-> << >>]

(* The loop of unfold and of initial_ext over the threads to extend: adds   *)
(* are the histories ext has left to add for the event (name, acts), dup    *)
(* its duplicates, new the enabled events found so far.                     *)
Job(e, maxevs, st, threads, senevs) ==
  [e |-> e, maxevs |-> maxevs, st |-> st, threads |-> threads, senevs |-> senevs,
   name |-> botName, acts |-> botAct, dup |-> {}, adds |-> << >>, new |-> << >>]
NoJob == [e |-> botEID, threads |-> << >>]

gbst(p) == convert(p.heap, p.main)

(* i_unf_state, then initial_ext up to its loop over the enabled threads *)
Init ==
  /\ prog \in Programs /\ opts \in Options
  /\ evts = (botEID :> botEvent)
  /\ stak = <<botEID>>
  /\ cntr = 1
  /\ stas = {<<gbst(prog), 0>>}
  /\ stats = [nr_max_conf |-> 0, nr_cutoffs |-> 0, nr_evs_prefix |-> 1,
              sum_size_max_conf |-> 0, nr_evs_per_name |-> SetToBag({botName}), nr_warns |-> {}]
  /\ frames = << >>
  /\ job = Job(botEID, <<botEID>>, gbst(prog), Ascending(enabled(prog.code, gbst(prog))), << >>)
  /\ err = "none"
  /\ maxconfs = << >>

Running == err = "none"
AtPc(pc) == Running /\ job = NoJob /\ frames # << >> /\ Head(frames).pc = pc
Goto(pc) == <<[Head(frames) EXCEPT !.pc = pc]>> \o Tail(frames)
Fail(why) == err' = why /\ UNCHANGED <<system, evts, stak, cntr, stas, stats, frames, job, maxconfs>>

-----------------------------------------------------------------------------
(* extend and ext for the next thread: the histories of its next event that *)
(* hold job.e, the largest one, h0, last.                                   *)
Extending == Running /\ job # NoJob /\ job.adds = << >>

Extend ==
  /\ Extending /\ job.threads # << >>
  /\ LET th   == Head(job.threads)
         r    == run(prog.code, job.st, th)
         f    == CHOOSE x \in r.res : TRUE
         name == <<th, f.pos, toThCFGSym(f.st, th)>>
         h0   == history(evts, name, f.acts, job.maxevs)
         oth  == otherHistories(evts, name, f.acts, job.e, h0)
         inH0 == job.e \in ToSet(h0)
     IN  IF h0 = << >> THEN Fail("null h0")
         ELSE IF inH0 /\ oth.error THEN Fail("histories_lock")
         ELSE /\ job' = [job EXCEPT !.threads = Tail(@), !.name = name, !.acts = f.acts,
                           !.dup  = {s \in ToSet(evts[job.e].succ) : evts[s].name = name},
                           !.adds = IF inH0 THEN Append(oth.his, h0) ELSE << >>]
              /\ stats' = [stats EXCEPT !.nr_warns = @ \cup r.warns]
              /\ UNCHANGED <<system, evts, stak, cntr, stas, frames, err, maxconfs>>

(* add_event for the next history; the identifier of the event with h0 (the *)
(* last one) is what ext returns.                                           *)
Added(es) ==
  job' = [job EXCEPT !.adds = Tail(@),
            !.new = IF Len(job.adds) > 1 THEN @
                    ELSE IF frames = << >> THEN es \o @ ELSE @ \o es]

AddEvent ==
  /\ Running /\ job # NoJob /\ job.adds # << >>
  /\ LET h      == Head(job.adds)
         old    == hasDup(evts, job.dup, h)
         lh     == ToSet(localHistory(evts, h))
         size   == Cardinality(lh) + 1
         sts    == st_local_conf(evts, prog, job.name, lh)
         st     == CHOOSE s \in sts : TRUE
         isCut  == opts.cutoffs /\ cutoffCheck(stas, st, size)
         cnfls  == compute_conflicts(evts, job.name, job.acts, lh)
     IN  IF old # {}
         THEN IF Cardinality(old) > 1 THEN Fail("duplicates")
              ELSE /\ Added(SetToSeq(old))
                   /\ UNCHANGED <<system, evts, stak, cntr, stas, stats, frames, err, maxconfs>>
         ELSE IF opts.cutoffs /\ sts = {} THEN Fail("drun")
         ELSE /\ stas' = IF opts.cutoffs THEN stas \cup {<<st, size>>} ELSE stas
              /\ IF isCut
                 THEN /\ stats' = [stats EXCEPT !.nr_cutoffs = @ + 1]
                      /\ Added(<< >>)
                      /\ UNCHANGED <<evts, cntr>>
                 ELSE /\ stats' = [stats EXCEPT !.nr_evs_prefix = @ + 1,
                                                  !.nr_evs_per_name = @ (+) SetToBag({job.name})]
                      /\ evts' = insert(evts, cntr, Event(job.name, job.acts, h, cnfls))
                      /\ cntr' = cntr + 1
                      /\ Added(<<cntr>>)
              /\ UNCHANGED <<system, stak, frames, err, maxconfs>>

(* The end of unfold, or of initial_ext: the new configuration is built,    *)
(* the event pushed and explore called.                                     *)
Unfold ==
  /\ Extending /\ job.threads = << >>
  /\ LET confEvs == IF frames = << >> THEN stak ELSE <<job.e>> \o stak
         nnevs   == SelectSeq(job.new, LAMBDA x : ToSet(evts[x].icnf) \cap ToSet(confEvs) = {})
         ncevs   == SelectSeq(confEvs, LAMBDA x : evts[x].icnf # << >>)
         f       == Head(frames)
     IN  /\ stak' = confEvs
         /\ frames' = IF frames = << >>
                      THEN << Frame(Conf(job.st, job.maxevs, job.new, << >>), botEID, << >>, << >>) >>
                      ELSE << Frame(Conf(job.st, job.maxevs, nnevs \o job.senevs, ncevs),
                                    job.e, f.d, Remove(f.alt, job.e)) >> \o Goto("call")
  /\ job' = NoJob
  /\ UNCHANGED <<system, evts, cntr, stas, stats, err, maxconfs>>

-----------------------------------------------------------------------------
(* The maximal configuration, and its trace: its events oldest first. *)
Trace(E, s) == Map(LAMBDA e : <<E[e].name, E[e].acts>>, Tail(Reverse(s)))

(* explore on a configuration without enabled events *)
ExploreMaximal ==
  /\ AtPc("explore") /\ Head(frames).c.enevs = << >>
  /\ evts' = possible_altes(evts, stak, Head(frames).c.cfevs)
  /\ stats' = [stats EXCEPT !.nr_max_conf = @ + 1, !.sum_size_max_conf = @ + stats.nr_evs_prefix]
  /\ maxconfs' = Append(maxconfs, [events |-> ToSet(stak), trace |-> Trace(evts, stak), next |-> cntr])
  /\ frames' = Tail(frames)
  /\ UNCHANGED <<system, stak, cntr, stas, job, err>>

(* explore chooses an event e, records the disabled set, and unfold executes e *)
ExploreEvent ==
  /\ AtPc("explore") /\ Head(frames).c.enevs # << >>
  /\ LET f     == Head(frames)
         lp    == IF f.alt = << >> THEN f.c.enevs ELSE Meet(f.c.enevs, ToSet(f.alt))
         e     == Head(lp)
         enevs == IF opts.stateless THEN filterEvents(f.c.enevs, evts) ELSE f.c.enevs
         facts == drun(prog.code, f.c.state, evts[e].name)
         x     == CHOOSE y \in facts : TRUE
         E     == set_acts(set_disa(evts, e, f.d), e, x.acts)
         es    == Remove(enevs, e)
         indep == SelectSeq(es, LAMBDA y : is_independent(E, e, y))
         tids  == {tidOf(E[y].name) : y \in ToSet(indep)}
     IN  IF lp = << >> THEN Fail("alternative")
         ELSE IF Missing(evts, {e} \cup ToSet(enevs)) # {} THEN Fail("get_event")
         ELSE IF facts = {} THEN Fail("drun")
         ELSE /\ evts' = E
              /\ frames' = <<[f EXCEPT !.pc = "unfold", !.e = e]>> \o Tail(frames)
              /\ job' = Job(e, <<e>> \o Minus(f.c.maevs, ToSet(E[e].pred)), x.st,
                            Ascending(enabled(prog.code, x.st) \ tids), indep)
              /\ UNCHANGED <<system, stak, cntr, stas, stats, err, maxconfs>>

(* The recursive call has returned: pop, and explore an alternative, if any *)
Backtrack ==
  /\ AtPc("call")
  /\ LET f  == Head(frames)
         d  == <<f.e>> \o f.d
         ma == alt2(evts, Tail(stak), d)
     IN  IF ma.is = "error" THEN Fail("get_event")
         ELSE /\ stak' = Tail(stak)
              /\ frames' = (IF ma.is = "Just"
                            THEN <<Frame(f.c, f.eh, d, Minus(ma.v, ToSet(stak')))>> ELSE << >>)
                           \o Goto("again")
              /\ UNCHANGED <<system, evts, cntr, stas, stats, job, err, maxconfs>>

(* The end of explore.  In stateless mode the events that are not in the    *)
(* core are deleted: e itself and the events of its alternatives, with all  *)
(* their successors, one del_event at a time.                               *)
Return ==
  /\ AtPc("again")
  /\ LET f == Head(frames)
         corePrefix == core(evts, stak, f.d)
     IN  IF ~opts.stateless
         THEN /\ frames' = Tail(frames)
              /\ UNCHANGED <<system, evts, stak, cntr, stas, stats, job, err, maxconfs>>
         ELSE IF Missing(evts, ToSet(stak) \cup ToSet(f.d) \cup {f.e}) # {} THEN Fail("get_event")
         ELSE /\ evts' = IF f.e \in corePrefix THEN reset_alte(evts, f.e) ELSE evts
              /\ frames' = <<[f EXCEPT !.pc = "prune",
                                       !.dels = Minus(<<f.e>> \o FlattenSeq(evts[f.e].alte), corePrefix)]>>
                           \o Tail(frames)
              /\ UNCHANGED <<system, stak, cntr, stas, stats, job, err, maxconfs>>

Prune ==
  /\ AtPc("prune")
  /\ LET f == Head(frames)
     IN  IF f.dels = << >>
         THEN frames' = Tail(frames) /\ UNCHANGED evts
         ELSE /\ evts' = del_event(evts, Head(f.dels))
              /\ frames' = <<[f EXCEPT !.dels = Tail(@)]>> \o Tail(frames)
  /\ UNCHANGED <<system, stak, cntr, stas, stats, job, err, maxconfs>>

Done == Running /\ frames = << >> /\ job = NoJob

Stopped == Done \/ ~Running
Finished == Stopped /\ UNCHANGED vars

Next == Extend \/ AddEvent \/ Unfold \/ ExploreMaximal \/ ExploreEvent \/ Backtrack
        \/ Return \/ Prune \/ Finished

(* The program is sequential: it takes steps until it stops.  This is       *)
(* WF_vars(Next) with ENABLED <<Next>>_vars replaced by its value.          *)
Fairness == []<>Stopped \/ []<><<TRUE>>_vars

Spec == Init /\ [][Next]_vars /\ Fairness
=============================================================================
