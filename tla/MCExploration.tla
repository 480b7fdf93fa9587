---------------------------- MODULE MCExploration ----------------------------
(* The exploration of every event structure with a few events.              *)
EXTENDS Exploration

CONSTANT MaxEvents  \* bound on the event counter

MCNext == ExploreNext /\ cntr' <= MaxEvents
MCSpec == ExploreInit /\ [][MCNext]_all
=============================================================================
