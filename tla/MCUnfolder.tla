----------------------------- MODULE MCUnfolder -----------------------------
(***************************************************************************)
(* Instances of the unfolder: families of programs and the options they are *)
(* explored with.                                                           *)
(***************************************************************************)
EXTENDS UnfolderProperties, Programs

Races      == Three({"Wx", "Wy", "Rx"})
Locks      == Three({"Lz", "Ez", "Wx"}) \cup Two({"LL", "LWx", "Ez", "MN", "Rx"})
Threads    == LET S == {"Ex", "Wx", "Wy", "Cx"} IN {Program(<<a, b>>) : a \in S, b \in S \cup {"Cr"}}
Schedules  == Races \cup Locks \cup Threads
Loops      == Two({"Lp", "LpW", "LpE", "LpC", "Wy"})

(* where the code and its comments disagree *)
OppositeOrder   == {Program(<<"MN", "NM">>)}
WriteThenLock   == {Program(<<"Wx", "WxL">>)}
Conditional     == {Program(<<"Wx", "Wy", "Cx">>)}
WriteThenJoin   == {Program(<<"Wy", "CrW">>)}
TwoCreators     == {Program(<<"Cr", "Wx">>)}

NoCutoffs   == {[stateless |-> s, cutoffs |-> FALSE] : s \in BOOLEAN}
WithCutoffs == {[stateless |-> s, cutoffs |-> TRUE] : s \in BOOLEAN}
=============================================================================
