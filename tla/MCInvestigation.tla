-------------------------- MODULE MCInvestigation --------------------------
(* One incident with a few runs and a small graph: an optional side branch *)
(* and the two package stages, for the runs that check all properties; the *)
(* traces of the findings have a required stage before them.               *)
EXTENDS Investigation, TLC

TinyRequired  == {2, 3}
TinyDependsOn == <<{}, {}, {2}>>

SmallRequired  == {1, 3, 4}
SmallDependsOn == <<{}, {1}, {1}, {3}>>
=============================================================================
