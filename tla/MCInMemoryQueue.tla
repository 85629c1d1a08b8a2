--------------------------- MODULE MCInMemoryQueue ---------------------------
(* Two worker loops and four jobs: two ordinary ones and an urgent one of  *)
(* a tenant, and an ordinary one without a tenant, whose type the workers  *)
(* handle or not.                                                          *)
EXTENDS InMemoryQueue, TLC

SomeTenantOf == [j \in Job |-> IF j <= 3 THEN "acme" ELSE "default"]
SomePriority == [j \in Job |-> IF j = 3 THEN 2 ELSE 1]
FirstThree   == 1 .. 3

Symmetry == Permutations(Worker)
=============================================================================
