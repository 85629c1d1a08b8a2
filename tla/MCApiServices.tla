---- MODULE MCApiServices ----
EXTENDS ApiServices, TLC
CONSTANTS c1, c2, c3, c4, t1, t2, t3, t4, o1, o2, o3, minute, hour
Three == {c1, c2, c3}
Four  == {c1, c2, c3, c4}
Limits  == minute :> 2 @@ hour :> 3
Lengths == minute :> 2 @@ hour :> 4
Own == t1 :> o1 @@ t2 :> o1 @@ t3 :> o2 @@ t4 :> o3
(* The tasks differ by their owners; everything else is interchangeable.   *)
Sym == Permutations(Three) \cup Permutations(Candidate)
====
