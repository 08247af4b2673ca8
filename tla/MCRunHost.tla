------------------------------ MODULE MCRunHost ------------------------------
EXTENDS RunHost, TLC

(* Model values stand for each other in every set of constants. *)
Sym == Permutations(Operations) \cup Permutations(Answers)
         \cup Permutations(Ids) \cup Permutations(Requests)
=============================================================================
