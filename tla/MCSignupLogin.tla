--------------------------- MODULE MCSignupLogin ---------------------------
EXTENDS SignupLogin, TLC

CONSTANTS a, a1  \* two names; a with id 2 makes the text a1 with id 1 makes

(* "a" and 2 stand for "a" and 11, the first id that collides. *)
MCFolder == [n \in Names |-> [i \in Ids |->
               IF <<n, i>> = <<a, 2>> THEN <<a1, 1>> ELSE <<n, i>>]]

(* Threads and passwords are interchangeable; names are not. *)
MCSymmetry == Permutations(Threads) \cup Permutations(Passwords)
=============================================================================
