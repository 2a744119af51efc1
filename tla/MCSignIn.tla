---- MODULE MCSignIn ----
(* Two tabs of one browser, two sign-ins, changes from outside in any order. *)
EXTENDS SignIn, TLC

Symmetric == Permutations(Tabs)
====
