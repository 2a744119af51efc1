---- MODULE MCIdeaIntake ----
(* One tab that is opened twice and one program of the same account; two ideas, *)
(* three requests.  What two tabs share is the table, which the program shares. *)
EXTENDS IdeaIntake
====
