----------------------------- MODULE MCMetaDraft -----------------------------
(* Two accounts, two budgets, two sites, and settings that are refused.     *)
EXTENDS MetaDraft

Good == [live |-> TRUE, operator |-> TRUE, attested |-> TRUE, bound |-> TRUE,
         account |-> "act1", site |-> "site1", max |-> 2, budget |-> 1,
         auto |-> TRUE, ackAccount |-> "act1", ackBudget |-> 1]

\* Moved to another account, the acknowledgement with it or left behind; a
\* new budget; a new site; the cap below the budget; and the switches off.
ManyEnvironments ==
    {Good,
     [Good EXCEPT !.account = "act2", !.ackAccount = "act2"],
     [Good EXCEPT !.account = "act2"],
     [Good EXCEPT !.budget = 2],
     [Good EXCEPT !.budget = 2, !.ackBudget = 2],
     [Good EXCEPT !.site = "site2"],
     [Good EXCEPT !.max = 0],
     [Good EXCEPT !.bound = FALSE],
     [Good EXCEPT !.live = FALSE],
     [Good EXCEPT !.operator = FALSE]}
==============================================================================
