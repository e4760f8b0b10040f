--------------------------- MODULE MCAdminSessions ---------------------------
EXTENDS AdminSessions, TLC

CONSTANTS s1, s2, s3, c1, c2, q1, q2, view

(* Codes, sessions and slots are interchangeable; the bounds are in the cfg.           *)
MCGrantings ==
    {[role |-> {view}, grants |-> {}, revokes |-> {}],
     [role |-> {}, grants |-> {view}, revokes |-> {view}]}

Symmetric == Permutations(Codes) \union Permutations(Requests) \union Permutations(Sessions)
=============================================================================
