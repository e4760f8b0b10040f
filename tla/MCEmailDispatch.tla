--------------------------- MODULE MCEmailDispatch ---------------------------
EXTENDS EmailDispatch

CONSTANTS code, first, second

(* A login beside the creation of a user, and an upload of two users.        *)
MCOccasions ==
    {[codes |-> {code}, created |-> {first}, upload |-> <<>>],
     [codes |-> {}, created |-> {}, upload |-> <<first, second>>]}
=============================================================================
