------------------------- MODULE MCFileTransaction -------------------------
(***************************************************************************)
(* A small instance of FileTransaction for TLC: the updates it is asked    *)
(* for.  O is what the previous install put there, N is new, and X is new  *)
(* and has no digest.                                                      *)
(***************************************************************************)
EXTENDS FileTransaction, TLC

CONSTANTS p1, p2, O, N, X, U

Request(old1, new1, old2, new2) ==
    [old |-> (p1 :> old1 @@ p2 :> old2), new |-> (p1 :> new1 @@ p2 :> new2)]

\* Between them: replace, drop and bring a file; replace by one without a
\* digest; a file that stays, beside one that only the user has.
MCRequests ==
    {Request(O, N, O, Absent), Request(O, X, Absent, N), Request(O, O, Absent, Absent)}

\* One file to replace and one to bring, each prepared in one way only.
TwoFiles == {Request(O, X, Absent, X)}
=============================================================================
