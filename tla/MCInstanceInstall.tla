------------------------- MODULE MCInstanceInstall -------------------------
(***************************************************************************)
(* A small instance of InstanceInstall for TLC: two versions of one pack,  *)
(* which share a path with different contents and have one path each of    *)
(* their own or none, another pack, and a diff that replaces one file.     *)
(***************************************************************************)
EXTENDS InstanceInstall, TLC

CONSTANTS p1, p2, A, B

OfPack(pack, first, second) ==
    [files |-> (p1 :> first @@ p2 :> second), upstream |-> pack]

OnePack == {OfPack("pack", A, Absent), OfPack("pack", B, A)}
TwoPacks == {OfPack("pack", A, Absent), OfPack("other", Absent, B)}
OnePatch == {[old |-> (p1 :> A @@ p2 :> Absent), files |-> (p1 :> B @@ p2 :> Absent)]}
=============================================================================
