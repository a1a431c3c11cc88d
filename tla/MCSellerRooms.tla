--------------------------- MODULE MCSellerRooms ----------------------------
(* Values for the constants of SellerRooms.                                *)
EXTENDS SellerRooms, TLC

CONSTANTS ann, bob, cyd, i1, i2, a1, a2

ToBobAndCyd == (i1 :> bob) @@ (i2 :> cyd)
ToNobody == [i \in {} |-> ann]
AnnTwice == (a1 :> ann) @@ (a2 :> ann)
NoOwner == [s \in {} |-> ann]

Symmetric == Permutations(Requests)
=============================================================================
