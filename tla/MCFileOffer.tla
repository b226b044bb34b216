---------------------------- MODULE MCFileOffer -----------------------------
(***************************************************************************)
(* FileOffer with two offers, both from one end or one from each; the      *)
(* other two cases are these with the names of the programs exchanged.     *)
(***************************************************************************)
EXTENDS FileOffer

CONSTANTS o1, o2

MCOffers == {o1, o2}
MCSenders == {[o \in MCOffers |-> "A"], [o \in MCOffers |-> IF o = o1 THEN "A" ELSE "B"]}
=============================================================================
