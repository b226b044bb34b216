--------------------------- MODULE MCUserDocument ---------------------------
(***************************************************************************)
(* UserDocument with one status besides Offline, Available and Away.       *)
(***************************************************************************)
EXTENDS UserDocument
=============================================================================
