--------------------------- MODULE MCAddressBook ---------------------------
(* A small instance of AddressBook: a request to save a default address that  *)
(* is sent twice, and another that does not say.                              *)
EXTENDS AddressBook, TLC

CONSTANTS a1, a2, a3, k1, k2

MCKeyOf == a1 :> k1 @@ a2 :> k1 @@ a3 :> k2
MCAsDefault == a1 :> "YES" @@ a2 :> "YES" @@ a3 :> "UNSAID"
=============================================================================
