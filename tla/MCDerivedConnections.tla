------------------------- MODULE MCDerivedConnections -------------------------
(* Small instances of DerivedConnections.  KeyOfShared: three calls on one    *)
(* key.  KeyOfMixed: two calls on one key, of which one leads and the other   *)
(* follows, comes late or comes in between, and one call on another key.      *)
EXTENDS DerivedConnections, TLC

CONSTANTS c1, c2, c3, k1, k2, d1, d2

KeyOfShared == (c1 :> k1) @@ (c2 :> k1) @@ (c3 :> k1)
KeyOfMixed == (c1 :> k1) @@ (c2 :> k1) @@ (c3 :> k2)
=============================================================================
