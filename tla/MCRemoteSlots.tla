----------------------------- MODULE MCRemoteSlots -----------------------------
(* Capability: o1 and o2 belong to a capability call that allows one at a    *)
(* time, o3 to one that allows as many as the session, o4 to none.           *)
EXTENDS RemoteSlots, TLC

CONSTANTS o1, o2, o3, o4, narrow, wide

Capability == (o1 :> narrow) @@ (o2 :> narrow) @@ (o3 :> wide) @@ (o4 :> NoCapability)
Limits == (narrow :> 1) @@ (wide :> 2)
=============================================================================
