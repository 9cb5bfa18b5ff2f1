--------------------------- MODULE MCSharedInventory ---------------------------
(* Calls c1, c2, c3 and an operation r of another kind compete for one slot;  *)
(* every call, and r if it remembers, is about the inventory k1, and the      *)
(* server changes once.                                                       *)
EXTENDS SharedInventory, TLC

CONSTANTS c1, c2, c3, r, k1

OneKey == [o \in Calls \cup Readers |-> k1]
Unlimited == [o \in Ops |-> NoCapability]
NoLimits == [s \in {} |-> 1]
Triple == Permutations({c1, c2, c3})
=============================================================================
