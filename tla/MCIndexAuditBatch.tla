--------------------------- MODULE MCIndexAuditBatch ---------------------------
(* A database with one name and one with three; what is called 2 may be a    *)
(* collection or a view.  Names are numbers, in the order of the listing.     *)
EXTENDS IndexAuditBatch, SequencesExt

CONSTANTS A, B, me, other

Ref(n, t) == [ns |-> n, db |-> IF n = 1 THEN A ELSE B, type |-> t]
SmallRefs == {Ref(n, "collection") : n \in 1..4} \cup {Ref(2, "view")}
Sorted == [S \in SUBSET SmallRefs |-> SetToSortSeq(S, LAMBDA p, q : p.ns < q.ns)]

Full == {{Ref(n, "collection") : n \in 1..4}}

All == [dbs |-> {A, B}, names |-> 1..4, consistency |-> FALSE, general |-> TRUE]
Some == [dbs |-> {B}, names |-> {2, 3, 4}, consistency |-> TRUE, general |-> FALSE]
TwoScopes == {All, Some}
AnyServer == [sharded : BOOLEAN, modern : BOOLEAN]
================================================================================
