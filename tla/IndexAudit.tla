------------------------------- MODULE IndexAudit -------------------------------
(***************************************************************************)
(* IndexAudit (src/pkg/mot/index_audit.go): what the catalog lists is      *)
(* compared across the shards (IndexConsistency; here one step) and then,  *)
(* for the other checks, every data node is asked how it has used the      *)
(* indexes of every collection.                                            *)
(***************************************************************************)
EXTENDS Collectors, Sequences

CONSTANTS
    IndexSamples, \* what a node tells of a collection: [index name -> [ops, old, key,
                  \* properties]]; old: it has counted for at least MinObservation
    Builds        \* sets of index names that may be being built

Consistency == call.of.consistency
General == call.of.general
TheConsistency == <<"consistency", "cluster">>
TheUsage == <<"usage", "cluster">>
TheShardList == <<"shardlist", "cluster">>

IndexAuditDetect ==
    /\ Running("indexaudit")
    /\ \/ /\ Consistency /\ ~Sharded
          /\ \E a \in Answers : Hear(TheTopology, a)
          /\ Return("none", "plain")
          /\ todo' = {} /\ UNCHANGED <<statuses, errs, kept, stopped>>
       \/ /\ Consistency => Sharded
          /\ Detect(FALSE, IF General THEN "index_usage" ELSE "none", {TheCollections})

IndexAuditCollections ==
    ListCollections(1, When(Consistency, {TheConsistency})
                       \cup When(General, {TheUsage}
                                          \cup (IF Sharded THEN {TheShardList} ELSE Discovery)))

(* What is compared comes with its collections, one by one; where nothing    *)
(* could be, the audit ends.                                                 *)
IndexAuditConsistency ==
    \/ \E a \in Answers \ Excusable : Abort(TheConsistency, a)
    \/ \E some \in SUBSET Selected, a \in Answers \ Excusable :
          /\ some # {} /\ (a = "ok" => some = Selected)
          /\ Collect(TheConsistency, a, {}, {}, When(a # "ok", {<<TheConsistency, a>>}),
                     {<<"compared", r[1], r[2]>> : r \in some})

(* The audit has asked for the topology only: the shards are still to be      *)
(* listed, unless the comparison has listed them in this session.  Without    *)
(* the list there are no targets, whatever the failure, and the audit goes on.*)
IndexAuditShards ==
    /\ TheConsistency \notin todo
    /\ \/ Collect(TheShardList, "ok", Discovery, {}, {}, {})
       \/ \E a \in Answers \ {"ok"} :
             Collect(TheShardList, a, {}, {}, {<<TheShardList, a>>}, {})

IndexAuditTargets(s) == TheConsistency \notin todo /\ DiscoverTargets(s)

IndexAuditUsage ==
    /\ TheConsistency \notin todo
    /\ GoOn(TheUsage, Discovery \cup {TheShardList},
            {<<"size", r[1], r[2]>> : r \in Selected}, {})

(* Its size, and which indexes are being built; without it the audit of the  *)
(* collection goes on, and the failure has no status.                        *)
IndexAuditSize(d, c) ==
    LET j == <<"size", d, c>>
        shell == <<"audited", d, c>> IN
    \/ Collect(j, "refused", {}, {}, {<<j, "refused">>}, {shell})
    \/ \E a \in Answers \ {"refused"}, building \in Builds :
          Collect(j, a, {<<"stats", d, c, m>> : m \in Targets}, {},
                  When(a # "ok", {<<j, a>>}),
                  {shell} \cup When(a = "ok", {<<"building", d, c, i>> : i \in building}
                                              \cup {<<"size", d, c>>}))

IndexAuditStats(d, c, m) ==
    LET j == <<"stats", d, c, m>> IN
    \/ \E a \in Answers \ {"ok"} : RecordIfAsked("index_usage", j, a, {}, {}, {})
    \/ \E a \in Answers \ {"refused"}, x \in IndexSamples :
          Record("index_usage", j, a, Excusable, {}, {<<"observed", d, c, m, x>>})

IndexAuditReturn ==
    /\ Running("indexaudit")
    /\ \/ errs = {} /\ Finish("result", "none")
       \/ /\ errs # {}
          /\ Finish("result",
                    IF Of("compared") \cup Of("audited") = {} THEN "plain" ELSE "partial")

IndexAuditNext ==
    \/ IndexAuditDetect
    \/ /\ Running("indexaudit")
       /\ \/ IndexAuditCollections \/ IndexAuditConsistency \/ IndexAuditShards
          \/ IndexAuditUsage \/ DiscoveryBreak
          \/ \E s \in Sets : IndexAuditTargets(s)
          \/ \E d \in Databases, c \in Collections :
                \/ IndexAuditSize(d, c)
                \/ \E m \in Targets : IndexAuditStats(d, c, m)
    \/ IndexAuditReturn

-----------------------------------------------------------------------------
(* evaluateIndexAuditCollection *)

Observed(d, c) == {k \in Of("observed") : k[2] = d /\ k[3] = c}
IndexNames(d, c) == UNION {DOMAIN k[5] : k \in Observed(d, c)}
Observations(d, c, i) == {k \in Observed(d, c) : i \in DOMAIN k[5]}
Building(d, c, i) == <<"building", d, c, i>> \in kept

(* Mutant: the nodes that were seen to have it speak for all. *)
CompleteWhereSeen(d, c, i) ==
    /\ ~Sharded /\ Targets # {}
    /\ \A k \in Observations(d, c, i) : k[5][i].old
    /\ ~Building(d, c, i)

(* Where shards may each have a part of the collection, it is unknown which  *)
(* nodes should have the index.                                              *)
Complete(d, c, i) ==
    /\ ~Sharded /\ Targets # {}
    /\ Cardinality(Observations(d, c, i)) = Cardinality(Targets)
    /\ \A k \in Observations(d, c, i) : k[5][i].old
    /\ ~Building(d, c, i)
Unused(d, c, i) == \A k \in Observations(d, c, i) : k[5][i].ops = 0

UsageFindings(d, c, i) ==
    Warning("unused_candidate", <<"collection", d, c, i>>,
            i # "_id_" /\ Complete(d, c, i) /\ Unused(d, c, i))
    \cup Info("usage_inconclusive", <<"collection", d, c, i>>, i # "_id_" /\ ~Complete(d, c, i))

(* The definition of an index is what one of the nodes said, the first by    *)
(* shard and address.                                                        *)
Definition(d, c, i) ==
    LET said == Observations(d, c, i) IN
    (CHOOSE k \in said : \A h \in said : k[4] <= h[4])[5][i]
KeyPrefix(a, b) == Len(a) < Len(b) /\ \A n \in 1 .. Len(a) : a[n] = b[n]
RedundantFindings(d, c, i, j) ==
    LET one == Definition(d, c, i)
        other == Definition(d, c, j) IN
    Info("redundant_prefix_candidate", <<"collection", d, c, i, j>>,
         i # j /\ one.properties = other.properties /\ KeyPrefix(one.key, other.key))

CollectionFindings(d, c) ==
    LET names == IndexNames(d, c) IN
    (UNION {UsageFindings(d, c, i) : i \in names})
    \cup (UNION {RedundantFindings(d, c, i, j) : i, j \in names})
    \cup (UNION {Info("build_in_progress", <<"collection", d, c, i>>, Building(d, c, i))
                   : i \in names})
    \cup Info("space_ratio", <<"collection", d, c>>, <<"size", d, c>> \in kept)

IndexAuditFindings == UNION {CollectionFindings(r[1], r[2]) : r \in Selected}
================================================================================
