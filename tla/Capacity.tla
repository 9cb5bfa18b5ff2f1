-------------------------------- MODULE Capacity --------------------------------
(***************************************************************************)
(* Capacity (src/pkg/mot/capacity.go): the sizes of every collection in    *)
(* scope, all at the same time and, behind a mongos, on the primary of     *)
(* every shard too; then one database after another, with the file systems *)
(* under it.  DiffCapacity compares two such snapshots.  Sizes are left    *)
(* out: what counts is what a snapshot has.                                *)
(***************************************************************************)
EXTENDS Collectors

FreeStorage == Gate("free_storage", call.of.free)

CapacityDetect ==
    /\ Running("capacity")
    /\ Detect(TRUE, "collection_capacity",
              {TheCollections} \cup When(Sharded, {<<"primary", s>> : s \in Sets}))

-----------------------------------------------------------------------------
(* The healthy primary of every shard, one shard after another. *)

PrimaryJobs == {<<"primary", s>> : s \in Sets}
ShardPrimaries == {k[2] : k \in Of("primary")}

CapacityPrimary(s) ==
    LET j == <<"primary", s>>
        found == \E m \in Members(s) : Role(m) = "PRIMARY" IN
    \/ \E a \in Answers \ {"ok"} : Record("collection_capacity", j, a, {}, {}, {})
    \/ found /\ Collect(j, "ok", {}, {}, {}, {j})
    \/ ~found /\ Collect(j, "ok", {}, {Status("collection_capacity", j, "failed")},
                         {<<j, "failed">>}, {})

CapacityPrimariesBreak == BreakOff(todo \cap PrimaryJobs, TheShards)

(* What is to be asked. *)
DatabaseJobs == {<<"database", r[1]>> : r \in Selected}

CapacityCollections ==
    /\ todo = {TheCollections}
    /\ ListCollections(0, {<<"capacity", r[1], r[2]>> : r \in Selected} \cup DatabaseJobs)

-----------------------------------------------------------------------------
(* A collection: its statistics, those with the free storage, and those of   *)
(* every shard, which may not have it.                                       *)

CapacityCollection(d, c) ==
    LET j == <<"capacity", d, c>> IN
    \E a \in Answers :
        RecordIfAsked("collection_capacity", j, a, Excusable,
            When(FreeStorage = "supported", {<<"free", d, c>>})
                \cup {<<"detail", d, c, s>> : s \in ShardPrimaries},
            {<<"collection", d, c>>})

CapacityFree(d, c) ==
    \E a \in Answers :
        Record("free_storage", <<"free", d, c>>, a, Excusable, {}, {<<"free", d, c>>})

(* On a shard: a connection that fails is an error, whatever the reason. *)
OnShard(name, j, nothing, keep) ==
    \/ \E a \in Answers \ {"ok"} : RecordIfAsked(name, j, a, {}, {}, {})
    \/ \E a \in (Answers \ {"refused"}) \cup nothing : Record(name, j, a, Excusable, {}, keep)

CapacityDetail(d, c, s) ==
    /\ <<"free", d, c>> \notin todo
    /\ OnShard("collection_capacity", <<"detail", d, c, s>>, OrNone, {<<"shard", d, c, s>>})

-----------------------------------------------------------------------------
(* A database is in the result, with its collections, once it has been asked *)
(* for its statistics; without a slot the rest of the databases is left out. *)

CapacityDatabase(d) ==
    LET j == <<"database", d>> IN
    /\ todo \subseteq DatabaseJobs
    /\ \E a \in Answers \ {"refused"} :
          Collect(j, a,
                  {<<"filesystem", d, s>> : s \in ShardPrimaries}
                      \cup When(a = "ok" /\ FreeStorage = "supported", {<<"free", d>>}),
                  {Status("database_capacity", j, a)},
                  When(a \notin Excusable \cup {"ok"}, {<<j, a>>}), {j})

(* Mutant: the rest of the databases is left out without a word. *)
CapacityDatabasesDropped ==
    /\ stopped /\ todo # {} /\ todo \subseteq DatabaseJobs
    /\ todo' = {}
    /\ UNCHANGED <<call, heard, statuses, errs, kept, stopped, faults>>

CapacityDatabasesBreak ==
    todo \subseteq DatabaseJobs /\ BreakOff(todo, <<"databases", "cluster">>)

CapacityFilesystem(d, s) ==
    OnShard("database_filesystem", <<"filesystem", d, s>>, {}, {<<"filesystem", d, s>>})

(* What succeeds here has no status of its own. *)
CapacityDatabaseFree(d) ==
    LET j == <<"free", d>> IN
    /\ ~\E s \in Sets : <<"filesystem", d, s>> \in todo
    /\ \E a \in Answers :
          Collect(j, a, {}, When(a # "ok", {Status("database_free_storage", j, a)}),
                  When(a \notin Excusable \cup {"ok"}, {<<j, a>>}), {})

CapacityReturn ==
    /\ Running("capacity") /\ todo = {}
    /\ statuses' = statuses \cup
           When(FreeStorage # "supported",
                {[name |-> "free_storage", of |-> TheTopology, state |-> FreeStorage]})
    /\ Return("result", IF errs = {} THEN "none"
                        ELSE IF \E d \in Databases : <<"database", d>> \in kept THEN "partial"
                        ELSE "plain")
    /\ UNCHANGED <<todo, heard, errs, kept, stopped, faults>>

CapacityNext ==
    \/ CapacityDetect
    \/ /\ Running("capacity")
       /\ \/ CapacityPrimariesBreak \/ CapacityCollections \/ CapacityDatabasesBreak
          \/ \E s \in Sets : CapacityPrimary(s)
          \/ \E d \in Databases :
                \/ CapacityDatabase(d) \/ CapacityDatabaseFree(d)
                \/ \E s \in Sets : CapacityFilesystem(d, s)
                \/ \E c \in Collections :
                      \/ CapacityCollection(d, c) \/ CapacityFree(d, c)
                      \/ \E s \in Sets : CapacityDetail(d, c, s)
    \/ CapacityReturn

-----------------------------------------------------------------------------
(* The snapshot, and DiffCapacity's word on a collection of two snapshots of *)
(* one cluster.                                                              *)

Snapshot ==
    {r \in Selected : {<<"database", r[1]>>, <<"collection", r[1], r[2]>>} \subseteq kept}

LifecycleState(before, after, r) ==
    IF r \notin before THEN "added" ELSE IF r \notin after THEN "removed" ELSE "existing"
DiffCapacity(before, after) ==
    [r \in before \cup after |-> LifecycleState(before, after, r)]
================================================================================
