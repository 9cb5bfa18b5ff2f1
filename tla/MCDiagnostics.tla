------------------------------ MODULE MCDiagnostics ------------------------------
(* Small deployments: a replica set that is whole, one with a node down, one    *)
(* with two primaries, two sharded clusters, and one that is too old.           *)
EXTENDS Diagnostics

ReplicaSet(wire, r1, r2, r3) ==
    [sharded |-> FALSE, wire |-> wire, members |-> [rs |-> {1, 2, 3}],
     role |-> <<r1, r2, r3>>]
Shards(wire, r1, r2) ==
    [sharded |-> TRUE, wire |-> wire, members |-> [sh1 |-> {1}, sh2 |-> {2}],
     role |-> <<r1, r2>>]

MCDeployments ==
    {ReplicaSet(6, "PRIMARY", "SECONDARY", "ARBITER"),
     ReplicaSet(5, "PRIMARY", "SECONDARY", "DOWN"),
     ReplicaSet(4, "PRIMARY", "SECONDARY", "SECONDARY"),
     ReplicaSet(6, "PRIMARY", "PRIMARY", "RECOVERING"),
     Shards(6, "PRIMARY", "PRIMARY"), Shards(5, "PRIMARY", "SECONDARY")}

MCCalls ==
    [name : {"overview"}, faults : {2}, legacy : BOOLEAN]
    \cup [name : {"collstats"}, faults : {2}, shardedOnly : BOOLEAN]
    \cup [name : {"operations"}, faults : {3}, allUsers : BOOLEAN]
    \cup [name : {"slowlog"}, faults : {2}, legacy : BOOLEAN, detail : BOOLEAN]
    \cup [name : {"doctor"}, faults : {1}, legacy : BOOLEAN, oplog : {TRUE},
          minimum : {"info"}]
    \cup [name : {"capacity"}, faults : {1}, free : BOOLEAN, most : {2}]
    \cup [name : {"capacity", "indexaudit"}, faults : {0}, free : {FALSE}, most : {1},
          consistency : {FALSE}, general : {TRUE}]
    \cup [name : {"indexaudit"}, faults : {1}, most : {2}, consistency : {TRUE},
          general : BOOLEAN]
    \cup [name : {"indexaudit"}, faults : {1}, most : {2}, consistency : {FALSE},
          general : {TRUE}]
    \cup [name : {"hotspot"}, faults : {2}]

(* Only what is critical matters to this caller. *)
MCCriticalCalls ==
    [name : {"doctor"}, faults : {1}, legacy : {FALSE}, oplog : {FALSE}, minimum : {"critical"}]

(* An audit in which no request fails. *)
MCAuditCalls ==
    [name : {"indexaudit"}, faults : {0}, most : {2}, consistency : {FALSE}, general : {TRUE}]

MCViews ==
    {[applied |-> <<9, 9, 9>>, elected |-> {}, silent |-> {}, troubled |-> {}, majority |-> 2],
     [applied |-> <<9, 4, 0>>, elected |-> {1}, silent |-> {2}, troubled |-> {2, 3},
      majority |-> 0]}
MCNodeSamples ==
    {[uptime |-> 9, reported |-> TRUE, used |-> 96, free |-> 4, cache |-> 95, evicted |-> 1, queued |-> 1]}
MCQuietSamples ==
    {[uptime |-> 900, reported |-> TRUE, used |-> 10, free |-> 90, cache |-> 10, evicted |-> 0, queued |-> 0]}
MCDiskSamples == {50, 95}
MCWindows == {5}

Counters(rejected, evicted) == [rejected |-> rejected, evicted |-> evicted, latency |-> evicted]
Reading(life, uptime, counters, queued, used) ==
    [life |-> life, uptime |-> uptime, reported |-> TRUE, counters |-> counters,
     queued |-> queued, used |-> used]
MCReadings ==
    {Reading(1, 9, Counters(1, 1), 1, [n1 |-> 1]),
     Reading(1, 9, Counters(2, 2), 1, [n1 |-> 2, n2 |-> 1]),
     Reading(2, 1, Counters(2, 3), 0, [n1 |-> 3]),
     Reading(2, 1, Counters(0, 0), 0, [n1 |-> 0]),
     [Reading(2, 0, Counters(3, 3), 0, [n1 |-> 4]) EXCEPT !.reported = FALSE]}

Index(ops, old, key) == [ops |-> ops, old |-> old, key |-> key, properties |-> {}]
MCIndexSamples ==
    {[i |-> Index(0, TRUE, <<"x">>), j |-> Index(1, TRUE, <<"x", "y">>)],
     [i |-> Index(0, FALSE, <<"x">>), j |-> Index(0, TRUE, <<"y">>)],
     [j |-> Index(0, TRUE, <<"x", "y">>)]}
MCBuilds == {{}, {"i"}}
================================================================================
