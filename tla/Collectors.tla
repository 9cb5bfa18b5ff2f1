------------------------------- MODULE Collectors -------------------------------
(***************************************************************************)
(* What the read-only capabilities of src/pkg/mot have in common.  A call  *)
(* of a capability asks servers for many things, most of them at the same  *)
(* time: a job is one such request, <<what, of whom>>, from the slot it    *)
(* waits for to the answer it gets.  (RemoteSlots and DerivedConnections   *)
(* are about that wait and the connection; here a job is one step.)  An    *)
(* answer adds to what the call collects: statuses, errors, data and       *)
(* findings; and it makes further jobs ready.  A group that the code waits *)
(* for is over when none of its jobs is left in todo.                      *)
(*                                                                         *)
(* The modules that extend this one are the capabilities; Diagnostics puts *)
(* them together.                                                          *)
(***************************************************************************)
EXTENDS Naturals, FiniteSets

CONSTANTS
    Deployments, \* what a client may be connected to: [sharded, wire, members, role]
    Databases,   \* the databases of every replica set
    Collections, \* the collections of every database
    Calls        \* the calls that may be made: [name, faults, ...options]; faults is
                 \* a bound, on the requests that were sent and failed

ASSUME CallsAssumption ==
    \A c \in Calls : "name" \in DOMAIN c /\ (c.name = "slowlog" => "detail" \in DOMAIN c)

(* Replica sets are finite; a client is connected to one, or to a mongos.    *)
ASSUME DeploymentsAssumption ==
    \A d \in Deployments :
        /\ d.wire \in Nat
        /\ \A s \in DOMAIN d.members : IsFiniteSet(d.members[s])
        /\ ~d.sharded => \A s, t \in DOMAIN d.members : s = t

Roles == {"PRIMARY", "SECONDARY", "ARBITER", "RECOVERING", "DOWN"}

VARIABLES
    call,     \* the call, the deployment and where it is: [at, of, on, res, err]
    todo,     \* jobs that are ready or under way
    heard,    \* <<job, answer>>: what the servers, or the context, answered
    statuses, \* CollectorStatuses of the result: [name, of, state]
    errs,     \* collectorErrors
    kept,     \* data of the result, and findings
    stopped,  \* the context has ended, or the session was closed
    faults

vars == <<call, todo, heard, statuses, errs, kept, stopped, faults>>

Excusable == {"unauthorized", "unsupported"}

(* Once the context has ended a job gets no slot, or fails while it reads.   *)
(* Before, some may be answered that there is nothing.                       *)
Answers == IF stopped THEN {"refused", "failed"} ELSE {"ok", "failed"} \cup Excusable
OrNone == IF stopped THEN {} ELSE {"none"}

Cap == call.of.name
Sharded == call.on.sharded
Wire == call.on.wire
Sets == DOMAIN call.on.members
Members(s) == call.on.members[s]
Role(m) == call.on.role[m]
HoldsData(m) == Role(m) \in {"PRIMARY", "SECONDARY"}

When(cond, S) == IF cond THEN S ELSE {}
LastOf(S) == CHOOSE m \in S : \A n \in S : n <= m
FirstOf(S) == CHOOSE m \in S : \A n \in S : m <= n

Of(kind) == {k \in kept : k[1] = kind}

Running(name) == call.at = "running" /\ call.of.name = name
Answered(a) == {h[1] : h \in {g \in heard : g[2] = a}}

-----------------------------------------------------------------------------
(* The registry of capabilities, the gate, and the status of a failure. *)

MinimumWireVersion ==
    [collection_capacity |-> 5, database_capacity |-> 5, free_storage |-> 6,
     current_operations |-> 5, hotspot_snapshot |-> 5, index_usage |-> 5, oplog_window |-> 5,
     replica_status |-> 5, server_status |-> 5, slowlog_insight |-> 5]
ExpensiveOptIn == {"free_storage"}

Gate(name, requested) ==
    IF name \notin DOMAIN MinimumWireVersion THEN "supported"
    ELSE IF Wire < MinimumWireVersion[name] THEN "unsupported"
    ELSE IF name \in ExpensiveOptIn /\ ~requested THEN "skipped"
    ELSE "supported"

State(a) ==
    CASE a = "ok" -> "supported" [] a = "none" -> "skipped" [] a \in Excusable -> a
      [] OTHER -> "failed"
Status(name, j, a) == [name |-> name, of |-> j, state |-> State(a)]

(* A finding, where the condition holds. *)

Finding(code, severity, of) == [code |-> code, severity |-> severity, of |-> of]
Critical(code, of, cond) == When(cond, {Finding(code, "critical", of)})
Warning(code, of, cond) == When(cond, {Finding(code, "warning", of)})
Info(code, of, cond) == When(cond, {Finding(code, "info", of)})

-----------------------------------------------------------------------------
(* Steps *)

Init ==
    /\ call = [at |-> "idle"]
    /\ todo = {} /\ heard = {} /\ statuses = {} /\ errs = {} /\ kept = {}
    /\ stopped = FALSE /\ faults = 0

TheTopology == <<"topology", "cluster">>
TheShards == <<"shards", "cluster">>

Begin(c) ==
    /\ call.at = "idle" /\ c \in Calls
    /\ \E d \in Deployments :
          call' = [at |-> "running", of |-> c, on |-> d, res |-> "none", err |-> "none"]
    /\ todo' = {TheTopology}
    /\ UNCHANGED <<heard, statuses, errs, kept, stopped, faults>>

Stop ==
    /\ call.at = "running" /\ ~stopped
    /\ stopped' = TRUE
    /\ UNCHANGED <<call, todo, heard, statuses, errs, kept, faults>>

Hear(j, a) ==
    /\ j \in todo /\ a \in Answers \cup OrNone
    /\ heard' = heard \cup {<<j, a>>}
    /\ faults' = IF a \in {"ok", "none", "refused"} THEN faults ELSE faults + 1
    /\ faults' <= call.of.faults

(* Job j is answered a; what follows, and what is collected. *)
Proceed(j, next, stat, err, keep) ==
    /\ j \in todo
    /\ todo' = (todo \ {j}) \cup next
    /\ statuses' = statuses \cup stat
    /\ errs' = errs \cup err
    /\ kept' = kept \cup keep
    /\ UNCHANGED <<call, stopped>>

Collect(j, a, next, stat, err, keep) == Hear(j, a) /\ Proceed(j, next, stat, err, keep)

(* A job that asks nobody: the code has waited for a group and goes on. *)
GoOn(j, group, next, err) ==
    /\ todo \cap group = {}
    /\ Proceed(j, next, {}, err, {})
    /\ UNCHANGED <<heard, faults>>

(* The usual case: a status and, unless it is excused, an error.  What comes *)
(* next and what is kept needs an answer that is one.                        *)
Record(name, j, a, excused, next, keep) ==
    Collect(j, a, When(a = "ok", next), {Status(name, j, a)},
            When(a \notin excused \cup {"ok", "none"}, {<<j, a>>}),
            When(a = "ok", keep))

(* Mutant: a job that got no slot is forgotten. *)
SilentRefusal(j) == Collect(j, "refused", {}, {}, {}, {})

(* Without a slot, or when the context is found to have ended, only an error. *)
Refused(j) == Collect(j, "refused", {}, {}, {<<j, "refused">>}, {})

RecordIfAsked(name, j, a, excused, next, keep) ==
    IF a = "refused" THEN Refused(j) ELSE Record(name, j, a, excused, next, keep)

(* Jobs that are handed out one after another: what is left waits. *)
OneByOne(what) == \A j \in todo : j[1] = what

(* What the code does when the last job of a group is answered. *)
AfterLast(j, group, next) == IF todo \cap group \subseteq {j} THEN next ELSE {}

(* A loop that hands out jobs ends when the context has ended. *)
BreakOff(jobs, loop) ==
    /\ stopped /\ jobs # {} /\ jobs \subseteq todo
    /\ todo' = todo \ jobs
    /\ errs' = errs \cup {<<loop, "refused">>}
    /\ UNCHANGED <<call, heard, statuses, kept, stopped, faults>>

(* The call returns a result, or none, and no error, a partial error or      *)
(* another one.                                                              *)
Return(res, err) ==
    call' = [call EXCEPT !.at = "returned", !.res = res, !.err = err]

Finish(res, err) ==
    /\ call.at = "running" /\ todo = {}
    /\ Return(res, err)
    /\ UNCHANGED <<todo, heard, statuses, errs, kept, stopped, faults>>

(* Mutant: a call that is given up is reported as partial. *)
AbortPartial(j, a) ==
    /\ Hear(j, a) /\ a # "ok"
    /\ Return("none", "partial")
    /\ todo' = {}
    /\ UNCHANGED <<statuses, errs, kept, stopped>>

(* A failure that ends the call without a result. *)
Abort(j, a) ==
    /\ Hear(j, a) /\ a # "ok"
    /\ Return("none", "plain")
    /\ todo' = {}
    /\ UNCHANGED <<statuses, errs, kept, stopped>>

(* The topology, and for some capabilities (detectCluster) the shards too;   *)
(* then the gate, and without it a status and no error; then the first jobs. *)
Entrance(whole) == IF whole /\ Sharded THEN TheShards ELSE TheTopology

Detect(whole, gate, next) ==
    \/ \E j \in {TheTopology, TheShards}, a \in Answers : Abort(j, a)
    \/ /\ whole /\ Sharded
       /\ Collect(TheTopology, "ok", {TheShards}, {}, {}, {})
    \/ /\ Gate(gate, TRUE) = "unsupported"
       /\ Hear(Entrance(whole), "ok")
       /\ Return("result", "none")
       /\ statuses' = {[name |-> gate, of |-> TheTopology, state |-> "unsupported"]}
       /\ todo' = {}
       /\ UNCHANGED <<errs, kept, stopped>>
    \/ /\ Gate(gate, TRUE) = "supported"
       /\ Collect(Entrance(whole), "ok", next, {}, {}, {})

(* The base connection belongs to a replica set, or to a mongos with a       *)
(* connection to each shard still to be opened.                              *)
Enter(what) == {<<IF Sharded THEN "connect" ELSE what, s>> : s \in Sets}

-----------------------------------------------------------------------------
(* Two ways to find what to ask, each used by two capabilities. *)

(* The collections in scope, unless there are too few or too many. *)
Selected == Databases \X Collections
TheCollections == <<"collections", "cluster">>

ListCollections(least, next) ==
    \/ \E a \in Answers : Abort(TheCollections, a)
    \/ /\ Cardinality(Selected) \notin least .. call.of.most
       /\ Hear(TheCollections, "ok") /\ Return("none", "plain")
       /\ todo' = {} /\ UNCHANGED <<statuses, errs, kept, stopped>>
    \/ /\ Cardinality(Selected) \in least .. call.of.most
       /\ Collect(TheCollections, "ok", next, {}, {}, {})

(* The healthy nodes that hold data, one shard after another.  A shard that  *)
(* cannot be connected to is an error without a status.  (The shards of a    *)
(* cluster have been listed before: by Detect, or by IndexAuditShards.)      *)
Discovery == {<<"targets", s>> : s \in Sets}
Targets == {k[3] : k \in Of("target")}

DiscoverTargets(s) ==
    LET j == <<"targets", s>> IN
    \/ \E a \in Answers \ {"ok"} : Sharded /\ Collect(j, a, {}, {}, {<<j, a>>}, {})
    \/ \E a \in Answers :
          Record("hotspot_targets", j, a, {}, {},
                 {<<"target", s, m>> : m \in {n \in Members(s) : HoldsData(n)}})

DiscoveryBreak == Sharded /\ BreakOff(todo \cap Discovery, TheShards)
================================================================================
