------------------------------- MODULE Diagnostics -------------------------------
(***************************************************************************)
(* One call of any of the read-only capabilities, on any deployment, with  *)
(* servers that fail or refuse and a context that may end at any time.     *)
(***************************************************************************)
EXTENDS StrictCollectors, Slowlog, Doctor, Capacity, Hotspot, IndexAudit

Returned == call.at = "returned"

Next ==
    \/ \E c \in Calls : Begin(c)
    \/ Stop
    \/ OverviewNext \/ CollStatsNext \/ OperationsNext
    \/ SlowlogNext \/ DoctorNext \/ CapacityNext \/ HotspotNext \/ IndexAuditNext
    \/ Returned /\ UNCHANGED vars

Spec == Init /\ [][Next]_vars

-----------------------------------------------------------------------------
Asked(j) == \E h \in heard : h[1] = j
Ok(j) == <<j, "ok">> \in heard
Failures == {h \in heard : h[2] \in {"failed", "refused"}}

States == {"supported", "unauthorized", "unsupported", "skipped", "failed"}

(* The variables have their types, and a call that has returned is over: with *)
(* a result where its error is partial, and an error where it has no result.  *)
DiagnosticsTypeOK ==
    /\ call.at \in {"idle", "running", "returned"}
    /\ call.at # "idle" => /\ call.of.name \in {c.name : c \in Calls} /\ call.on \in Deployments
                           /\ call.res \in {"none", "result"}
                           /\ call.err \in {"none", "partial", "plain"}
    /\ Returned => /\ todo = {}
                   /\ call.res = "none" => call.err = "plain"
    /\ \A h \in heard : h[2] \in {"ok", "none", "failed", "refused"} \cup Excusable
    /\ \A x \in statuses : x.state \in States
    /\ stopped \in BOOLEAN /\ faults \in Nat

(* No failure is lost: a call that met one returns an error.  What overview.go *)
(* (:246-252) hides, a node that cannot be dialled, and what hotspot.go (:126) *)
(* drops, the discovery when no node could be read, are left out.              *)
Hidden(h) ==
    \/ Cap = "overview" /\ h[1][1] = "dial"
    \/ Cap = "hotspot" /\ h[1][1] = "targets" /\ ReadNodes(1) = {}
NothingLost ==
    Returned => \A h \in Failures : Hidden(h) \/ call.err # "none"

(* What a capability that tolerates failures has to ask, given the answers.    *)
Passed == Cap \in {"overview", "collstats"} \/ Wire >= 5
Reached == {s \in Sets : ~Sharded \/ Ok(<<"connect", s>>)}
Unlisted == Sharded /\ ~Ok(TheShardList) /\ call.err # "none"
Expected ==
    CASE Cap = "overview" ->
            {<<"status", s>> : s \in Sets}
            \cup UNION {{<<"dial", s, m>> : m \in DataNodes(s)} : s \in Sets}
      [] Cap = "collstats" ->
            UNION {Stats(d) \cup {<<"dbstats", d>>} : d \in Databases}
      [] Cap = "slowlog" ->
            {<<"inventory", s>> : s \in Reached}
            \cup UNION {Profiles(s) : s \in {t \in Sets : Ok(<<"names", t>>)}}
      [] Cap = "doctor" ->
            {<<"status", s>> : s \in Reached}
            \cup UNION {{<<"names", s>>} \cup Oplog(s)
                        \cup {<<"node", s, m>> : m \in {n \in Members(s) : Role(n) # "ARBITER"}}
                        \cup When(Ok(<<"names", s>>), DiskJobs(s))
                          : s \in {t \in Sets : Ok(<<"status", t>>)}}
      [] Cap = "capacity" ->
            {<<"capacity", r[1], r[2]>> : r \in Selected} \cup DatabaseJobs
            \cup {<<"detail", r[1], r[2], s>> : s \in ShardPrimaries,
                      r \in {q \in Selected : Ok(<<"capacity", q[1], q[2]>>)}}
      [] Cap = "hotspot" ->
            Discovery \cup ReadJobs(1) \cup When(ReadNodes(1) # {}, ReadJobs(2))
      [] Cap = "indexaudit" /\ General ->
            When(Sharded, {TheShardList}) \cup When(~Unlisted, Discovery)
            \cup {<<"size", r[1], r[2]>> : r \in Selected}
            \cup {<<"stats", r[1], r[2], m>> : r \in Selected, m \in Targets}
      [] OTHER -> {}

(* One failure does not keep the others from being asked (goals/01, rule 5 on  *)
(* partial results), except for those that only its answer would have named:   *)
(* the nodes of IndexAudit where the shards cannot be listed (hotspot.go:173), *)
(* and then there is an error.  A result without an error is complete: only    *)
(* the end of the context leaves more out, and again there is an error.        *)
Covered ==
    /\ Returned /\ Passed /\ call.res = "result" /\ (call.err = "none" \/ ~stopped)
    /\ ~(Cap = "slowlog" /\ call.of.detail)
    => \A j \in Expected : Asked(j)

(* operations.go never calls one's own operations those of all users           *)
(* (goals/03), whichever of its four questions is the one answered; and it     *)
(* settles for less only where all users were denied.                          *)
VisibilityHonest ==
    Returned /\ Cap = "operations" /\ Of("operations") # {} =>
        \E who \in {"all", "own"} :
            /\ Of("operations") =
                   {<<"operations", IF who = "all" THEN "all_users" ELSE "current_user">>}
            /\ \E way \in {"aggregation", "command"} : Ok(<<way, who>>)
            /\ who = "own" /\ call.of.allUsers =>
                   \E way \in {"aggregation", "command"} :
                       <<<<way, "all">>, "unauthorized">> \in heard

(* hotspot.go computes no rate across a restart (goals/03, node.counter_reset) *)
(* unless the uptime does not show it: it is not reported both times, or the   *)
(* life before was not longer than the window; and none is negative.           *)
NoRateAcrossRestart ==
    Returned /\ Cap = "hotspot" =>
        \A m \in Rated :
            /\ \/ First(m).life = Second(m).life \/ First(m).uptime <= Window
               \/ ~(First(m).reported /\ Second(m).reported)
            /\ \A n \in DOMAIN Second(m).counters : Delta(m, n) >= 0

(* index_audit.go calls an index unused only with the word of every reachable  *)
(* node that holds data, on a replica set, and never while it is built.  Nodes *)
(* that are down are left to UnreachableIsInconclusive.                        *)
UnusedIsEarned ==
    Returned /\ Cap = "indexaudit" /\ call.res = "result" =>
        \A f \in {g \in IndexAuditFindings : g.code = "unused_candidate"} :
            LET d == f.of[2] c == f.of[3] i == f.of[4] IN
            /\ ~Sharded
            /\ \A s \in Sets : \A m \in Members(s) : HoldsData(m) =>
                  \E k \in kept : /\ k[1] = "observed" /\ <<k[2], k[3], k[4]>> = <<d, c, m>>
                                  /\ i \in DOMAIN k[5] /\ k[5][i].ops = 0 /\ k[5][i].old
            /\ <<"building", d, c, i>> \notin kept

(* goals/04:86: where some nodes cannot be reached an index is not judged to   *)
(* be unused.  (index_audit.go:434 wants the word of the targets only, among   *)
(* which hotspot.go:162 does not count a node that is down.)                   *)
UnreachableIsInconclusive ==
    /\ Returned /\ Cap = "indexaudit" /\ call.res = "result"
    /\ \E s \in Sets : \E m \in Members(s) : Role(m) = "DOWN"
    => \A f \in IndexAuditFindings : f.code # "unused_candidate"

(* DiffCapacity calls a collection removed that the later snapshot lacks.      *)
(* Here all exist: where a snapshot lacks one, it came with an error or with a *)
(* status that says that the collection could not be read.                     *)
RemovedIsExplained ==
    Returned /\ Cap = "capacity" /\ call.res = "result" /\ Wire >= 5 =>
        LET lifecycle == DiffCapacity(Selected, Snapshot) IN
        \A r \in Selected : lifecycle[r] = "removed" =>
            \/ call.err # "none"
            \/ \E x \in statuses : /\ x.of = <<"capacity", r[1], r[2]>>
                                   /\ x.state \in Excusable

(* goals/01: at least one collector succeeded and another failed, then the     *)
(* error is a partial one.                                                     *)
PartialResultKept ==
    /\ Returned /\ Cap \in {"slowlog", "doctor", "capacity", "indexaudit"}
    /\ call.res = "result" /\ call.err # "none" /\ ~stopped
    /\ \E x \in statuses : x.state = "supported"
    => call.err = "partial"
================================================================================
