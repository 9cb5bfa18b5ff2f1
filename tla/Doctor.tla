---------------------------------- MODULE Doctor ----------------------------------
(***************************************************************************)
(* Doctor (src/pkg/mot/doctor.go): the status of every replica set, then   *)
(* the status of every data node, then the file system under every         *)
(* database and, if asked for, the oplog; and what all of it says.  The    *)
(* findings of a set are drawn from whatever was read.                     *)
(*                                                                         *)
(* Times are small numbers, 0 where a server does not report one.          *)
(***************************************************************************)
EXTENDS Collectors

CONSTANTS
    Views,       \* replSetGetStatus: [applied, elected, silent, troubled, majority]
    NodeSamples, \* serverStatus: [uptime (minutes), reported, used, free, cache, evicted, queued]
    DiskSamples, \* dbStats: percent of the file system in use
    Windows,     \* length of the oplog
    LagWarning, LagCritical

ASSUME DoctorAssumption ==
    LagWarning \in Nat \ {0} /\ LagCritical \in Nat /\ LagWarning < LagCritical

NodeJobs(s) == {<<"node", s, m>> : m \in Members(s)}
DiskJobs(s) == {<<"dbstats", s, d>> : d \in Databases}

DoctorDetect ==
    /\ Running("doctor")
    /\ Detect(TRUE, "replica_status", Enter("status"))

DoctorConnect(s) ==
    \E a \in Answers :
        /\ call.of.legacy => OneByOne("connect")
        /\ RecordIfAsked("replica_status", <<"connect", s>>, a, {}, {<<"status", s>>}, {})

DoctorBreak ==
    /\ Running("doctor") /\ call.of.legacy /\ OneByOne("connect")
    /\ BreakOff(todo, TheShards)

DoctorStatus(s) ==
    \E a \in Answers, v \in Views :
        RecordIfAsked("replica_status", <<"status", s>>, a, Excusable,
            {<<"node", s, m>> : m \in {n \in Members(s) : Role(n) # "ARBITER"}}
                \cup {<<"evaluate", s>>},
            {<<"view", s, v>>})

(* A node: an old server that cannot be connected to is an error, one that   *)
(* cannot be asked is not.                                                   *)
DoctorNodeConnect(s, m) ==
    LET j == <<"node", s, m>> IN
    \E a \in Answers \ {"ok"} : RecordIfAsked("server_status", j, a, {"unauthorized"}, {}, {})

DoctorNode(s, m) ==
    LET j == <<"node", s, m>> IN
    \E a \in Answers \ {"refused"}, x \in NodeSamples :
        Record("server_status", j, a, Excusable, {}, {<<"sample", s, m, x>>})

DoctorUndispatched(s) == BreakOff(todo \cap NodeJobs(s), <<"nodes", s>>)

(* Mutant: a node that failed ends the diagnosis of its set. *)
DoctorEvaluateUnlessFailed(s) ==
    LET j == <<"evaluate", s>>
        failed == \E e \in errs : e[1] \in NodeJobs(s) IN
    \/ stopped /\ GoOn(j, NodeJobs(s), {}, {<<j, "refused">>})
    \/ ~stopped /\ GoOn(j, NodeJobs(s), When(~failed, {<<"names", s>>}), {})

(* The nodes are done; nothing more is asked once the context has ended. *)
DoctorEvaluate(s) ==
    LET j == <<"evaluate", s>> IN
    \/ stopped /\ GoOn(j, NodeJobs(s), {}, {<<j, "refused">>})
    \/ ~stopped /\ GoOn(j, NodeJobs(s), {<<"names", s>>}, {})

Oplog(s) == When(call.of.oplog, {<<"oplog", s>>})

DoctorNames(s) ==
    LET j == <<"names", s>> IN
    \/ \E a \in Answers \ {"ok"} :
          Collect(j, a, Oplog(s), {Status("database_stats", j, a)},
                  IF a = "unauthorized" THEN {} ELSE {<<j, a>>}, {})
    \/ Collect(j, "ok", DiskJobs(s) \cup {<<"disk", s>>}, {}, {}, {})

(* The databases one after another; the loop ends where there is no slot. *)
DoctorDatabase(s, d) ==
    LET j == <<"dbstats", s, d>> IN
    \/ \E a \in Answers \ {"refused"}, used \in DiskSamples :
          Record("database_stats", j, a, Excusable, {}, {<<"used", s, d, used>>})
    \/ j \in todo /\ BreakOff(todo \cap DiskJobs(s), <<"databases", s>>)

DoctorDisk(s) == GoOn(<<"disk", s>>, DiskJobs(s), Oplog(s), {})

(* An oplog that has no entry counts as unsupported; an unsupported query as *)
(* a failure.                                                                *)
DoctorOplog(s) ==
    LET j == <<"oplog", s>> IN
    \/ \E a \in Answers, w \in Windows :
          RecordIfAsked("oplog_window", j, a, {"unauthorized"}, {}, {<<"window", s, w>>})
    \/ \E a \in OrNone : Collect(j, a, {}, {Status("oplog_window", j, "unsupported")}, {}, {})

-----------------------------------------------------------------------------
(* The findings of a set, its members, its nodes and its disks. *)

Healthy(m) == Role(m) # "DOWN"
Primaries(s) == {m \in Members(s) : Role(m) = "PRIMARY"}

MemberFindings(v, m) ==
    Warning("recent_election", <<"node", m>>, Role(m) = "PRIMARY" /\ m \in v.elected)
    \cup Info("arbiter_present", <<"node", m>>, Role(m) = "ARBITER")
    \cup Warning("member_recovering", <<"node", m>>, Role(m) = "RECOVERING")
    \cup Critical("member_unhealthy", <<"node", m>>, ~Healthy(m))
    \cup Warning("heartbeat_error", <<"node", m>>, m \in v.troubled /\ Healthy(m))
    \cup Warning("heartbeat_stale", <<"node", m>>, m \in v.silent /\ Healthy(m))

Behind(lead, v, m) ==
    IF lead = 0 \/ v.applied[m] = 0 \/ lead < v.applied[m] THEN 0 ELSE lead - v.applied[m]

(* Measured against the last primary listed, if there are two. *)
LagFindings(s, v, m) ==
    LET lead == IF Primaries(s) = {} THEN 0 ELSE v.applied[LastOf(Primaries(s))]
        lag == Behind(lead, v, m) IN
    IF Role(m) # "SECONDARY" THEN {}
    ELSE Critical("lag_critical", <<"node", m>>, lag >= LagCritical)
         \cup Warning("lag_high", <<"node", m>>, lag >= LagWarning /\ lag < LagCritical)

(* An oplog that is read is compared with the first primary listed. *)
WindowFindings(s, v, m, w) ==
    LET lead == IF Primaries(s) = {} THEN 0 ELSE v.applied[FirstOf(Primaries(s))]
        lag == Behind(lead, v, m) IN
    IF Role(m) # "SECONDARY" \/ w = 0 \/ lag = 0 THEN {}
    ELSE Critical("lag_exceeds_oplog_window", <<"node", m>>, lag >= w)
         \cup Warning("lag_near_oplog_window", <<"node", m>>, lag < w /\ lag * 10 >= w * 8)

Required(s, v) ==
    IF v.majority > 0 THEN v.majority ELSE (Cardinality(Members(s)) \div 2) + 1

SetFindings(s, v) ==
    LET data == {m \in Members(s) : HoldsData(m)} IN
    Critical("primary_missing", <<"set", s>>, Primaries(s) = {})
    \cup Critical("majority_unavailable", <<"set", s>>, Cardinality(data) < Required(s, v))

NodeFindings(m, x) ==
    Info("recent_restart", <<"node", m>>, x.reported /\ x.uptime < 60)
    \cup Critical("headroom_critical", <<"node", m>>,
                  x.used + x.free > 0 /\ 100 * x.free < 5 * (x.used + x.free))
    \cup Warning("headroom_low", <<"node", m>>,
                 /\ x.used + x.free > 0 /\ 100 * x.free >= 5 * (x.used + x.free)
                 /\ 100 * x.free < 10 * (x.used + x.free))
    \cup Info("cache_pressure", <<"node", m>>, x.cache >= 90 /\ x.evicted > 0 /\ x.queued > 0)

DiskFindings(s, used) ==
    Critical("fs_headroom_critical", <<"set", s>>, \E u \in used : u >= 95)
    \cup Warning("fs_headroom_low", <<"set", s>>,
                 (\E u \in used : u >= 85) /\ \A u \in used : u < 95)

DoctorFindings ==
    (UNION {SetFindings(k[2], k[3]) : k \in Of("view")})
    \cup (UNION {UNION {MemberFindings(k[3], m) \cup LagFindings(k[2], k[3], m)
                           : m \in Members(k[2])} : k \in Of("view")})
    \cup (UNION {NodeFindings(k[3], k[4]) : k \in Of("sample")})
    \cup (UNION {DiskFindings(s, {k[4] : k \in {u \in Of("used") : u[2] = s}}) : s \in Sets})
    \cup (UNION {UNION {WindowFindings(k[2], k[3], m, w[3])
                           : m \in Members(k[2]), w \in {u \in Of("window") : u[2] = k[2]}}
                   : k \in Of("view")})

Severities(minimum) ==
    CASE minimum = "critical" -> {"critical"} [] minimum = "warning" -> {"critical", "warning"}
      [] OTHER -> {"critical", "warning", "info"}
Filtered(findings) == {f \in findings : f.severity \in Severities(call.of.minimum)}

(* A set counts as successful where nothing of it failed, even where its     *)
(* status may not be read.                                                   *)
Successful(s) ==
    /\ \E h \in heard : h[1] = <<"status", s>>
    /\ ~\E e \in errs : e[1][2] = s

DoctorReturn ==
    /\ Running("doctor")
    /\ \/ errs = {} /\ Finish("result", "none")
       \/ /\ errs # {}
          /\ Finish("result",
                    IF (\E s \in Sets : Successful(s)) \/ Filtered(DoctorFindings) # {}
                    THEN "partial" ELSE "plain")

DoctorNext ==
    \/ DoctorDetect
    \/ DoctorBreak
    \/ /\ Running("doctor")
       /\ \E s \in Sets :
             \/ DoctorConnect(s) \/ DoctorStatus(s)
             \/ DoctorUndispatched(s) \/ DoctorEvaluate(s)
             \/ DoctorNames(s) \/ DoctorDisk(s) \/ DoctorOplog(s)
             \/ \E m \in Members(s) : DoctorNodeConnect(s, m) \/ DoctorNode(s, m)
             \/ \E d \in Databases : DoctorDatabase(s, d)
    \/ DoctorReturn
================================================================================
