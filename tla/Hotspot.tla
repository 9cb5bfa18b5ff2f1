--------------------------------- MODULE Hotspot ---------------------------------
(***************************************************************************)
(* Hotspot (src/pkg/mot/hotspot.go): the data nodes, a reading of each, a  *)
(* wait, another reading of each, and the rates between the two.  A server *)
(* may restart at any time: a reading carries the life it belongs to, which*)
(* the code cannot see.                                                    *)
(***************************************************************************)
EXTENDS Collectors

CONSTANTS
    Readings, \* [life, uptime, reported, counters, queued, used]: reported if the
              \* uptime is, too; counters and used (by namespace) are functions on
              \* what is reported
    Window,   \* the least time between two readings of a node
    TopN      \* namespaces in the result

ASSUME HotspotAssumption ==
    /\ Window \in Nat
    /\ \A x \in Readings : /\ x.life \in Nat /\ x.uptime \in Nat
                           /\ \A n \in DOMAIN x.counters : x.counters[n] \in Nat

Round(r) == <<"round", r>>
ReadJobs(r) == {<<"read", r, m>> : m \in Targets}
Read(r, m) == {k[4] : k \in {h \in Of("reading") : h[2] = r /\ h[3] = m}}
ReadNodes(r) == {m \in Targets : Read(r, m) # {}}

HotspotDetect ==
    /\ Running("hotspot")
    /\ Detect(TRUE, "hotspot_snapshot", Discovery \cup {Round(1)})

(* The first round follows when there is a node to read, the second when one *)
(* has been read and the wait is over.                                       *)
HotspotFirst ==
    GoOn(Round(1), Discovery, When(Targets # {}, ReadJobs(1) \cup {Round(2)}), {})
HotspotSecond ==
    GoOn(Round(2), ReadJobs(1), When(ReadNodes(1) # {}, ReadJobs(2)), {})

(* The wait is cut short: what the first round has collected is returned,    *)
(* without its errors.                                                       *)
HotspotCancelledWait ==
    /\ stopped /\ todo = {Round(2)} /\ ReadNodes(1) # {}
    /\ todo' = {} /\ errs' = {<<Round(2), "refused">>}
    /\ Return("result", "partial")
    /\ UNCHANGED <<heard, statuses, kept, stopped, faults>>

(* The counters of one life only grow; a new life is younger than the time   *)
(* since the first reading.                                                  *)
Follows(x, y) ==
    IF x.life = y.life
    THEN /\ x.uptime <= y.uptime
         /\ \A n \in DOMAIN x.counters \cap DOMAIN y.counters : x.counters[n] <= y.counters[n]
    ELSE x.life < y.life /\ y.uptime <= Window

(* A node is asked for its status and its namespaces, and the two errors are *)
(* judged as one: by the first that carries a code, or by the words of both. *)
Joined(a, b) ==
    IF a = "ok" THEN {b}
    ELSE IF b = "ok" \/ a = "unsupported" \/ (a = "unauthorized" /\ b = "failed") THEN {a}
    ELSE {a, b}
JoinedAnswers == UNION {Joined(a, b) : a, b \in Answers \ {"refused"}}
ReadSoFar(r, m) == UNION {Read(q, m) : q \in 1 .. r}

HotspotRead(r, m) ==
    LET j == <<"read", r, m>> IN
    \/ \E a \in Answers \ {"ok"} : RecordIfAsked("hotspot_snapshot", j, a, {}, {}, {})
    \/ \E a \in JoinedAnswers, y \in Readings :
          /\ \A x \in ReadSoFar(r, m) : Follows(x, y)
          /\ Record("hotspot_snapshot", j, a, Excusable, {}, {<<"reading", r, m, y>>})

HotspotUndispatched(r) == BreakOff(todo \cap ReadJobs(r), Round(r))

-----------------------------------------------------------------------------
(* calculateHotspot *)

Both == ReadNodes(1) \cap ReadNodes(2)
First(m) == CHOOSE x \in Read(1, m) : TRUE
Second(m) == CHOOSE x \in Read(2, m) : TRUE

Fell(f, g) == \E n \in DOMAIN f \cap DOMAIN g : g[n] < f[n]
(* Mutant: the uptime is not looked at. *)
CountersFell(x, y) == Fell(x.counters, y.counters)

CounterReset(x, y) ==
    \/ x.reported /\ y.reported /\ y.uptime < x.uptime
    \/ Fell(x.counters, y.counters)

Rated == {m \in Both : ~CounterReset(First(m), Second(m))}
Delta(m, n) ==
    IF n \in DOMAIN First(m).counters \cap DOMAIN Second(m).counters
    THEN Second(m).counters[n] - First(m).counters[n] ELSE 0

(* A namespace that was not there before counts from zero. *)
Use(m, n) ==
    Second(m).used[n] - IF n \in DOMAIN First(m).used THEN First(m).used[n] ELSE 0
Namespaces == UNION {{<<m, n>> : n \in DOMAIN Second(m).used} : m \in Rated}
Uses == {u \in Namespaces : Use(u[1], u[2]) > 0}
Busier(u) == {v \in Uses : Use(v[1], v[2]) > Use(u[1], u[2])}
HotNamespaces == {u \in Uses : Cardinality(Busier(u)) < TopN}

HotspotFindings ==
    (UNION {Warning("counter_reset", <<"node", m>>, m \notin Rated) : m \in Both})
    \cup (UNION {Critical("rejected_during_sample", <<"node", m>>, Delta(m, "rejected") > 0)
                \cup Warning("queue_sustained", <<"node", m>>,
                             First(m).queued > 0 /\ Second(m).queued > 0)
                \cup Warning("eviction_pressure", <<"node", m>>,
                             Delta(m, "evicted") > 0 /\ Delta(m, "latency") > 0)
                \cup (UNION {Info("namespace_counter_reset", <<"namespace", m, n>>,
                                 Second(m).used[n] < First(m).used[n])
                              : n \in DOMAIN First(m).used \cap DOMAIN Second(m).used})
                  : m \in Rated})
    \cup (UNION {Info("hot_namespace", <<"namespace", u[1], u[2]>>, TRUE) : u \in HotNamespaces})

NodeStatus(m) ==
    [name |-> "hotspot", of |-> <<"node", m>>,
     state |-> IF m \in Rated THEN "supported" ELSE "failed"]

(* What is returned where nothing was found, or nothing read, is not partial,*)
(* and in the second case leaves out the errors of the discovery.            *)
Discovering(e) == e[1] \in Discovery \cup {TheShards}
Reported ==
    {e \in errs : ReadNodes(1) = {} /\ Targets # {} => ~Discovering(e)}

HotspotReturn ==
    /\ Running("hotspot") /\ todo = {}
    /\ statuses' = statuses \cup {NodeStatus(m) : m \in ReadNodes(1)}
    /\ Return("result", IF Reported = {} THEN "none"
                        ELSE IF ReadNodes(1) = {} THEN "plain" ELSE "partial")
    /\ UNCHANGED <<todo, heard, errs, kept, stopped, faults>>

HotspotNext ==
    \/ HotspotDetect
    \/ /\ Running("hotspot")
       /\ \/ HotspotFirst \/ HotspotSecond \/ HotspotCancelledWait \/ DiscoveryBreak
          \/ \E s \in Sets : DiscoverTargets(s)
          \/ \E r \in {1, 2} :
                \/ HotspotUndispatched(r)
                \/ \E m \in Targets : HotspotRead(r, m)
    \/ HotspotReturn
================================================================================
