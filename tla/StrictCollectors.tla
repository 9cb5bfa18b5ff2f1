---------------------------- MODULE StrictCollectors ----------------------------
(***************************************************************************)
(* The capabilities that return everything or nothing: Overview            *)
(* (overview.go) and CollectionStats (coll_stats.go); and                  *)
(* CurrentOperations (operations.go), which asks one server one question,  *)
(* in up to four ways.                                                     *)
(***************************************************************************)
EXTENDS Collectors

ErrorOf(j, a) == When(a # "ok", {<<j, a>>})

(* A failure ends the call as soon as nothing that was handed out is left;   *)
(* what a sequential loop has not reached yet is never asked.                *)
GiveUp(what) ==
    /\ errs # {} /\ OneByOne(what)
    /\ Return("none", "plain")
    /\ todo' = {}
    /\ UNCHANGED <<heard, statuses, errs, kept, stopped, faults>>

-----------------------------------------------------------------------------
(* Overview.  A session asks the shards together, a client of its own (its   *)
(* session is "legacy") one after another.                                   *)

OverviewDetect == Running("overview") /\ Detect(TRUE, "none", Enter("status"))

OverviewConnect(s) ==
    \E a \in Answers :
        /\ call.of.legacy => OneByOne("connect") /\ errs = {}
        /\ Collect(<<"connect", s>>, a, When(a = "ok", {<<"status", s>>}),
                   {}, ErrorOf(<<"connect", s>>, a), {})

DataNodes(s) == {m \in Members(s) : Role(m) # "ARBITER"}

OverviewStatus(s) ==
    \E a \in Answers :
        Collect(<<"status", s>>, a,
                When(a = "ok", {<<"dial", s, m>> : m \in DataNodes(s)}), {},
                ErrorOf(<<"status", s>>, a),
                When(a = "ok", {<<"member", s, m>> : m \in Members(s)}))

(* A node that cannot be reached is listed without details, unless the       *)
(* context is the reason.                                                    *)
OverviewDial(s, m) ==
    LET j == <<"dial", s, m>> IN
    \E a \in Answers :
        Collect(j, a, When(a = "ok", {<<"node", s, m>>}), {},
                When(a = "refused", {<<j, a>>}), {})

OverviewNode(s, m) ==
    LET j == <<"node", s, m>> IN
    \E a \in Answers :
        Collect(j, a, {}, {}, ErrorOf(j, a), When(a = "ok", {<<"details", s, m>>}))

(* The nodes of a replica set are one errgroup with a context of its own:    *)
(* the first error ends it for the others.                                   *)
OverviewGroupCancelled(s) ==
    LET group == {j \in todo : j[1] \in {"dial", "node"} /\ j[2] = s} IN
    /\ group # {} /\ \E e \in errs : e[1][1] \in {"dial", "node"} /\ e[1][2] = s
    /\ todo' = todo \ group
    /\ UNCHANGED <<call, heard, statuses, errs, kept, stopped, faults>>

OverviewNext ==
    \/ OverviewDetect
    \/ /\ Running("overview")
       /\ \/ \E s \in Sets :
                \/ OverviewConnect(s) \/ OverviewStatus(s) \/ OverviewGroupCancelled(s)
                \/ \E m \in Members(s) : OverviewDial(s, m) \/ OverviewNode(s, m)
          \/ call.of.legacy /\ GiveUp("connect")
          \/ errs # {} /\ Finish("none", "plain")
          \/ errs = {} /\ Finish("result", "none")

-----------------------------------------------------------------------------
(* CollectionStats: one database after another; the collections of one       *)
(* together, and all of them to the end; then the database itself.           *)

TheDatabases == <<"databases", "cluster">>

CollStatsBegin ==
    /\ Running("collstats") /\ heard = {}
    /\ IF call.of.shardedOnly
       THEN Detect(FALSE, "none", IF Sharded THEN {TheDatabases} ELSE {})
       ELSE /\ todo' = {TheDatabases} /\ TheTopology \in todo
            /\ UNCHANGED <<call, heard, statuses, errs, kept, stopped, faults>>

CollStatsDatabases ==
    \/ \E a \in Answers : Abort(TheDatabases, a)
    \/ Collect(TheDatabases, "ok", {<<"collections", d>> : d \in Databases}, {}, {}, {})

Stats(d) == {<<"stats", d, c>> : c \in Collections}

CollStatsCollections(d) ==
    /\ OneByOne("collections") /\ errs = {}
    /\ \/ \E a \in Answers : Abort(<<"collections", d>>, a)
       \/ Collect(<<"collections", d>>, "ok",
                  Stats(d) \cup When(Collections = {}, {<<"dbstats", d>>}), {}, {}, {})

CollStatsOne(d, c) ==
    LET j == <<"stats", d, c>> IN
    \E a \in Answers :
        Collect(j, a,
                IF a = "ok" /\ errs = {}
                THEN AfterLast(j, Stats(d), {<<"dbstats", d>>}) ELSE {},
                {}, ErrorOf(j, a), When(a = "ok", {j}))

CollStatsDatabase(d) ==
    LET j == <<"dbstats", d>> IN
    \/ \E a \in Answers : Abort(j, a)
    \/ Collect(j, "ok", {}, {}, {}, {j})

CollStatsNext ==
    \/ CollStatsBegin
    \/ /\ Running("collstats")
       /\ \/ CollStatsDatabases
          \/ \E d \in Databases :
                \/ CollStatsCollections(d) \/ CollStatsDatabase(d)
                \/ \E c \in Collections : CollStatsOne(d, c)
          \/ GiveUp("collections")
          \/ /\ errs = {}
             /\ IF call.of.shardedOnly /\ ~Sharded
                THEN Finish("none", "plain") ELSE Finish("result", "none")

-----------------------------------------------------------------------------
(* CurrentOperations: the aggregation, or the old command where the server   *)
(* is too old or does not know it; about all users, and without the          *)
(* privilege about one's own.                                                *)

Ask(who) == {<<IF Wire < 6 THEN "command" ELSE "aggregation", who>>}

OperationsDetect ==
    /\ Running("operations")
    /\ Detect(TRUE, "current_operations", Ask(IF call.of.allUsers THEN "all" ELSE "own"))

(* Mutant: what was asked for is what is reported. *)
VisibilityAsked(who) == IF call.of.allUsers THEN "all_users" ELSE "current_user"

Visibility(who) == IF who = "all" THEN "all_users" ELSE "current_user"

(* One slot serves all the ways: only the first can be refused. *)
FirstAsked == ~\E h \in heard : h[1][1] \in {"aggregation", "command"}

OperationsAsk(way, who) ==
    LET j == <<way, who>>
        again == {<<"unsupported", "aggregation", w>> : w \in {"all", "own"}}
                 \cup {<<"unauthorized", w, "all">> : w \in {"aggregation", "command"}} IN
    \/ FirstAsked /\ Abort(j, "refused")
    \/ \E a \in Excusable :
          /\ <<a, way, who>> \in again
          /\ Collect(j, a, IF a = "unsupported" THEN {<<"command", who>>} ELSE Ask("own"),
                     {}, {}, {})
    \/ \E a \in Answers :
          /\ <<a, way, who>> \notin again /\ (FirstAsked => a # "refused")
          /\ Record("current_operations", j, a, {"unauthorized"}, {},
                    {<<"operations", Visibility(who)>>})

OperationsNext ==
    \/ OperationsDetect
    \/ /\ Running("operations")
       /\ \/ \E way \in {"aggregation", "command"}, who \in {"all", "own"} :
                OperationsAsk(way, who)
          \/ errs = {} /\ Finish("result", "none")
          \/ errs # {} /\ Finish("result", "plain")
================================================================================
