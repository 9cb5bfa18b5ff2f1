--------------------------------- MODULE Slowlog ---------------------------------
(***************************************************************************)
(* SlowlogSummary and SlowlogDetail (src/pkg/mot/slowlog.go, session.go):  *)
(* the profiler's records of every database of every data node, and one    *)
(* record of a node that has it.  One query is followed: a summary is kept *)
(* where the node lists it.                                                *)
(***************************************************************************)
EXTENDS Collectors

ReplicaSetOf(s) == <<"replica set", s>>
Listed == Of("summary")

SlowlogDetect ==
    /\ Running("slowlog")
    /\ Detect(TRUE, "slowlog_insight", Enter("inventory"))

(* A shard that was reached is in the result, whatever it answers then. *)
SlowlogConnect(s) ==
    \E a \in Answers :
        /\ call.of.legacy => OneByOne("connect")
        /\ RecordIfAsked("slowlog_insight", <<"connect", s>>, a, {},
                         {<<"inventory", s>>}, {ReplicaSetOf(s)})

SlowlogBreak ==
    /\ Running("slowlog") /\ call.of.legacy /\ OneByOne("connect")
    /\ BreakOff(todo, TheShards)

SlowlogInventory(s) ==
    LET j == <<"inventory", s>> IN
    \E a \in Answers : Record("slowlog_insight", j, a, Excusable, {<<"names", s>>}, {})

(* Then every database of every member that holds data. *)
Profiles(s) ==
    {<<"profile", s, m, d>> : m \in {n \in Members(s) : HoldsData(n)}, d \in Databases}

SlowlogNames(s) ==
    LET j == <<"names", s>> IN
    \E a \in Answers : Record("slowlog_insight", j, a, {"unauthorized"}, Profiles(s), {})

(* The members together, but for a client of its own one after another. *)
Turn(s, m) == call.of.legacy => \A j \in todo : j[1] = "profile" => j[3] >= m

SlowlogProfile(s, m, d) ==
    LET j == <<"profile", s, m, d>> IN
    \E a \in Answers \cup OrNone :
        /\ Turn(s, m)
        /\ Record("slowlog_insight", j, a, Excusable, {}, {<<"summary", s, m, d>>})

SlowlogUndispatched(s, m) ==
    /\ Turn(s, m)
    /\ BreakOff({j \in todo : j[1] = "profile" /\ j[2] = s /\ j[3] = m}, <<"profiles", s, m>>)

SlowlogReturn ==
    /\ Running("slowlog") /\ ~call.of.detail
    /\ \/ errs = {} /\ Finish("result", "none")
       \/ /\ errs # {}
          /\ Finish("result", IF Sharded /\ ~\E k \in kept : k[1] = "replica set"
                              THEN "plain" ELSE "partial")

-----------------------------------------------------------------------------
(* SlowlogDetail asks for a summary of its own and gives up where that has   *)
(* an error, the partial one included.  A session that has made a summary    *)
(* remembers where each query was listed and goes there at once.             *)

Document(s, m) == <<"document", s, m>>

DetailLocate ==
    /\ Running("slowlog") /\ call.of.detail /\ todo = {}
    /\ ~\E h \in heard : h[1][1] = "document"
    /\ \/ /\ errs # {} \/ Listed = {}
          /\ Finish("none", "plain")
       \/ /\ errs = {}
          /\ \E k \in Listed : todo' = {Document(k[2], k[3])}
          /\ UNCHANGED <<call, heard, statuses, errs, kept, stopped, faults>>

DetailAgain ==
    /\ call.at = "returned" /\ call.of.name = "slowlog" /\ ~call.of.detail
    /\ ~call.of.legacy /\ call.res = "result"
    /\ \E k \in Listed : todo' = {Document(k[2], k[3])}
    /\ call' = [call EXCEPT !.at = "running", !.of.detail = TRUE,
                            !.res = "none", !.err = "none"]
    /\ statuses' = {} /\ errs' = {} /\ heard' = {} /\ stopped' = FALSE
    /\ UNCHANGED <<kept, faults>>

DetailRead(s, m) ==
    LET j == Document(s, m) IN
    \/ \E a \in Answers \cup OrNone : Abort(j, a)
    \/ Collect(j, "ok", {}, {}, {}, {j})

DetailReturn ==
    /\ Running("slowlog") /\ call.of.detail
    /\ \E k \in kept : k[1] = "document"
    /\ Finish("result", "none")

SlowlogNext ==
    \/ SlowlogDetect
    \/ SlowlogBreak
    \/ /\ Running("slowlog")
       /\ \E s \in Sets :
             \/ SlowlogConnect(s) \/ SlowlogInventory(s) \/ SlowlogNames(s)
             \/ \E m \in Members(s) :
                   \/ SlowlogUndispatched(s, m) \/ DetailRead(s, m)
                   \/ \E d \in Databases : SlowlogProfile(s, m, d)
    \/ SlowlogReturn
    \/ DetailLocate \/ DetailAgain \/ DetailReturn
================================================================================
