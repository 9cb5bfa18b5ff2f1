--------------------------- MODULE DiagnosticsProofs ---------------------------
(***************************************************************************)
(* Proofs about Diagnostics, for any calls, deployments, databases and     *)
(* collections, and whatever servers answer.                               *)
(***************************************************************************)
EXTENDS Diagnostics, FiniteSetTheorems, TLAPS

(***************************************************************************)
(* The inductive invariant.                                                *)
(***************************************************************************)
AllAnswers == {"ok", "none", "failed", "refused"} \cup Excusable

(* Jobs that a call has alone: those of its entrance, and a document.        *)
Entry == {"topology", "shards"}
Alone == Entry \cup {"document"}
Common(S) == \A x \in S : x[1] \notin Alone

CallOK ==
    /\ call.at \in {"idle", "running", "returned"}
    /\ call.at # "idle" =>
          /\ call = [at |-> call.at, of |-> call.of, on |-> call.on,
                     res |-> call.res, err |-> call.err]
          /\ "name" \in DOMAIN call.of /\ call.of.name \in {c.name : c \in Calls}
          /\ call.on \in Deployments
          /\ call.res \in {"none", "result"} /\ call.err \in {"none", "partial", "plain"}

CollectedOK ==
    /\ \A h \in heard : h[2] \in AllAnswers
    /\ \A x \in statuses : x.state \in States
    /\ stopped \in BOOLEAN /\ faults \in Nat

(* A failure is among the errors while the call runs; a node that Overview   *)
(* cannot dial is not, and a cluster whose shards cannot be listed is not    *)
(* worked on.                                                                *)
Excepted(h) == Cap = "overview" /\ h[1][1] = "dial"
LossOK == \A h \in Failures : (h \in errs \/ Excepted(h)) /\ h[1][1] # "shards"

(* Nothing has gone wrong at the entrance, nor where a document is asked for.*)
EntranceOK == \A j \in todo : j[1] \in Entry => errs = {} /\ todo = {j}
DocumentOK ==
    (\E x \in kept \cup todo : x[1] = "document") =>
        errs = {} /\ \A j \in todo : j[1] = "document"

DiagInv ==
    /\ CallOK /\ CollectedOK
    /\ call.at = "idle" => heard = {} /\ errs = {} /\ todo = {} /\ kept = {}
    /\ call.at = "running" => LossOK /\ EntranceOK /\ DocumentOK
    /\ Returned => todo = {} /\ (call.res = "none" => call.err = "plain")
    /\ NothingLost

-----------------------------------------------------------------------------
(* What every capability is made of. *)

LEMMA StatesOfAnswers ==
  ASSUME NEW name, NEW j, NEW a
  PROVE  State(a) \in States /\ Status(name, j, a).state \in States
BY DEF State, Status, States, Excusable

(* A step of a call that goes on: what fails is recorded.                    *)
Going ==
    /\ call.at = "running" /\ call' = call /\ stopped' = stopped
    /\ \E j \in todo : j[1] \notin Alone
    /\ Common(todo' \ todo) /\ Common(kept' \ kept)
    /\ errs \subseteq errs'
    /\ \A h \in heard' \ heard :
          /\ h[2] \in AllAnswers /\ h[1][1] # "shards"
          /\ h[2] \in {"failed", "refused"} => h \in errs' \/ Excepted(h)
    /\ \A x \in statuses' \ statuses : x.state \in States
    /\ faults' \in Nat

(* What a step of a call leaves true: the invariant, and what the call is.   *)
Carried == DiagInv' /\ Cap' = Cap

LEMMA GoingKeeps ==
  ASSUME DiagInv, Going
  PROVE  Carried
<1>1. CallOK' /\ call'.at = "running"
  BY DEF DiagInv, Going, CallOK
<1>2. CollectedOK'
  BY DEF DiagInv, Going, CollectedOK
<1>3. LossOK'
  BY DEF DiagInv, Going, LossOK, Failures, Excepted, Cap
<1>4. (\A j \in todo : j[1] \notin Entry) /\ (\A x \in kept \cup todo : x[1] # "document")
  BY DEF DiagInv, Going, EntranceOK, DocumentOK, Alone, Entry
<1>5. EntranceOK' /\ DocumentOK'
  BY <1>4 DEF Going, EntranceOK, DocumentOK, Common, Alone, Entry
<1> QED
  BY <1>1, <1>2, <1>3, <1>5 DEF DiagInv, NothingLost, Returned, Carried, Going, Cap

LEMMA HearTyped ==
  ASSUME DiagInv, NEW j, NEW a, Hear(j, a)
  PROVE  j \in todo /\ a \in AllAnswers /\ heard' = heard \cup {<<j, a>>} /\ faults' \in Nat
BY DEF DiagInv, CollectedOK, Hear, Answers, OrNone, AllAnswers, Excusable

LEMMA CollectGoes ==
  ASSUME DiagInv, call.at = "running",
         NEW j, NEW a, NEW next, NEW stat, NEW err, NEW keep,
         Collect(j, a, next, stat, err, keep),
         j[1] \notin Alone, Common(next), Common(keep),
         \A x \in stat : x.state \in States,
         a \in {"failed", "refused"} => <<j, a>> \in err \/ (Cap = "overview" /\ j[1] = "dial")
  PROVE  Carried
<1>1. j \in todo /\ a \in AllAnswers /\ heard' = heard \cup {<<j, a>>} /\ faults' \in Nat
  BY HearTyped DEF Collect
<1>2. Going
  BY <1>1 DEF Collect, Proceed, Going, Common, Excepted, vars, Alone, Entry
<1> QED
  BY <1>2, GoingKeeps

(* An answer that is no failure, and leaves no status.                       *)
LEMMA QuietGoes ==
  ASSUME DiagInv, call.at = "running", NEW j, NEW a, NEW next, NEW keep,
         Collect(j, a, next, {}, {}, keep),
         j[1] \notin Alone, Common(next), Common(keep), a \notin {"failed", "refused"}
  PROVE  Carried
<1>1. j \in todo /\ a \in AllAnswers /\ heard' = heard \cup {<<j, a>>} /\ faults' \in Nat
  BY HearTyped DEF Collect
<1>2. Going
  BY <1>1 DEF Collect, Proceed, Going, Common, Alone, Entry
<1> QED
  BY <1>2, GoingKeeps

LEMMA RecordGoes ==
  ASSUME DiagInv, call.at = "running",
         NEW name, NEW j, NEW a, NEW excused, NEW next, NEW keep,
         Record(name, j, a, excused, next, keep),
         excused \subseteq Excusable, j[1] \notin Alone, Common(next), Common(keep)
  PROVE  Carried
<1>1. Common(When(a = "ok", next)) /\ Common(When(a = "ok", keep))
  BY DEF Common, When
<1>2. \A x \in {Status(name, j, a)} : x.state \in States
  BY StatesOfAnswers
<1>3. a \in {"failed", "refused"} =>
         <<j, a>> \in When(a \notin excused \cup {"ok", "none"}, {<<j, a>>})
  BY DEF When, Excusable
<1> QED
  BY <1>1, <1>2, <1>3, CollectGoes DEF Record

LEMMA RefusedGoes ==
  ASSUME DiagInv, call.at = "running", NEW j, Refused(j), j[1] \notin Alone
  PROVE  Carried
<1>1. /\ j \in todo /\ heard' = heard \cup {<<j, "refused">>} /\ faults' \in Nat
      /\ "refused" \in AllAnswers
  BY HearTyped DEF Refused, Collect
<1>2. Going
  BY <1>1 DEF Refused, Collect, Proceed, Going, Common, Alone, Entry
<1> QED
  BY <1>2, GoingKeeps

LEMMA RecordIfAskedGoes ==
  ASSUME DiagInv, call.at = "running",
         NEW name, NEW j, NEW a, NEW excused, NEW next, NEW keep,
         RecordIfAsked(name, j, a, excused, next, keep),
         excused \subseteq Excusable, j[1] \notin Alone, Common(next), Common(keep)
  PROVE  Carried
BY RecordGoes, RefusedGoes DEF RecordIfAsked

LEMMA GoOnGoes ==
  ASSUME DiagInv, call.at = "running",
         NEW j, NEW group, NEW next, NEW err,
         GoOn(j, group, next, err), j[1] \notin Alone, Common(next)
  PROVE  Carried
<1>1. faults \in Nat
  BY DEF DiagInv, CollectedOK
<1>2. Going
  BY <1>1 DEF GoOn, Proceed, Going, Common
<1> QED
  BY <1>2, GoingKeeps

LEMMA BreakOffGoes ==
  ASSUME DiagInv, call.at = "running",
         NEW jobs, NEW loop, BreakOff(jobs, loop), Common(jobs)
  PROVE  Carried
<1>1. faults \in Nat
  BY DEF DiagInv, CollectedOK
<1>2. Going
  BY <1>1 DEF BreakOff, Going, Common
<1> QED
  BY <1>2, GoingKeeps

(* A call that returns an error, or has met none.                            *)
LEMMA ReturnEnds ==
  ASSUME DiagInv, call.at = "running", NEW res, NEW err, Return(res, err),
         res \in {"none", "result"}, err \in {"none", "partial", "plain"},
         res = "none" => err = "plain",
         todo' = {}, CollectedOK', err = "none" => NothingLost'
  PROVE  Carried
<1>1. /\ CallOK' /\ call'.at = "returned" /\ call'.err = err /\ call'.res = res
      /\ Cap' = Cap
  BY DEF DiagInv, CallOK, Return, Cap
<1>2. err # "none" => NothingLost'
  BY <1>1 DEF NothingLost
<1> QED
  BY <1>1, <1>2 DEF DiagInv, Returned, Carried

LEMMA FinishEnds ==
  ASSUME DiagInv, call.at = "running", NEW res, NEW err, Finish(res, err),
         res \in {"none", "result"}, err \in {"none", "partial", "plain"},
         res = "none" => err = "plain", err = "none" => errs = {}
  PROVE  Carried
<1>1. CollectedOK' /\ todo' = {}
  BY DEF DiagInv, CollectedOK, Finish
<1>2. ASSUME err = "none" PROVE NothingLost'
  <2>1. heard' = heard /\ Cap' = Cap
    BY DEF Finish, Return, Cap, DiagInv, CallOK
  <2>2. \A h \in Failures : Excepted(h)
    BY <1>2 DEF DiagInv, LossOK
  <2> QED
    BY <2>1, <2>2 DEF NothingLost, Hidden, Excepted, Failures
<1> QED
  BY <1>1, <1>2, ReturnEnds DEF Finish

LEMMA AbortEnds ==
  ASSUME DiagInv, call.at = "running", NEW j, NEW a, Abort(j, a)
  PROVE  Carried
<1>1. CollectedOK'
  BY HearTyped DEF Abort, DiagInv, CollectedOK
<1> QED
  BY <1>1, ReturnEnds DEF Abort

LEMMA DetectKeeps ==
  ASSUME DiagInv, call.at = "running", NEW whole, NEW gate, NEW next,
         Detect(whole, gate, next), Common(next)
  PROVE  Carried
<1> DEFINE door == Entrance(whole)
<1>0. TheTopology[1] \in Entry /\ door[1] \in Entry /\ TheShards[1] \in Entry
  BY DEF TheTopology, TheShards, Entrance, Entry
<1>1. CASE \E j \in {TheTopology, TheShards}, a \in Answers : Abort(j, a)
  BY <1>1, AbortEnds
<1>2. ASSUME NEW j, j[1] \in Entry, NEW more, Collect(j, "ok", more, {}, {}, {}),
             Common(more) \/ more = {TheShards}
      PROVE  Carried
  <2>1. j \in todo /\ todo = {j} /\ errs = {}
    BY <1>2 DEF DiagInv, EntranceOK, Collect, Hear
  <2>2. /\ todo' = more /\ heard' = heard \cup {<<j, "ok">>} /\ faults' \in Nat
        /\ UNCHANGED <<call, stopped, statuses, errs, kept>>
    BY <1>2, <2>1, HearTyped DEF Collect, Proceed
  <2>3. CallOK' /\ CollectedOK' /\ call'.at = "running" /\ Cap' = Cap
    BY <2>2 DEF DiagInv, CallOK, CollectedOK, AllAnswers, Cap
  <2>4. LossOK'
    BY <2>2 DEF DiagInv, LossOK, Failures, Excepted, Cap
  <2>5. \A x \in kept \cup more : x[1] # "document"
    BY <1>2, <2>1 DEF DiagInv, DocumentOK, Common, Alone, Entry, TheShards
  <2>6. EntranceOK' /\ DocumentOK'
    BY <1>2, <2>1, <2>2, <2>5 DEF EntranceOK, DocumentOK, Common, Alone
  <2> QED
    BY <2>3, <2>4, <2>6 DEF DiagInv, Returned, NothingLost, Carried
<1>3. ASSUME Hear(door, "ok"), Return("result", "none"),
             statuses' = {[name |-> gate, of |-> TheTopology, state |-> "unsupported"]},
             todo' = {}, UNCHANGED <<errs, kept, stopped>>
      PROVE  Carried
  <2>1. door \in todo /\ heard' = heard \cup {<<door, "ok">>} /\ faults' \in Nat
    BY <1>3, HearTyped
  <2>2. errs = {}
    BY <1>0, <2>1 DEF DiagInv, EntranceOK
  <2>3. CollectedOK'
    BY <1>3, <2>1 DEF DiagInv, CollectedOK, AllAnswers, States
  <2>4. Cap' = Cap
    BY <1>3 DEF DiagInv, CallOK, Return, Cap
  <2>5. NothingLost'
    BY <2>1, <2>2, <2>4 DEF DiagInv, LossOK, NothingLost, Hidden, Excepted, Failures
  <2> QED
    BY <1>3, <2>3, <2>5, ReturnEnds
<1> HIDE DEF door
<1>4. CASE Collect(TheTopology, "ok", {TheShards}, {}, {}, {})
  BY <1>0, <1>2, <1>4
<1>5. CASE Collect(door, "ok", next, {}, {}, {})
  BY <1>0, <1>2, <1>5
<1> QED
  BY <1>1, <1>3, <1>4, <1>5 DEF Detect, door

LEMMA EnterCommon ==
  ASSUME NEW what \in {"status", "inventory"}
  PROVE  Common(Enter(what))
BY DEF Common, Enter, Alone, Entry

-----------------------------------------------------------------------------
(* Overview, CollStats and CurrentOperations. *)

LEMMA ErrorOfRecords ==
  ASSUME NEW j, NEW a, a \in {"failed", "refused"}
  PROVE  <<j, a>> \in ErrorOf(j, a)
BY DEF ErrorOf, When

LEMMA GiveUpEnds ==
  ASSUME DiagInv, call.at = "running", NEW what, GiveUp(what)
  PROVE  Carried
<1>1. CollectedOK'
  BY DEF DiagInv, CollectedOK, GiveUp
<1> QED
  BY <1>1, ReturnEnds DEF GiveUp

(* A request of one of these, with or without anything to keep.              *)
LEMMA StrictGoes ==
  ASSUME DiagInv, call.at = "running", NEW j, NEW a, NEW next, NEW keep,
         Collect(j, a, next, {}, ErrorOf(j, a), keep),
         j[1] \notin Alone, Common(next), Common(keep)
  PROVE  Carried
<1>1. j \in todo /\ a \in AllAnswers /\ heard' = heard \cup {<<j, a>>} /\ faults' \in Nat
  BY HearTyped DEF Collect
<1>2. Going
  BY <1>1, ErrorOfRecords DEF Collect, Proceed, Going, Common, Alone, Entry
<1> QED
  BY <1>2, GoingKeeps

LEMMA OverviewKeeps ==
  ASSUME DiagInv, OverviewNext
  PROVE  Carried
<1>0. call.at = "running" /\ Cap = "overview"
  BY DEF OverviewNext, OverviewDetect, Running, Cap
<1>1. CASE OverviewDetect
  BY <1>0, <1>1, DetectKeeps, EnterCommon DEF OverviewDetect
<1>2. ASSUME NEW s \in Sets, OverviewConnect(s) PROVE Carried
  <2>1. PICK a \in Answers :
           Collect(<<"connect", s>>, a, When(a = "ok", {<<"status", s>>}),
                   {}, ErrorOf(<<"connect", s>>, a), {})
    BY <1>2 DEF OverviewConnect
  <2>2. Common(When(a = "ok", {<<"status", s>>})) /\ Common({})
        /\ <<"connect", s>>[1] \notin Alone
    BY DEF Common, When, Alone, Entry
  <2> QED
    BY <1>0, <2>1, <2>2, StrictGoes
<1>3. ASSUME NEW s \in Sets, OverviewStatus(s) PROVE Carried
  <2> DEFINE next(a) == When(a = "ok", {<<"dial", s, m>> : m \in DataNodes(s)})
             keep(a) == When(a = "ok", {<<"member", s, m>> : m \in Members(s)})
  <2>1. PICK a \in Answers :
           Collect(<<"status", s>>, a, next(a), {}, ErrorOf(<<"status", s>>, a), keep(a))
    BY <1>3 DEF OverviewStatus
  <2>2. Common(next(a)) /\ Common(keep(a)) /\ <<"status", s>>[1] \notin Alone
    BY DEF Common, When, Alone, Entry
  <2> HIDE DEF next, keep
  <2> QED
    BY <1>0, <2>1, <2>2, StrictGoes
<1>4. ASSUME NEW s \in Sets, NEW m, OverviewDial(s, m) PROVE Carried
  <2> DEFINE j == <<"dial", s, m>>
             next(a) == When(a = "ok", {<<"node", s, m>>})
             err(a) == When(a = "refused", {<<j, a>>})
  <2>1. PICK a \in Answers : Collect(j, a, next(a), {}, err(a), {})
    BY <1>4 DEF OverviewDial
  <2>2. Common(next(a)) /\ j[1] = "dial" /\ j[1] \notin Alone
    BY DEF Common, When, Alone, Entry
  <2>3. j \in todo /\ a \in AllAnswers /\ heard' = heard \cup {<<j, a>>} /\ faults' \in Nat
    BY <2>1, HearTyped DEF Collect
  <2> HIDE DEF next, err, j
  <2>4. Going
    BY <1>0, <2>1, <2>2, <2>3
    DEF Collect, Proceed, Going, Common, Excepted, Alone, Entry
  <2> QED
    BY <2>4, GoingKeeps
<1>5. ASSUME NEW s \in Sets, NEW m, OverviewNode(s, m) PROVE Carried
  <2> DEFINE j == <<"node", s, m>>
             keep(a) == When(a = "ok", {<<"details", s, m>>})
  <2>1. PICK a \in Answers : Collect(j, a, {}, {}, ErrorOf(j, a), keep(a))
    BY <1>5 DEF OverviewNode
  <2>2. Common({}) /\ Common(keep(a)) /\ j[1] \notin Alone
    BY DEF Common, When, Alone, Entry
  <2> HIDE DEF keep, j
  <2> QED
    BY <1>0, <2>1, <2>2, StrictGoes
<1>6. ASSUME NEW s \in Sets, OverviewGroupCancelled(s) PROVE Carried
  <2>1. faults' \in Nat /\ \E j \in todo : j[1] \notin Alone
    BY <1>6 DEF OverviewGroupCancelled, DiagInv, CollectedOK, Alone, Entry
  <2>2. Going
    BY <1>0, <1>6, <2>1 DEF OverviewGroupCancelled, Going, Common
  <2> QED
    BY <2>2, GoingKeeps
<1>7. CASE \/ call.of.legacy /\ GiveUp("connect")
           \/ errs # {} /\ Finish("none", "plain")
           \/ errs = {} /\ Finish("result", "none")
  BY <1>0, <1>7, GiveUpEnds, FinishEnds
<1> QED
  BY <1>1, <1>2, <1>3, <1>4, <1>5, <1>6, <1>7 DEF OverviewNext

LEMMA CollStatsKeeps ==
  ASSUME DiagInv, CollStatsNext
  PROVE  Carried
<1>0. call.at = "running"
  BY DEF CollStatsNext, CollStatsBegin, Running
<1>1. CASE CollStatsBegin
  <2>1. CASE call.of.shardedOnly
    <3>1. Common({TheDatabases}) /\ Common({})
      BY DEF Common, TheDatabases, Alone, Entry
    <3>2. Common(IF Sharded THEN {TheDatabases} ELSE {})
      BY <3>1
    <3> QED
      BY <1>0, <1>1, <2>1, <3>2, DetectKeeps DEF CollStatsBegin
  <2>2. CASE ~call.of.shardedOnly
    <3>1. /\ TheTopology \in todo /\ todo' = {TheDatabases}
          /\ UNCHANGED <<call, heard, statuses, errs, kept, stopped, faults>>
      BY <1>1, <2>2 DEF CollStatsBegin
    <3>2. errs = {} /\ todo = {TheTopology} /\ \A x \in kept : x[1] # "document"
      BY <1>0, <3>1
      DEF DiagInv, EntranceOK, DocumentOK, TheTopology, Entry
    <3>3. EntranceOK' /\ DocumentOK' /\ LossOK'
      BY <1>0, <3>1, <3>2
      DEF DiagInv, EntranceOK, DocumentOK, LossOK, Failures, Excepted, Cap, TheDatabases, Entry
    <3>4. CallOK' /\ CollectedOK' /\ call'.at = "running" /\ Cap' = Cap
      BY <1>0, <3>1 DEF DiagInv, CallOK, CollectedOK, Cap
    <3> QED
      BY <3>3, <3>4 DEF DiagInv, Returned, NothingLost, Carried
  <2> QED
    BY <2>1, <2>2
<1>2. CASE CollStatsDatabases
  <2>1. CASE \E a \in Answers : Abort(TheDatabases, a)
    BY <1>0, <2>1, AbortEnds
  <2>2. CASE ~\E a \in Answers : Abort(TheDatabases, a)
    <3> DEFINE next == {<<"collections", d>> : d \in Databases}
    <3>1. Collect(TheDatabases, "ok", next, {}, {}, {})
      BY <1>2, <2>2 DEF CollStatsDatabases
    <3>2. Common(next) /\ Common({}) /\ TheDatabases[1] \notin Alone
      BY DEF Common, TheDatabases, Alone, Entry
    <3> HIDE DEF next
    <3> QED
      BY <1>0, <3>1, <3>2, QuietGoes
  <2> QED
    BY <2>1, <2>2
<1>3. ASSUME NEW d \in Databases, CollStatsCollections(d) PROVE Carried
  <2> DEFINE j == <<"collections", d>>
  <2>1. CASE \E a \in Answers : Abort(j, a)
    BY <1>0, <2>1, AbortEnds
  <2> DEFINE next == Stats(d) \cup When(Collections = {}, {<<"dbstats", d>>})
  <2>2. CASE Collect(j, "ok", next, {}, {}, {})
    <3>1. Common(next) /\ Common({}) /\ j[1] \notin Alone
      BY DEF Common, Stats, When, Alone, Entry
    <3> HIDE DEF j, next
    <3> QED
      BY <1>0, <2>2, <3>1, QuietGoes
  <2> QED
    BY <1>3, <2>1, <2>2 DEF CollStatsCollections
<1>4. ASSUME NEW d \in Databases, NEW c \in Collections, CollStatsOne(d, c) PROVE Carried
  <2> DEFINE j == <<"stats", d, c>>
             next(a) == IF a = "ok" /\ errs = {}
                        THEN AfterLast(j, Stats(d), {<<"dbstats", d>>}) ELSE {}
             keep(a) == When(a = "ok", {j})
  <2>1. PICK a \in Answers : Collect(j, a, next(a), {}, ErrorOf(j, a), keep(a))
    BY <1>4 DEF CollStatsOne
  <2>2. Common({<<"dbstats", d>>}) /\ Common({}) /\ Common({j}) /\ j[1] \notin Alone
    BY DEF Common, Alone, Entry
  <2> HIDE DEF j
  <2>3. Common(next(a)) /\ Common(keep(a))
    BY <2>2 DEF AfterLast, When
  <2> HIDE DEF next, keep
  <2> QED
    BY <1>0, <2>1, <2>2, <2>3, StrictGoes
<1>5. ASSUME NEW d \in Databases, CollStatsDatabase(d) PROVE Carried
  <2> DEFINE j == <<"dbstats", d>>
  <2>1. CASE \E a \in Answers : Abort(j, a)
    BY <1>0, <2>1, AbortEnds
  <2>2. CASE Collect(j, "ok", {}, {}, {}, {j})
    <3>1. Common({j}) /\ Common({}) /\ j[1] \notin Alone
      BY DEF Common, Alone, Entry
    <3> HIDE DEF j
    <3> QED
      BY <1>0, <2>2, <3>1, QuietGoes
  <2> QED
    BY <1>5, <2>1, <2>2 DEF CollStatsDatabase
<1>6. CASE \/ GiveUp("collections")
           \/ /\ errs = {}
              /\ IF call.of.shardedOnly /\ ~Sharded
                 THEN Finish("none", "plain") ELSE Finish("result", "none")
  BY <1>0, <1>6, GiveUpEnds, FinishEnds
<1> QED
  BY <1>1, <1>2, <1>3, <1>4, <1>5, <1>6 DEF CollStatsNext

LEMMA OperationsKeeps ==
  ASSUME DiagInv, OperationsNext
  PROVE  Carried
<1>0. call.at = "running"
  BY DEF OperationsNext, OperationsDetect, Running
<1>1. \A who : Common(Ask(who))
  BY DEF Common, Ask, Alone, Entry
<1>2. CASE OperationsDetect
  BY <1>0, <1>1, <1>2, DetectKeeps DEF OperationsDetect
<1>3. ASSUME NEW way \in {"aggregation", "command"}, NEW who \in {"all", "own"},
             OperationsAsk(way, who)
      PROVE  Carried
  <2> DEFINE j == <<way, who>>
             next(a) == IF a = "unsupported" THEN {<<"command", who>>} ELSE Ask("own")
             keep == {<<"operations", Visibility(who)>>}
  <2>0. j[1] \notin Alone
    BY DEF Alone, Entry
  <2>1. CASE FirstAsked /\ Abort(j, "refused")
    BY <1>0, <2>1, AbortEnds
  <2>2. ASSUME NEW a \in Excusable, Collect(j, a, next(a), {}, {}, {}) PROVE Carried
    <3>1. Common({<<"command", who>>}) /\ Common({})
      BY DEF Common, Alone, Entry
    <3>2. Common(next(a)) /\ a \notin {"failed", "refused"}
      BY <1>1, <3>1 DEF Excusable
    <3> HIDE DEF j, next
    <3> QED
      BY <1>0, <2>0, <2>2, <3>1, <3>2, QuietGoes
  <2>3. ASSUME NEW a \in Answers,
               Record("current_operations", j, a, {"unauthorized"}, {}, keep)
        PROVE  Carried
    <3>1. Common({}) /\ Common(keep) /\ {"unauthorized"} \subseteq Excusable
      BY DEF Common, Alone, Entry, Excusable
    <3> HIDE DEF j, keep
    <3> QED
      BY <1>0, <2>0, <2>3, <3>1, RecordGoes
  <2> QED
    BY <1>3, <2>1, <2>2, <2>3 DEF OperationsAsk
<1>4. CASE \/ errs = {} /\ Finish("result", "none")
           \/ errs # {} /\ Finish("result", "plain")
  BY <1>0, <1>4, FinishEnds
<1> QED
  BY <1>2, <1>3, <1>4 DEF OperationsNext

-----------------------------------------------------------------------------
(* Slowlog. *)

LEMMA SlowlogKeeps ==
  ASSUME DiagInv, SlowlogNext
  PROVE  Carried
<1>1. CASE SlowlogDetect
  BY <1>1, DetectKeeps, EnterCommon DEF SlowlogDetect, Running
<1>2. CASE SlowlogBreak
  <2>1. Common(todo) /\ call.at = "running" /\ BreakOff(todo, TheShards)
    BY <1>2 DEF SlowlogBreak, Running, OneByOne, Common, Alone, Entry
  <2> QED
    BY <2>1, BreakOffGoes
<1>3. ASSUME call.at = "running", NEW s \in Sets, SlowlogConnect(s) PROVE Carried
  <2> DEFINE j == <<"connect", s>>
             next == {<<"inventory", s>>}
             keep == {ReplicaSetOf(s)}
  <2>1. PICK a \in Answers : RecordIfAsked("slowlog_insight", j, a, {}, next, keep)
    BY <1>3 DEF SlowlogConnect
  <2>2. Common(next) /\ Common(keep) /\ j[1] \notin Alone
    BY DEF Common, ReplicaSetOf, Alone, Entry
  <2> HIDE DEF j, next, keep
  <2> QED
    BY <1>3, <2>1, <2>2, RecordIfAskedGoes
<1>4. ASSUME call.at = "running", NEW s \in Sets, SlowlogInventory(s) \/ SlowlogNames(s)
      PROVE  Carried
  <2>1. Common(Profiles(s)) /\ Common({<<"names", s>>}) /\ Common({})
    BY DEF Common, Profiles, Alone, Entry
  <2>2. <<"inventory", s>>[1] \notin Alone /\ <<"names", s>>[1] \notin Alone
    BY DEF Alone, Entry
  <2>3. CASE SlowlogInventory(s)
    BY <1>4, <2>1, <2>2, <2>3, RecordGoes DEF SlowlogInventory
  <2>4. CASE SlowlogNames(s)
    BY <1>4, <2>1, <2>2, <2>4, RecordGoes DEF SlowlogNames, Excusable
  <2> QED
    BY <1>4, <2>3, <2>4
<1>5. ASSUME call.at = "running", NEW s \in Sets, NEW m, NEW d \in Databases,
             SlowlogProfile(s, m, d)
      PROVE  Carried
  <2> DEFINE j == <<"profile", s, m, d>>
             keep == {<<"summary", s, m, d>>}
  <2>1. PICK a : Record("slowlog_insight", j, a, Excusable, {}, keep)
    BY <1>5 DEF SlowlogProfile
  <2>2. Common({}) /\ Common(keep) /\ j[1] \notin Alone
    BY DEF Common, Alone, Entry
  <2> HIDE DEF j, keep
  <2> QED
    BY <1>5, <2>1, <2>2, RecordGoes
<1>6. ASSUME call.at = "running", NEW s \in Sets, NEW m, SlowlogUndispatched(s, m)
      PROVE  Carried
  <2> DEFINE jobs == {j \in todo : j[1] = "profile" /\ j[2] = s /\ j[3] = m}
  <2>1. Common(jobs)
    BY DEF Common, Alone, Entry
  <2> QED
    BY <1>6, <2>1, BreakOffGoes DEF SlowlogUndispatched
<1>7. CASE SlowlogReturn
  <2>1. call.at = "running"
    BY <1>7 DEF SlowlogReturn, Running
  <2> QED
    BY <1>7, <2>1, FinishEnds DEF SlowlogReturn
<1>8. CASE DetailLocate
  <2>0. call.at = "running"
    BY <1>8 DEF DetailLocate, Running
  <2>1. CASE Finish("none", "plain")
    BY <2>0, <2>1, FinishEnds
  <2>2. ASSUME NEW k \in Listed, errs = {}, todo' = {Document(k[2], k[3])},
               UNCHANGED <<call, heard, statuses, errs, kept, stopped, faults>>
        PROVE  Carried
    <3>1. EntranceOK' /\ DocumentOK' /\ LossOK'
      BY <2>0, <2>2 DEF DiagInv, EntranceOK, DocumentOK, LossOK, Failures, Excepted, Cap,
                        Document, Entry
    <3>2. CallOK' /\ CollectedOK' /\ call'.at = "running" /\ Cap' = Cap
      BY <2>0, <2>2 DEF DiagInv, CallOK, CollectedOK, Cap
    <3> QED
      BY <3>1, <3>2 DEF DiagInv, Returned, NothingLost, Carried
  <2> QED
    BY <1>8, <2>1, <2>2 DEF DetailLocate
<1>9. CASE DetailAgain
  <2>1. PICK k \in Listed : todo' = {Document(k[2], k[3])}
    BY <1>9 DEF DetailAgain
  <2>2. /\ heard' = {} /\ errs' = {} /\ statuses' = {} /\ stopped' = FALSE
        /\ kept' = kept /\ faults' = faults /\ call.at = "returned"
    BY <1>9 DEF DetailAgain
  <2>3. CallOK' /\ call'.at = "running" /\ Cap' = Cap
    BY <1>9 DEF DetailAgain, DiagInv, CallOK, Cap
  <2>4. CollectedOK' /\ LossOK'
    BY <2>2 DEF DiagInv, CollectedOK, LossOK, Failures
  <2>5. Document(k[2], k[3])[1] = "document"
    BY DEF Document
  <2>6. EntranceOK' /\ DocumentOK'
    BY <2>1, <2>2, <2>5 DEF EntranceOK, DocumentOK, Entry
  <2> QED
    BY <2>3, <2>4, <2>6 DEF DiagInv, Returned, NothingLost, Carried
<1>10. ASSUME call.at = "running", NEW s \in Sets, NEW m, DetailRead(s, m) PROVE Carried
  <2> DEFINE j == Document(s, m)
  <2>1. CASE \E a \in Answers \cup OrNone : Abort(j, a)
    BY <1>10, <2>1, AbortEnds
  <2>2. CASE Collect(j, "ok", {}, {}, {}, {j})
    <3>1. j[1] = "document"
      BY DEF Document
    <3> HIDE DEF j
    <3>2. /\ j \in todo /\ todo' = todo \ {j} /\ kept' = kept \cup {j}
          /\ heard' = heard \cup {<<j, "ok">>} /\ faults' \in Nat
          /\ UNCHANGED <<call, stopped, statuses, errs>>
      BY <2>2, HearTyped DEF Collect, Proceed
    <3>3. errs = {} /\ \A k \in todo : k[1] = "document"
      BY <1>10, <3>1, <3>2 DEF DiagInv, DocumentOK
    <3>4. LossOK'
      BY <1>10, <3>2 DEF DiagInv, LossOK, Failures, Excepted, Cap
    <3>5. EntranceOK' /\ DocumentOK'
      BY <3>2, <3>3 DEF EntranceOK, DocumentOK, Entry
    <3>6. CallOK' /\ CollectedOK' /\ call'.at = "running" /\ Cap' = Cap
      BY <1>10, <3>2 DEF DiagInv, CallOK, CollectedOK, AllAnswers, Cap
    <3> QED
      BY <3>4, <3>5, <3>6 DEF DiagInv, Returned, NothingLost, Carried
  <2> QED
    BY <1>10, <2>1, <2>2 DEF DetailRead
<1>11. CASE DetailReturn
  <2>1. call.at = "running" /\ \E k \in kept : k[1] = "document"
    BY <1>11 DEF DetailReturn, Running
  <2>2. errs = {}
    BY <2>1 DEF DiagInv, DocumentOK
  <2> QED
    BY <1>11, <2>1, <2>2, FinishEnds DEF DetailReturn
<1> QED
  BY <1>1, <1>2, <1>3, <1>4, <1>5, <1>6, <1>7, <1>8, <1>9, <1>10, <1>11
  DEF SlowlogNext, Running

-----------------------------------------------------------------------------
(* Doctor. *)

LEMMA DoctorKeeps ==
  ASSUME DiagInv, DoctorNext
  PROVE  Carried
<1>0. call.at = "running" /\ Common({}) /\ {} \subseteq Excusable
      /\ {"unauthorized"} \subseteq Excusable
  BY DEF DoctorNext, DoctorDetect, DoctorBreak, DoctorReturn, Running, Common, Excusable
<1>1. CASE DoctorDetect
  BY <1>0, <1>1, DetectKeeps, EnterCommon DEF DoctorDetect
<1>2. CASE DoctorBreak
  <2>1. Common(todo) /\ BreakOff(todo, TheShards)
    BY <1>2 DEF DoctorBreak, OneByOne, Common, Alone, Entry
  <2> QED
    BY <1>0, <2>1, BreakOffGoes
<1>3. ASSUME NEW s \in Sets, DoctorConnect(s) PROVE Carried
  <2> DEFINE j == <<"connect", s>>
             next == {<<"status", s>>}
  <2>1. PICK a \in Answers : RecordIfAsked("replica_status", j, a, {}, next, {})
    BY <1>3 DEF DoctorConnect
  <2>2. Common(next) /\ j[1] \notin Alone
    BY DEF Common, Alone, Entry
  <2> HIDE DEF j, next
  <2> QED
    BY <1>0, <2>1, <2>2, RecordIfAskedGoes
<1>4. ASSUME NEW s \in Sets, DoctorStatus(s) PROVE Carried
  <2> DEFINE j == <<"status", s>>
             next == {<<"node", s, m>> : m \in {n \in Members(s) : Role(n) # "ARBITER"}}
                        \cup {<<"evaluate", s>>}
             keep(v) == {<<"view", s, v>>}
  <2>1. PICK a \in Answers, v \in Views :
           RecordIfAsked("replica_status", j, a, Excusable, next, keep(v))
    BY <1>4 DEF DoctorStatus
  <2>2. Common(next) /\ Common(keep(v)) /\ j[1] \notin Alone
    BY DEF Common, Alone, Entry
  <2> HIDE DEF j, next, keep
  <2> QED
    BY <1>0, <2>1, <2>2, RecordIfAskedGoes
<1>5. ASSUME NEW s \in Sets, NEW m, DoctorNodeConnect(s, m) \/ DoctorNode(s, m)
      PROVE  Carried
  <2> DEFINE j == <<"node", s, m>>
             keep(x) == {<<"sample", s, m, x>>}
  <2>1. \A x : Common(keep(x)) /\ j[1] \notin Alone
    BY DEF Common, Alone, Entry
  <2>2. CASE DoctorNodeConnect(s, m)
    <3>1. PICK a : RecordIfAsked("server_status", j, a, {"unauthorized"}, {}, {})
      BY <2>2 DEF DoctorNodeConnect
    <3> HIDE DEF j
    <3> QED
      BY <1>0, <2>1, <3>1, RecordIfAskedGoes
  <2>3. CASE DoctorNode(s, m)
    <3>1. PICK a, x : Record("server_status", j, a, Excusable, {}, keep(x))
      BY <2>3 DEF DoctorNode
    <3> HIDE DEF j, keep
    <3> QED
      BY <1>0, <2>1, <3>1, RecordGoes
  <2> QED
    BY <1>5, <2>2, <2>3
<1>6. ASSUME NEW s \in Sets, DoctorUndispatched(s) PROVE Carried
  <2>1. Common(todo \cap NodeJobs(s))
    BY DEF Common, NodeJobs, Alone, Entry
  <2> QED
    BY <1>0, <1>6, <2>1, BreakOffGoes DEF DoctorUndispatched
<1>7. ASSUME NEW s \in Sets, DoctorEvaluate(s) \/ DoctorDisk(s) PROVE Carried
  <2>1. Common({<<"names", s>>}) /\ <<"evaluate", s>>[1] \notin Alone
        /\ Common(Oplog(s)) /\ <<"disk", s>>[1] \notin Alone
    BY DEF Common, Oplog, When, Alone, Entry
  <2>2. CASE DoctorEvaluate(s)
    BY <1>0, <2>1, <2>2, GoOnGoes DEF DoctorEvaluate
  <2>3. CASE DoctorDisk(s)
    BY <1>0, <2>1, <2>3, GoOnGoes DEF DoctorDisk
  <2> QED
    BY <1>7, <2>2, <2>3
<1>8. ASSUME NEW s \in Sets, DoctorNames(s) PROVE Carried
  <2> DEFINE j == <<"names", s>>
             next == DiskJobs(s) \cup {<<"disk", s>>}
             stat(a) == {Status("database_stats", j, a)}
             err(a) == IF a = "unauthorized" THEN {} ELSE {<<j, a>>}
  <2>1. /\ Common(next) /\ Common(Oplog(s)) /\ j[1] \notin Alone
    BY DEF Common, Oplog, DiskJobs, When, Alone, Entry
  <2>2. ASSUME NEW a, Collect(j, a, Oplog(s), stat(a), err(a), {}) PROVE Carried
    <3>1. \A x \in stat(a) : x.state \in States
      BY StatesOfAnswers
    <3>2. a \in {"failed", "refused"} => <<j, a>> \in err(a)
      OBVIOUS
    <3> HIDE DEF j, stat, err
    <3> QED
      BY <1>0, <2>1, <2>2, <3>1, <3>2, CollectGoes
  <2>3. CASE Collect(j, "ok", next, {}, {}, {})
    <3> HIDE DEF j, next
    <3> QED
      BY <1>0, <2>1, <2>3, QuietGoes
  <2> QED
    BY <1>8, <2>2, <2>3 DEF DoctorNames
<1>9. ASSUME NEW s \in Sets, NEW d \in Databases, DoctorDatabase(s, d) PROVE Carried
  <2> DEFINE j == <<"dbstats", s, d>>
             keep(used) == {<<"used", s, d, used>>}
  <2>1. \A used : Common(keep(used)) /\ j[1] \notin Alone
    BY DEF Common, Alone, Entry
  <2>2. Common(todo \cap DiskJobs(s))
    BY DEF Common, DiskJobs, Alone, Entry
  <2>3. CASE BreakOff(todo \cap DiskJobs(s), <<"databases", s>>)
    BY <1>0, <2>2, <2>3, BreakOffGoes
  <2>4. ASSUME NEW a, NEW used, Record("database_stats", j, a, Excusable, {}, keep(used))
        PROVE  Carried
    <3> HIDE DEF j, keep
    <3> QED
      BY <1>0, <2>1, <2>4, RecordGoes
  <2> QED
    BY <1>9, <2>3, <2>4 DEF DoctorDatabase
<1>10. ASSUME NEW s \in Sets, DoctorOplog(s) PROVE Carried
  <2> DEFINE j == <<"oplog", s>>
             keep(w) == {<<"window", s, w>>}
             stat == {Status("oplog_window", j, "unsupported")}
  <2>1. \A w : Common(keep(w)) /\ j[1] \notin Alone
    BY DEF Common, Alone, Entry
  <2>2. ASSUME NEW a, NEW w,
               RecordIfAsked("oplog_window", j, a, {"unauthorized"}, {}, keep(w))
        PROVE  Carried
    <3> HIDE DEF j, keep
    <3> QED
      BY <1>0, <2>1, <2>2, RecordIfAskedGoes
  <2>3. ASSUME NEW a \in OrNone, Collect(j, a, {}, stat, {}, {}) PROVE Carried
    <3>1. a \notin {"failed", "refused"}
      BY DEF OrNone
    <3>2. \A x \in stat : x.state \in States
      BY StatesOfAnswers
    <3> HIDE DEF j, stat
    <3> QED
      BY <1>0, <2>1, <2>3, <3>1, <3>2, CollectGoes
  <2> QED
    BY <1>10, <2>2, <2>3 DEF DoctorOplog
<1>11. CASE DoctorReturn
  <2>1. CASE errs = {} /\ Finish("result", "none")
    BY <1>0, <2>1, FinishEnds
  <2>2. CASE errs # {} /\ \E err \in {"partial", "plain"} : Finish("result", err)
    BY <1>0, <2>2, FinishEnds
  <2> QED
    BY <1>11, <2>1, <2>2 DEF DoctorReturn
<1> QED
  BY <1>1, <1>2, <1>3, <1>4, <1>5, <1>6, <1>7, <1>8, <1>9, <1>10, <1>11 DEF DoctorNext

-----------------------------------------------------------------------------
(* Capacity. *)

LEMMA ListCollectionsKeeps ==
  ASSUME DiagInv, call.at = "running", NEW least, NEW next, ListCollections(least, next),
         Common(next)
  PROVE  Carried
<1>0. TheCollections[1] \notin Alone /\ Common({})
  BY DEF TheCollections, Common, Alone, Entry
<1>1. CASE \E a \in Answers : Abort(TheCollections, a)
  BY <1>1, AbortEnds
<1>2. CASE /\ Hear(TheCollections, "ok") /\ Return("none", "plain")
           /\ todo' = {} /\ UNCHANGED <<statuses, errs, kept, stopped>>
  <2>1. CollectedOK'
    BY <1>2, HearTyped DEF DiagInv, CollectedOK
  <2> QED
    BY <1>2, <2>1, ReturnEnds
<1>3. CASE Collect(TheCollections, "ok", next, {}, {}, {})
  BY <1>0, <1>3, QuietGoes
<1> QED
  BY <1>1, <1>2, <1>3 DEF ListCollections

(* A request to a shard, which may not be reached.                           *)
LEMMA OnShardKeeps ==
  ASSUME DiagInv, call.at = "running", NEW name, NEW j, NEW nothing, NEW keep,
         OnShard(name, j, nothing, keep), j[1] \notin Alone, Common(keep)
  PROVE  Carried
<1>0. Common({}) /\ {} \subseteq Excusable
  BY DEF Common
<1>1. CASE \E a \in Answers \ {"ok"} : RecordIfAsked(name, j, a, {}, {}, {})
  BY <1>0, <1>1, RecordIfAskedGoes
<1>2. CASE \E a \in (Answers \ {"refused"}) \cup nothing :
              Record(name, j, a, Excusable, {}, keep)
  BY <1>0, <1>2, RecordGoes
<1> QED
  BY <1>1, <1>2 DEF OnShard

LEMMA CapacityKeeps ==
  ASSUME DiagInv, CapacityNext
  PROVE  Carried
<1>0. call.at = "running" /\ Common({}) /\ {} \subseteq Excusable
  BY DEF CapacityNext, CapacityDetect, CapacityReturn, Running, Common
<1>1. CASE CapacityDetect
  <2>1. Common({TheCollections} \cup When(Sharded, {<<"primary", s>> : s \in Sets}))
    BY DEF Common, TheCollections, When, Alone, Entry
  <2> QED
    BY <1>0, <1>1, <2>1, DetectKeeps DEF CapacityDetect
<1>2. CASE CapacityPrimariesBreak \/ CapacityDatabasesBreak
  <2>1. Common(todo \cap PrimaryJobs)
    BY DEF Common, PrimaryJobs, Alone, Entry
  <2>2. todo \subseteq DatabaseJobs => Common(todo)
    BY DEF Common, DatabaseJobs, Alone, Entry
  <2> QED
    BY <1>0, <1>2, <2>1, <2>2, BreakOffGoes DEF CapacityPrimariesBreak, CapacityDatabasesBreak
<1>3. CASE CapacityCollections
  <2>1. Common({<<"capacity", r[1], r[2]>> : r \in Selected} \cup DatabaseJobs)
    BY DEF Common, DatabaseJobs, Alone, Entry
  <2> QED
    BY <1>0, <1>3, <2>1, ListCollectionsKeeps DEF CapacityCollections
<1>4. ASSUME NEW s \in Sets, CapacityPrimary(s) PROVE Carried
  <2> DEFINE j == <<"primary", s>>
             stat == {Status("collection_capacity", j, "failed")}
             err == {<<j, "failed">>}
  <2>1. j[1] \notin Alone /\ Common({j}) /\ \A x \in stat : x.state \in States
    BY StatesOfAnswers DEF Common, Alone, Entry
  <2>2. ASSUME NEW a, Record("collection_capacity", j, a, {}, {}, {}) PROVE Carried
    <3> HIDE DEF j
    <3> QED
      BY <1>0, <2>1, <2>2, RecordGoes
  <2>3. CASE Collect(j, "ok", {}, {}, {}, {j})
    <3> HIDE DEF j
    <3> QED
      BY <1>0, <2>1, <2>3, QuietGoes
  <2>4. CASE Collect(j, "ok", {}, stat, err, {})
    <3> HIDE DEF j, stat, err
    <3> QED
      BY <1>0, <2>1, <2>4, CollectGoes
  <2> QED
    BY <1>4, <2>2, <2>3, <2>4 DEF CapacityPrimary
<1>5. ASSUME NEW d \in Databases, NEW c \in Collections, CapacityCollection(d, c)
      PROVE  Carried
  <2> DEFINE j == <<"capacity", d, c>>
             next == When(FreeStorage = "supported", {<<"free", d, c>>})
                        \cup {<<"detail", d, c, s>> : s \in ShardPrimaries}
             keep == {<<"collection", d, c>>}
  <2>1. PICK a \in Answers : RecordIfAsked("collection_capacity", j, a, Excusable, next, keep)
    BY <1>5 DEF CapacityCollection
  <2>2. Common(next) /\ Common(keep) /\ j[1] \notin Alone
    BY DEF Common, When, Alone, Entry
  <2> HIDE DEF j, next, keep
  <2> QED
    BY <1>0, <2>1, <2>2, RecordIfAskedGoes
<1>6. ASSUME NEW d \in Databases, NEW c \in Collections, CapacityFree(d, c) PROVE Carried
  <2> DEFINE j == <<"free", d, c>>
             keep == {<<"free", d, c>>}
  <2>1. PICK a \in Answers : Record("free_storage", j, a, Excusable, {}, keep)
    BY <1>6 DEF CapacityFree
  <2>2. Common(keep) /\ j[1] \notin Alone
    BY DEF Common, Alone, Entry
  <2> HIDE DEF j, keep
  <2> QED
    BY <1>0, <2>1, <2>2, RecordGoes
<1>7. ASSUME NEW d \in Databases, NEW c \in Collections, NEW s \in Sets, CapacityDetail(d, c, s)
      PROVE  Carried
  <2> DEFINE j == <<"detail", d, c, s>>
             keep == {<<"shard", d, c, s>>}
  <2>1. OnShard("collection_capacity", j, OrNone, keep)
    BY <1>7 DEF CapacityDetail
  <2>2. Common(keep) /\ j[1] \notin Alone
    BY DEF Common, Alone, Entry
  <2> HIDE DEF j, keep
  <2> QED
    BY <1>0, <2>1, <2>2, OnShardKeeps
<1>8. ASSUME NEW d \in Databases, CapacityDatabase(d) PROVE Carried
  <2> DEFINE j == <<"database", d>>
             next(a) == {<<"filesystem", d, s>> : s \in ShardPrimaries}
                          \cup When(a = "ok" /\ FreeStorage = "supported", {<<"free", d>>})
             stat(a) == {Status("database_capacity", j, a)}
             err(a) == When(a \notin Excusable \cup {"ok"}, {<<j, a>>})
             keep == {j}
  <2>1. PICK a \in Answers \ {"refused"} : Collect(j, a, next(a), stat(a), err(a), keep)
    BY <1>8 DEF CapacityDatabase
  <2>2. Common(next(a)) /\ Common(keep) /\ j[1] \notin Alone
    BY DEF Common, When, Alone, Entry
  <2>3. /\ \A x \in stat(a) : x.state \in States
        /\ a \in {"failed", "refused"} => <<j, a>> \in err(a)
    BY StatesOfAnswers DEF When, Excusable
  <2> HIDE DEF j, next, stat, err, keep
  <2> QED
    BY <1>0, <2>1, <2>2, <2>3, CollectGoes
<1>9. ASSUME NEW d \in Databases, NEW s \in Sets, CapacityFilesystem(d, s) PROVE Carried
  <2> DEFINE j == <<"filesystem", d, s>>
             keep == {<<"filesystem", d, s>>}
  <2>1. OnShard("database_filesystem", j, {}, keep)
    BY <1>9 DEF CapacityFilesystem
  <2>2. Common(keep) /\ j[1] \notin Alone
    BY DEF Common, Alone, Entry
  <2> HIDE DEF j, keep
  <2> QED
    BY <1>0, <2>1, <2>2, OnShardKeeps
<1>10. ASSUME NEW d \in Databases, CapacityDatabaseFree(d) PROVE Carried
  <2> DEFINE j == <<"free", d>>
             stat(a) == When(a # "ok", {Status("database_free_storage", j, a)})
             err(a) == When(a \notin Excusable \cup {"ok"}, {<<j, a>>})
  <2>1. PICK a \in Answers : Collect(j, a, {}, stat(a), err(a), {})
    BY <1>10 DEF CapacityDatabaseFree
  <2>2. /\ \A x \in stat(a) : x.state \in States
        /\ a \in {"failed", "refused"} => <<j, a>> \in err(a)
        /\ j[1] \notin Alone
    BY StatesOfAnswers DEF When, Excusable, Alone, Entry
  <2> HIDE DEF j, stat, err
  <2> QED
    BY <1>0, <2>1, <2>2, CollectGoes
<1>11. CASE CapacityReturn
  <2> DEFINE err == IF errs = {} THEN "none"
                    ELSE IF \E d \in Databases : <<"database", d>> \in kept THEN "partial"
                    ELSE "plain"
  <2>1. /\ Return("result", err) /\ todo' = {} /\ UNCHANGED <<heard, errs, kept, stopped, faults>>
        /\ FreeStorage \in States
        /\ statuses' = statuses \cup
             When(FreeStorage # "supported",
                  {[name |-> "free_storage", of |-> TheTopology, state |-> FreeStorage]})
    BY <1>11 DEF CapacityReturn, FreeStorage, Gate, States
  <2>2. CollectedOK'
    BY <2>1 DEF DiagInv, CollectedOK, When
  <2>3. Cap' = Cap
    BY <2>1 DEF DiagInv, CallOK, Return, Cap, CapacityReturn
  <2>4. err = "none" => \A h \in Failures : Excepted(h)
    BY <1>0 DEF DiagInv, LossOK
  <2>5. err = "none" => NothingLost'
    BY <2>1, <2>3, <2>4 DEF NothingLost, Hidden, Excepted, Failures
  <2>6. err \in {"none", "partial", "plain"}
    OBVIOUS
  <2> HIDE DEF err
  <2> QED
    BY <1>0, <2>1, <2>2, <2>5, <2>6, ReturnEnds
<1> QED
  BY <1>1, <1>2, <1>3, <1>4, <1>5, <1>6, <1>7, <1>8, <1>9, <1>10, <1>11 DEF CapacityNext

-----------------------------------------------------------------------------
(* Hotspot. *)

LEMMA DiscoverKeeps ==
  ASSUME DiagInv, call.at = "running", NEW s \in Sets, DiscoverTargets(s)
  PROVE  Carried
<1> DEFINE j == <<"targets", s>>
           keep == {<<"target", s, m>> : m \in {n \in Members(s) : HoldsData(n)}}
           err(a) == {<<j, a>>}
<1>0. Common({}) /\ {} \subseteq Excusable /\ Common(keep) /\ j[1] \notin Alone
  BY DEF Common, Alone, Entry
<1>1. ASSUME NEW a, Record("hotspot_targets", j, a, {}, {}, keep) PROVE Carried
  <2> HIDE DEF j, keep
  <2> QED
    BY <1>0, <1>1, RecordGoes
<1>2. ASSUME NEW a, Collect(j, a, {}, {}, err(a), {}) PROVE Carried
  <2>1. <<j, a>> \in err(a)
    OBVIOUS
  <2> HIDE DEF j, err
  <2>2. j \in todo /\ a \in AllAnswers /\ heard' = heard \cup {<<j, a>>} /\ faults' \in Nat
    BY <1>2, HearTyped DEF Collect
  <2>3. Going
    BY <1>0, <1>2, <2>1, <2>2 DEF Collect, Proceed, Going, Common, Alone, Entry
  <2> QED
    BY <2>3, GoingKeeps
<1> QED
  BY <1>1, <1>2 DEF DiscoverTargets

LEMMA DiscoveryBreakKeeps ==
  ASSUME DiagInv, call.at = "running", DiscoveryBreak
  PROVE  Carried
<1>1. Common(todo \cap Discovery)
  BY DEF Common, Discovery, Alone, Entry
<1> QED
  BY <1>1, BreakOffGoes DEF DiscoveryBreak

(* No error is left out of Hotspot's judgement but those of the discovery,   *)
(* where nothing was read.                                                   *)
LEMMA HotspotReturnKeeps ==
  ASSUME DiagInv, HotspotReturn
  PROVE  Carried
<1> DEFINE err == IF Reported = {} THEN "none"
                  ELSE IF ReadNodes(1) = {} THEN "plain" ELSE "partial"
<1>0. /\ call.at = "running" /\ Cap = "hotspot" /\ Return("result", err) /\ todo' = {}
      /\ statuses' = statuses \cup {NodeStatus(m) : m \in ReadNodes(1)}
      /\ UNCHANGED <<heard, errs, kept, stopped, faults>>
  BY DEF HotspotReturn, Running, Cap
<1>1. \A m : NodeStatus(m).state \in States
  BY DEF NodeStatus, States
<1>2. CollectedOK'
  BY <1>0, <1>1 DEF DiagInv, CollectedOK
<1>3. Cap' = "hotspot" /\ ReadNodes(1)' = ReadNodes(1)
  BY <1>0 DEF DiagInv, CallOK, Return, Cap, ReadNodes, Read, Targets, Of
<1>4. ASSUME err = "none", NEW h \in Failures PROVE h[1][1] = "targets" /\ ReadNodes(1) = {}
  <2>1. h \in errs /\ h[1][1] # "shards"
    BY <1>0 DEF DiagInv, LossOK, Excepted
  <2>2. ReadNodes(1) = {} /\ Discovering(h)
    BY <1>4, <2>1 DEF Reported
  <2>3. h[1] \in Discovery
    BY <2>1, <2>2 DEF Discovering, TheShards
  <2> QED
    BY <2>2, <2>3 DEF Discovery
<1>5. err = "none" => NothingLost'
  BY <1>0, <1>3, <1>4 DEF NothingLost, Hidden, Failures
<1>6. err \in {"none", "partial", "plain"}
  OBVIOUS
<1> HIDE DEF err
<1> QED
  BY <1>0, <1>2, <1>5, <1>6, ReturnEnds

LEMMA HotspotKeeps ==
  ASSUME DiagInv, HotspotNext
  PROVE  Carried
<1>0. call.at = "running" /\ Common({}) /\ {} \subseteq Excusable
  BY DEF HotspotNext, HotspotDetect, HotspotReturn, Running, Common
<1>1. \A r : Common(ReadJobs(r)) /\ Common({Round(r)}) /\ Round(r)[1] \notin Alone
  BY DEF Common, ReadJobs, Round, Alone, Entry
<1>2. CASE HotspotDetect
  <2>1. Common(Discovery \cup {Round(1)})
    BY DEF Common, Discovery, Round, Alone, Entry
  <2> QED
    BY <1>2, <2>1, DetectKeeps DEF HotspotDetect, Running
<1>3. CASE HotspotFirst \/ HotspotSecond
  <2>1. /\ Common(When(Targets # {}, ReadJobs(1) \cup {Round(2)}))
        /\ Common(When(ReadNodes(1) # {}, ReadJobs(2)))
    BY <1>1 DEF Common, When
  <2>2. CASE HotspotFirst
    BY <1>0, <1>1, <2>1, <2>2, GoOnGoes DEF HotspotFirst
  <2>3. CASE HotspotSecond
    BY <1>0, <1>1, <2>1, <2>3, GoOnGoes DEF HotspotSecond
  <2> QED
    BY <1>3, <2>2, <2>3
<1>4. CASE HotspotCancelledWait
  <2>1. CollectedOK'
    BY <1>4 DEF DiagInv, CollectedOK, HotspotCancelledWait
  <2> QED
    BY <1>0, <1>4, <2>1, ReturnEnds DEF HotspotCancelledWait
<1>5. ASSUME NEW r, HotspotUndispatched(r) PROVE Carried
  <2>1. Common(todo \cap ReadJobs(r))
    BY <1>1 DEF Common
  <2> QED
    BY <1>0, <1>5, <2>1, BreakOffGoes DEF HotspotUndispatched
<1>6. ASSUME NEW r, NEW m, HotspotRead(r, m) PROVE Carried
  <2> DEFINE j == <<"read", r, m>>
             keep(y) == {<<"reading", r, m, y>>}
  <2>1. \A y : Common(keep(y)) /\ j[1] \notin Alone
    BY DEF Common, Alone, Entry
  <2>2. ASSUME NEW a, RecordIfAsked("hotspot_snapshot", j, a, {}, {}, {}) PROVE Carried
    <3> HIDE DEF j
    <3> QED
      BY <1>0, <2>1, <2>2, RecordIfAskedGoes
  <2>3. ASSUME NEW a, NEW y, Record("hotspot_snapshot", j, a, Excusable, {}, keep(y))
        PROVE  Carried
    <3> HIDE DEF j, keep
    <3> QED
      BY <1>0, <2>1, <2>3, RecordGoes
  <2> QED
    BY <1>6, <2>2, <2>3 DEF HotspotRead
<1> QED
  BY <1>0, <1>2, <1>3, <1>4, <1>5, <1>6, DiscoverKeeps, DiscoveryBreakKeeps, HotspotReturnKeeps
  DEF HotspotNext

-----------------------------------------------------------------------------
(* Index audit. *)

(* What has to be asked for the targets first.                               *)
Located == IF Sharded THEN {TheShardList} ELSE Discovery

LEMMA IndexAuditKeeps ==
  ASSUME DiagInv, IndexAuditNext
  PROVE  Carried
<1>0. call.at = "running" /\ Common({}) /\ {} \subseteq Excusable
  BY DEF IndexAuditNext, IndexAuditDetect, IndexAuditReturn, Running, Common
<1>1. CASE IndexAuditDetect
  <2>1. CASE /\ \E a \in Answers : Hear(TheTopology, a)
             /\ Return("none", "plain")
             /\ todo' = {} /\ UNCHANGED <<statuses, errs, kept, stopped>>
    <3>1. CollectedOK'
      BY <2>1, HearTyped DEF DiagInv, CollectedOK
    <3> QED
      BY <1>0, <2>1, <3>1, ReturnEnds
  <2>2. CASE Detect(FALSE, IF General THEN "index_usage" ELSE "none", {TheCollections})
    <3>1. Common({TheCollections})
      BY DEF Common, TheCollections, Alone, Entry
    <3> QED
      BY <1>0, <2>2, <3>1, DetectKeeps
  <2> QED
    BY <1>1, <2>1, <2>2 DEF IndexAuditDetect
<1>2. CASE IndexAuditCollections
  <2>1. Common(When(Consistency, {TheConsistency}) \cup When(General, {TheUsage} \cup Located))
    BY DEF Common, When, TheConsistency, Located, Discovery, TheShardList, TheUsage, Alone, Entry
  <2> QED
    BY <1>0, <1>2, <2>1, ListCollectionsKeeps DEF IndexAuditCollections, Located
<1>3. CASE IndexAuditConsistency
  <2> DEFINE keep(some) == {<<"compared", r[1], r[2]>> : r \in some}
             err(a) == When(a # "ok", {<<TheConsistency, a>>})
  <2>1. CASE \E a \in Answers \ Excusable : Abort(TheConsistency, a)
    BY <1>0, <2>1, AbortEnds
  <2>2. ASSUME NEW some, NEW a, Collect(TheConsistency, a, {}, {}, err(a), keep(some))
        PROVE  Carried
    <3>1. Common(keep(some)) /\ TheConsistency[1] \notin Alone
      BY DEF Common, TheConsistency, Alone, Entry
    <3>2. a \in {"failed", "refused"} => <<TheConsistency, a>> \in err(a)
      BY DEF When
    <3> HIDE DEF keep, err
    <3>3. TheConsistency \in todo /\ a \in AllAnswers /\ faults' \in Nat
          /\ heard' = heard \cup {<<TheConsistency, a>>}
      BY <2>2, HearTyped DEF Collect
    <3>4. Going
      BY <1>0, <2>2, <3>1, <3>2, <3>3 DEF Collect, Proceed, Going, Common, Alone, Entry
    <3> QED
      BY <3>4, GoingKeeps
  <2> QED
    BY <1>3, <2>1, <2>2 DEF IndexAuditConsistency
<1>3a. CASE IndexAuditShards
  <2>1. ASSUME NEW a, NEW next, NEW err, Collect(TheShardList, a, next, {}, err, {}), Common(next),
               a \in {"failed", "refused"} => <<TheShardList, a>> \in err
        PROVE  Carried
    <3>1. TheShardList[1] \notin Alone /\ TheShardList[1] # "shards"
      BY DEF TheShardList, Alone, Entry
    <3>2. TheShardList \in todo /\ a \in AllAnswers /\ faults' \in Nat
          /\ heard' = heard \cup {<<TheShardList, a>>}
      BY <2>1, HearTyped DEF Collect
    <3>3. Going
      BY <1>0, <2>1, <3>1, <3>2 DEF Collect, Proceed, Going, Common, Alone, Entry
    <3> QED
      BY <3>3, GoingKeeps
  <2>2. Common(Discovery) /\ Common({})
    BY DEF Common, Discovery, Alone, Entry
  <2> QED
    BY <1>3a, <2>1, <2>2 DEF IndexAuditShards
<1>4. ASSUME NEW s \in Sets, IndexAuditTargets(s) PROVE Carried
  BY <1>0, <1>4, DiscoverKeeps DEF IndexAuditTargets
<1>5. CASE IndexAuditUsage
  <2>1. Common({<<"size", r[1], r[2]>> : r \in Selected}) /\ TheUsage[1] \notin Alone
    BY DEF Common, TheUsage, Alone, Entry
  <2> QED
    BY <1>0, <1>5, <2>1, GoOnGoes DEF IndexAuditUsage
<1>6. ASSUME NEW d \in Databases, NEW c \in Collections, IndexAuditSize(d, c) PROVE Carried
  <2> DEFINE j == <<"size", d, c>>
             shell == <<"audited", d, c>>
             next == {<<"stats", d, c, m>> : m \in Targets}
             err(a) == When(a # "ok", {<<j, a>>})
             keep(a, building) ==
                 {shell} \cup When(a = "ok", {<<"building", d, c, i>> : i \in building}
                                             \cup {<<"size", d, c>>})
  <2>1. /\ Common({shell}) /\ Common(next) /\ j[1] \notin Alone
        /\ \A a, building : Common(keep(a, building))
    BY DEF Common, When, Alone, Entry
  <2>2. ASSUME NEW a, NEW more, NEW error, NEW keeping,
               Collect(j, a, more, {}, error, keeping), Common(more), Common(keeping),
               a \in {"failed", "refused"} => <<j, a>> \in error
        PROVE  Carried
    <3> HIDE DEF j
    <3>1. j \in todo /\ a \in AllAnswers /\ heard' = heard \cup {<<j, a>>} /\ faults' \in Nat
      BY <2>2, HearTyped DEF Collect
    <3>2. Going
      BY <1>0, <2>1, <2>2, <3>1 DEF Collect, Proceed, Going, Common, Alone, Entry
    <3> QED
      BY <3>2, GoingKeeps
  <2>3. CASE Collect(j, "refused", {}, {}, {<<j, "refused">>}, {shell})
    <3>1. <<j, "refused">> \in {<<j, "refused">>}
      OBVIOUS
    <3> HIDE DEF j, shell
    <3> QED
      BY <1>0, <2>1, <2>2, <2>3, <3>1
  <2>4. ASSUME NEW a, NEW building, Collect(j, a, next, {}, err(a), keep(a, building))
        PROVE  Carried
    <3>1. a \in {"failed", "refused"} => <<j, a>> \in err(a)
      BY DEF When
    <3> HIDE DEF j, next, err, keep
    <3> QED
      BY <2>1, <2>2, <2>4, <3>1
  <2> QED
    BY <1>6, <2>3, <2>4 DEF IndexAuditSize
<1>7. ASSUME NEW d \in Databases, NEW c \in Collections, NEW m, IndexAuditStats(d, c, m)
      PROVE  Carried
  <2> DEFINE j == <<"stats", d, c, m>>
             keep(x) == {<<"observed", d, c, m, x>>}
  <2>1. \A x : Common(keep(x)) /\ j[1] \notin Alone
    BY DEF Common, Alone, Entry
  <2>2. ASSUME NEW a, RecordIfAsked("index_usage", j, a, {}, {}, {}) PROVE Carried
    <3> HIDE DEF j
    <3> QED
      BY <1>0, <2>1, <2>2, RecordIfAskedGoes
  <2>3. ASSUME NEW a, NEW x, Record("index_usage", j, a, Excusable, {}, keep(x))
        PROVE  Carried
    <3> HIDE DEF j, keep
    <3> QED
      BY <1>0, <2>1, <2>3, RecordGoes
  <2> QED
    BY <1>7, <2>2, <2>3 DEF IndexAuditStats
<1>8. CASE IndexAuditReturn
  <2>1. CASE errs = {} /\ Finish("result", "none")
    BY <1>0, <2>1, FinishEnds
  <2>2. CASE errs # {} /\ \E err \in {"partial", "plain"} : Finish("result", err)
    BY <1>0, <2>2, FinishEnds
  <2> QED
    BY <1>8, <2>1, <2>2 DEF IndexAuditReturn
<1> QED
  BY <1>0, <1>1, <1>2, <1>3, <1>3a, <1>4, <1>5, <1>6, <1>7, <1>8, DiscoveryBreakKeeps
  DEF IndexAuditNext

-----------------------------------------------------------------------------
(* All of them. *)

LEMMA DiagInit == Init => DiagInv
<1> SUFFICES ASSUME Init PROVE DiagInv
  OBVIOUS
<1>1. call.at = "idle" /\ heard = {} /\ errs = {} /\ todo = {} /\ kept = {}
      /\ statuses = {} /\ stopped = FALSE /\ faults = 0
  BY DEF Init
<1>2. CallOK /\ CollectedOK
  BY <1>1 DEF CallOK, CollectedOK
<1> QED
  BY <1>1, <1>2 DEF DiagInv, NothingLost, Returned

LEMMA DiagNext == DiagInv /\ [Next]_vars => DiagInv'
<1> SUFFICES ASSUME DiagInv, [Next]_vars PROVE DiagInv'
  OBVIOUS
<1>1. ASSUME UNCHANGED vars PROVE DiagInv'
  BY <1>1 DEF vars, DiagInv, CallOK, CollectedOK, LossOK, EntranceOK, DocumentOK, NothingLost,
              Returned, Failures, Excepted, Hidden, Cap, ReadNodes, Read, Targets, Of
<1>2. ASSUME NEW c \in Calls, Begin(c) PROVE DiagInv'
  <2>1. PICK d \in Deployments :
           call' = [at |-> "running", of |-> c, on |-> d, res |-> "none", err |-> "none"]
    BY <1>2 DEF Begin
  <2>2. /\ call.at = "idle" /\ todo' = {TheTopology} /\ heard = {} /\ errs = {}
        /\ UNCHANGED <<heard, statuses, errs, kept, stopped, faults>>
    BY <1>2 DEF Begin, DiagInv
  <2>3. kept = {} /\ CollectedOK'
    BY <2>2 DEF DiagInv, CollectedOK
  <2>4. CallOK' /\ call'.at = "running"
    BY <2>1, CallsAssumption DEF CallOK
  <2>5. LossOK' /\ EntranceOK' /\ DocumentOK'
    BY <2>2, <2>3 DEF LossOK, EntranceOK, DocumentOK, Failures, TheTopology, Entry
  <2> QED
    BY <2>3, <2>4, <2>5 DEF DiagInv, Returned, NothingLost
<1>3. CASE Stop
  <2>1. call.at = "running" /\ stopped' = TRUE /\ LossOK /\ EntranceOK /\ DocumentOK
        /\ UNCHANGED <<call, todo, heard, statuses, errs, kept, faults>>
    BY <1>3 DEF Stop, DiagInv
  <2> QED
    BY <2>1 DEF DiagInv, CallOK, CollectedOK, LossOK, EntranceOK, DocumentOK, NothingLost,
                Returned, Failures, Excepted, Cap
<1> QED
  BY <1>1, <1>2, <1>3, OverviewKeeps, CollStatsKeeps, OperationsKeeps, SlowlogKeeps,
     DoctorKeeps, CapacityKeeps, HotspotKeeps, IndexAuditKeeps
  DEF Next, Carried

LEMMA DiagAlways == Spec => []DiagInv
<1> QED
  BY DiagInit, DiagNext, PTL DEF Spec

(* The variables of a call have their types; a call that has returned has    *)
(* nothing under way, and without a result its error says that there is none.*)
THEOREM DiagnosticsTypeCorrect == Spec => []DiagnosticsTypeOK
<1>1. DiagInv => DiagnosticsTypeOK
  BY DEF DiagInv, CallOK, CollectedOK, DiagnosticsTypeOK, Returned, AllAnswers
<1> QED
  BY <1>1, DiagAlways, PTL

(* Whatever requests fail, are refused or are cut off by the end of the      *)
(* context, in whatever order, in whichever capability: a call that met a    *)
(* failure returns an error (but for the two places in Hidden).              *)
THEOREM NoFailureLost == Spec => []NothingLost
<1>1. DiagInv => NothingLost
  BY DEF DiagInv
<1> QED
  BY <1>1, DiagAlways, PTL

-----------------------------------------------------------------------------
(* Whose operations CurrentOperations has listed: it asks one question after *)
(* another, and about one's own only if it was asked for them or was denied. *)
Ways == {"aggregation", "command"}
Denied == \E way \in Ways : <<<<way, "all">>, "unauthorized">> \in heard
Justified(who) == who = "own" /\ call.of.allUsers => Denied

AskedOneByOne ==
    /\ todo # {} => Of("operations") = {} /\ \E j : todo = {j}
    /\ \A way \in Ways, who \in {"all", "own"} : <<way, who>> \in todo => Justified(who)
    /\ Of("operations") # {} =>
          \E who \in {"all", "own"} :
             /\ Of("operations") = {<<"operations", Visibility(who)>>}
             /\ \E way \in Ways : Ok(<<way, who>>)
             /\ Justified(who)

VisibilityOK == call.at # "idle" /\ Cap = "operations" => AskedOneByOne

(* No question is under way, and nothing was kept.                           *)
LEMMA NothingAsked ==
  ASSUME AskedOneByOne, kept' = kept, todo' = {}, heard \subseteq heard',
         call'.of = call.of
  PROVE  AskedOneByOne'
BY DEF AskedOneByOne, Of, Justified, Denied, Ok

LEMMA OneQuestion ==
  ASSUME AskedOneByOne, todo # {}, kept' = kept, heard \subseteq heard',
         call'.of = call.of, NEW j, todo' = {j},
         \A way \in Ways, who \in {"all", "own"} : j = <<way, who>> => Justified(who)'
  PROVE  AskedOneByOne'
<1>1. Of("operations")' = {}
  BY DEF AskedOneByOne, Of
<1> QED
  BY <1>1 DEF AskedOneByOne

LEMMA OperationsAsked ==
  ASSUME DiagInv, AskedOneByOne, OperationsNext
  PROVE  AskedOneByOne'
<1>0. call.at = "running" /\ call = [at |-> call.at, of |-> call.of, on |-> call.on,
                                     res |-> call.res, err |-> call.err]
  BY DEF OperationsNext, OperationsDetect, Running, DiagInv, CallOK
<1>1. ASSUME NEW res, NEW err, Return(res, err) PROVE call'.of = call.of
  BY <1>0, <1>1 DEF Return
<1>2. ASSUME NEW j, NEW a, Abort(j, a) PROVE AskedOneByOne'
  BY <1>1, <1>2, NothingAsked DEF Abort, Hear
<1>3. ASSUME NEW res, NEW err, Finish(res, err) PROVE AskedOneByOne'
  BY <1>1, <1>3, NothingAsked DEF Finish
<1>4. ASSUME NEW j, NEW a, NEW k, NEW stat, NEW err, Collect(j, a, {k}, stat, err, {}),
             \A way \in Ways, who \in {"all", "own"} : k = <<way, who>> => Justified(who)'
      PROVE  AskedOneByOne'
  <2>1. /\ j \in todo /\ todo' = (todo \ {j}) \cup {k} /\ kept' = kept /\ call' = call
        /\ heard \subseteq heard'
    BY <1>4 DEF Collect, Hear, Proceed
  <2>2. todo' = {k}
    BY <2>1 DEF AskedOneByOne
  <2> QED
    BY <1>4, <2>1, <2>2, OneQuestion
<1>5. \A who : \E k : Ask(who) = {k} /\ \E way \in Ways : k = <<way, who>>
  BY DEF Ask, Ways
<1>6. CASE OperationsDetect
  <2> DEFINE who == IF call.of.allUsers THEN "all" ELSE "own"
  <2>1. CASE \E j \in {TheTopology, TheShards}, a \in Answers : Abort(j, a)
    BY <1>2, <2>1
  <2>2. CASE Collect(TheTopology, "ok", {TheShards}, {}, {}, {})
    <3>1. \A way \in Ways, w \in {"all", "own"} : TheShards # <<way, w>>
      BY DEF TheShards, Ways
    <3> QED
      BY <1>4, <2>2, <3>1
  <2>3. CASE /\ Hear(Entrance(TRUE), "ok")
             /\ Return("result", "none")
             /\ todo' = {} /\ UNCHANGED <<errs, kept, stopped>>
    BY <1>1, <2>3, NothingAsked DEF Hear
  <2>4. CASE Collect(Entrance(TRUE), "ok", Ask(who), {}, {}, {})
    <3>1. PICK k : Ask(who) = {k} /\ \E way \in Ways : k = <<way, who>>
      BY <1>5
    <3>2. call' = call
      BY <2>4 DEF Collect, Proceed
    <3>3. \A way \in Ways, w \in {"all", "own"} : k = <<way, w>> => Justified(w)'
      BY <3>1, <3>2 DEF Justified
    <3> HIDE DEF who
    <3>4. Collect(Entrance(TRUE), "ok", {k}, {}, {}, {})
      BY <2>4, <3>1
    <3> QED
      BY <1>4, <3>3, <3>4
  <2> QED
    BY <1>6, <2>1, <2>2, <2>3, <2>4 DEF OperationsDetect, Detect
<1>7. ASSUME NEW way \in {"aggregation", "command"}, NEW who \in {"all", "own"},
             OperationsAsk(way, who)
      PROVE  AskedOneByOne'
  <2> DEFINE j == <<way, who>>
             next(a) == IF a = "unsupported" THEN {<<"command", who>>} ELSE Ask("own")
             keep == {<<"operations", Visibility(who)>>}
             again == {<<"unsupported", "aggregation", w>> : w \in {"all", "own"}}
                      \cup {<<"unauthorized", w, "all">> : w \in {"aggregation", "command"}}
  <2>1. CASE FirstAsked /\ Abort(j, "refused")
    BY <1>2, <2>1
  <2>2. ASSUME NEW a \in Excusable, <<a, way, who>> \in again,
               Collect(j, a, next(a), {}, {}, {})
        PROVE  AskedOneByOne'
    <3>1. j \in todo /\ heard' = heard \cup {<<j, a>>} /\ call' = call
      BY <2>2 DEF Collect, Hear, Proceed
    <3>2. Justified(who)
      BY <3>1 DEF AskedOneByOne, Ways
    <3>3. CASE a = "unsupported"
      <4>1. Justified(who)'
        BY <3>1, <3>2 DEF Justified, Denied
      <4>2. \A w \in Ways, v \in {"all", "own"} :
               <<"command", who>> = <<w, v>> => Justified(v)'
        BY <4>1
      <4>3. Collect(j, a, {<<"command", who>>}, {}, {}, {})
        BY <2>2, <3>3
      <4> HIDE DEF j
      <4> QED
        BY <1>4, <4>2, <4>3
    <3>4. CASE a = "unauthorized"
      <4>1. who = "all"
        BY <2>2, <3>4
      <4>2. Justified("own")' /\ Justified("all")'
        BY <3>1, <3>4, <4>1 DEF Justified, Denied, Ways
      <4>3. PICK k : Ask("own") = {k}
        BY <1>5
      <4>4. \A w \in Ways, v \in {"all", "own"} : k = <<w, v>> => Justified(v)'
        BY <4>2
      <4>5. next(a) = {k}
        BY <3>4, <4>3
      <4> HIDE DEF j, next
      <4>6. Collect(j, a, {k}, {}, {}, {})
        BY <2>2, <4>5
      <4> QED
        BY <1>4, <4>4, <4>6
    <3> QED
      BY <3>3, <3>4 DEF Excusable
  <2>3. ASSUME NEW a \in Answers,
               Record("current_operations", j, a, {"unauthorized"}, {}, keep)
        PROVE  AskedOneByOne'
    <3>1. /\ j \in todo /\ todo' = todo \ {j} /\ call' = call
          /\ kept' = kept \cup When(a = "ok", keep) /\ heard' = heard \cup {<<j, a>>}
      BY <2>3 DEF Record, Collect, Hear, Proceed, When
    <3>2. Justified(who) /\ todo' = {} /\ Of("operations") = {}
      BY <3>1 DEF AskedOneByOne, Ways
    <3>3. Justified(who)'
      BY <3>1, <3>2 DEF Justified, Denied
    <3>4. CASE a = "ok"
      <4>1. Of("operations")' = keep
        BY <3>1, <3>2, <3>4 DEF Of, When
      <4>2. Ok(<<way, who>>)'
        BY <3>1, <3>4 DEF Ok
      <4> QED
        BY <3>2, <3>3, <4>1, <4>2 DEF AskedOneByOne, Ways
    <3>5. CASE a # "ok"
      <4>1. Of("operations")' = {}
        BY <3>1, <3>2, <3>5 DEF Of, When
      <4> QED
        BY <3>2, <4>1 DEF AskedOneByOne
    <3> QED
      BY <3>4, <3>5
  <2> QED
    BY <1>7, <2>1, <2>2, <2>3 DEF OperationsAsk
<1> QED
  BY <1>3, <1>6, <1>7 DEF OperationsNext

LEMMA OthersNotAsked ==
  ASSUME OverviewNext \/ CollStatsNext \/ SlowlogNext \/ DoctorNext \/ CapacityNext
            \/ HotspotNext \/ IndexAuditNext
  PROVE  Cap # "operations"
<1>1. OverviewNext \/ CollStatsNext \/ SlowlogNext => Cap # "operations"
  BY DEF OverviewNext, OverviewDetect, CollStatsNext, CollStatsBegin, SlowlogNext,
         SlowlogDetect, SlowlogBreak, SlowlogReturn, DetailLocate, DetailAgain, DetailReturn,
         Running, Cap
<1>2. DoctorNext \/ CapacityNext => Cap # "operations"
  BY DEF DoctorNext, DoctorDetect, DoctorBreak, DoctorReturn, CapacityNext, CapacityDetect,
         CapacityReturn, Running, Cap
<1>3. HotspotNext \/ IndexAuditNext => Cap # "operations"
  BY DEF HotspotNext, HotspotDetect, HotspotReturn, IndexAuditNext, IndexAuditDetect,
         IndexAuditReturn, Running, Cap
<1> QED
  BY <1>1, <1>2, <1>3

LEMMA VisibilityNext == DiagInv /\ VisibilityOK /\ [Next]_vars => VisibilityOK'
<1> SUFFICES ASSUME DiagInv, VisibilityOK, [Next]_vars PROVE VisibilityOK'
  OBVIOUS
<1>1. ASSUME UNCHANGED <<call, todo, heard, kept>> PROVE VisibilityOK'
  BY <1>1 DEF VisibilityOK, AskedOneByOne, Justified, Denied, Of, Ok, Cap
<1>2. ASSUME NEW c \in Calls, Begin(c) PROVE VisibilityOK'
  <2>1. todo' = {TheTopology} /\ kept' = {}
    BY <1>2 DEF Begin, DiagInv
  <2>2. \A way \in Ways, who \in {"all", "own"} : TheTopology # <<way, who>>
    BY DEF TheTopology, Ways
  <2> QED
    BY <2>1, <2>2 DEF VisibilityOK, AskedOneByOne, Of
<1>3. CASE OperationsNext
  <2>1. call.at # "idle" /\ Cap = "operations"
    BY <1>3 DEF OperationsNext, OperationsDetect, Running, Cap
  <2> QED
    BY <1>3, <2>1, OperationsAsked DEF VisibilityOK
<1>4. CASE OverviewNext \/ CollStatsNext \/ SlowlogNext \/ DoctorNext \/ CapacityNext
             \/ HotspotNext \/ IndexAuditNext
  <2>1. Carried
    BY <1>4, OverviewKeeps, CollStatsKeeps, SlowlogKeeps, DoctorKeeps, CapacityKeeps,
       HotspotKeeps, IndexAuditKeeps
  <2> QED
    BY <1>4, <2>1, OthersNotAsked DEF Carried, VisibilityOK
<1> QED
  BY <1>1, <1>2, <1>3, <1>4 DEF Next, Stop, vars

(* Whichever of its four questions is answered, CurrentOperations says whose *)
(* operations it has listed, and settles for one's own only where it was     *)
(* asked to, or was denied all users'.                                       *)
THEOREM VisibilityTold == Spec => []VisibilityHonest
<1>1. Init => VisibilityOK
  BY DEF Init, VisibilityOK
<1>2. VisibilityOK => VisibilityHonest
  BY DEF VisibilityOK, AskedOneByOne, VisibilityHonest, Visibility, Returned, Justified,
         Denied, Ways
<1> QED
  BY <1>1, <1>2, DiagAlways, VisibilityNext, PTL DEF Spec

-----------------------------------------------------------------------------
(***************************************************************************)
(* The readings of a node that Hotspot compares follow one another: while  *)
(* the first may still be read, none of the second round is asked for.     *)
(***************************************************************************)
Early(j) == j[1] \in Entry \/ j = Round(1) \/ (j[1] = "read" /\ j[2] = 1)
Late(x) == x[1] \in {"read", "reading"} /\ x[2] = 2

SampleOK ==
    /\ (\E j \in todo : Early(j)) => \A x \in todo \cup kept : ~Late(x)
    /\ \A j \in todo : j[1] = "read" => \E r \in {1, 2}, m \in Targets : j = <<"read", r, m>>
    /\ Round(2) \in todo => Round(1) \notin todo
    /\ \A x \in Of("reading") : x[4] \in Readings
    /\ \A x, y \in Of("reading") :
          x[2] = 1 /\ y[2] = 2 /\ x[3] = y[3] => Follows(x[4], y[4])

SamplesOK == call.at # "idle" /\ Cap = "hotspot" => SampleOK

LEMMA SampleKept ==
  ASSUME SampleOK, kept \subseteq kept', \A x \in kept' \ kept : x[1] # "reading",
         \A x \in (kept' \ kept) \cup (todo' \ todo) : x[1] \notin {"read", "reading", "round"} \cup Entry
  PROVE  SampleOK'
<1>1. Of("reading")' = Of("reading") /\ Targets \subseteq Targets'
  BY DEF Of, Targets
<1>2. \A j \in todo' : Early(j) => j \in todo
  BY DEF Early, Round
<1>3. \A x \in todo' \cup kept' : Late(x) => x \in todo \cup kept
  BY DEF Late
<1>4. \A j \in todo' : j[1] \in {"read", "round"} => j \in todo
  OBVIOUS
<1>5. Round(1)[1] = "round" /\ Round(2)[1] = "round"
  BY DEF Round
<1>6. Round(2) \in todo' => Round(1) \notin todo'
  BY <1>4, <1>5 DEF SampleOK
<1>7. \A j \in todo' : j[1] = "read" => \E r \in {1, 2}, m \in Targets' : j = <<"read", r, m>>
  BY <1>1, <1>4 DEF SampleOK
<1> QED
  BY <1>1, <1>2, <1>3, <1>6, <1>7 DEF SampleOK

(* What the entrance does: it has the call alone, and keeps nothing.         *)
LEMMA AtTheEntrance ==
  ASSUME DiagInv, call.at = "running", NEW whole, NEW gate, NEW next,
         Detect(whole, gate, next)
  PROVE  /\ \E j \in todo : j[1] \in Entry /\ todo = {j}
         /\ kept' = kept /\ errs' = errs /\ todo' \subseteq next \cup {TheShards}
<1>1. TheTopology[1] \in Entry /\ TheShards[1] \in Entry /\ Entrance(whole) \in {TheTopology, TheShards}
  BY DEF TheTopology, TheShards, Entry, Entrance
<1>2. ASSUME NEW j \in todo, j \in {TheTopology, TheShards}
      PROVE  j[1] \in Entry /\ todo = {j}
  BY <1>1, <1>2 DEF DiagInv, EntranceOK
<1>3. CASE \E j \in {TheTopology, TheShards}, a \in Answers : Abort(j, a)
  BY <1>2, <1>3 DEF Abort, Hear
<1>4. CASE Collect(TheTopology, "ok", {TheShards}, {}, {}, {})
  BY <1>2, <1>4 DEF Collect, Hear, Proceed
<1>5. CASE /\ Hear(Entrance(whole), "ok")
           /\ todo' = {} /\ UNCHANGED <<errs, kept, stopped>>
  BY <1>1, <1>2, <1>5 DEF Hear
<1>6. CASE Collect(Entrance(whole), "ok", next, {}, {}, {})
  BY <1>1, <1>2, <1>6 DEF Collect, Hear, Proceed
<1> QED
  BY <1>3, <1>4, <1>5, <1>6 DEF Detect

LEMMA SampleNext ==
  ASSUME DiagInv, SampleOK, HotspotNext
  PROVE  SampleOK'
<1>0. call.at = "running"
  BY DEF HotspotNext, HotspotDetect, HotspotReturn, Running
<1>1. ASSUME NEW jobs, NEW loop, BreakOff(jobs, loop) PROVE SampleOK'
  BY <1>1, SampleKept DEF BreakOff
<1>2. CASE HotspotDetect
  <2>1. PICK j \in todo : /\ j[1] \in Entry /\ todo = {j} /\ kept' = kept
                          /\ todo' \subseteq Discovery \cup {Round(1)} \cup {TheShards}
    BY <1>0, <1>2, AtTheEntrance DEF HotspotDetect
  <2>2. kept' = kept /\ \A x \in kept : ~Late(x)
    BY <2>1 DEF SampleOK, Early
  <2>3. \A x \in todo' : x[1] \in {"shards", "targets"} \/ x = Round(1)
    BY <2>1 DEF Discovery, TheShards
  <2>4. Of("reading")' = Of("reading") /\ Round(2) \notin todo'
    BY <2>2, <2>3 DEF Of, Round
  <2>5. \A x \in todo' : ~Late(x) /\ x[1] # "read"
    BY <2>3 DEF Late, Round
  <2> QED
    BY <2>2, <2>4, <2>5 DEF SampleOK
<1>3. CASE HotspotFirst
  <2>1. Round(1) \in todo /\ Early(Round(1)) /\ Round(2) # Round(1) /\ kept' = kept
        /\ todo' \subseteq (todo \ {Round(1)}) \cup ReadJobs(1) \cup {Round(2)}
    BY <1>3 DEF HotspotFirst, GoOn, Proceed, Early, Round, When
  <2>2. \A x \in todo \cup kept : ~Late(x)
    BY <2>1 DEF SampleOK
  <2>3. \A x \in ReadJobs(1) \cup {Round(2)} : ~Late(x) /\ x # Round(1)
    BY DEF ReadJobs, Late, Round
  <2>4. \A x \in todo' \cup kept' : ~Late(x)
    BY <2>1, <2>2, <2>3
  <2>5. \A j \in todo' : j[1] = "read" => \E r \in {1, 2}, m \in Targets : j = <<"read", r, m>>
    BY <2>1 DEF SampleOK, ReadJobs, Round
  <2>6. Round(1) \notin todo' /\ Targets' = Targets /\ Of("reading")' = Of("reading")
    BY <2>1, <2>3 DEF Targets, Of
  <2> QED
    BY <2>4, <2>5, <2>6 DEF SampleOK
<1>4. CASE HotspotSecond
  <2>1. Round(2) \in todo /\ kept' = kept /\ todo \cap ReadJobs(1) = {}
        /\ todo' \subseteq (todo \ {Round(2)}) \cup ReadJobs(2)
    BY <1>4 DEF HotspotSecond, GoOn, Proceed, When
  <2>2. \A j \in todo : j[1] \notin Entry
    BY <1>0, <2>1 DEF DiagInv, EntranceOK, Round, Entry
  <2>3. \A j \in todo : ~(j[1] = "read" /\ j[2] = 1)
    BY <2>1 DEF SampleOK, ReadJobs
  <2>4. Round(1) \notin todo
    BY <2>1 DEF SampleOK
  <2>5. \A j \in todo : ~Early(j)
    BY <2>2, <2>3, <2>4 DEF Early
  <2>6. \A j \in todo' : j[1] = "read" => \E r \in {1, 2}, m \in Targets : j = <<"read", r, m>>
    BY <2>1 DEF SampleOK, ReadJobs
  <2>7. Targets' = Targets /\ Of("reading")' = Of("reading") /\ Round(2) \notin todo'
    BY <2>1 DEF Targets, Of, ReadJobs, Round
  <2>8. \A j \in ReadJobs(2) : ~Early(j)
    BY DEF Early, ReadJobs, Round, Entry
  <2>9. \A j \in todo' : ~Early(j)
    BY <2>1, <2>5, <2>8
  <2> QED
    BY <2>6, <2>7, <2>9 DEF SampleOK
<1>5. ASSUME NEW s, DiscoverTargets(s) PROVE SampleOK'
  <2>1. /\ todo' \subseteq todo /\ kept \subseteq kept'
        /\ \A x \in kept' \ kept : x[1] = "target"
    BY <1>5 DEF DiscoverTargets, Record, Collect, Proceed, When
  <2> QED
    BY <2>1, SampleKept DEF Entry
<1>6. ASSUME NEW r \in {1, 2}, NEW m, HotspotRead(r, m) PROVE SampleOK'
  <2> DEFINE j == <<"read", r, m>>
  <2>1. CASE \E a \in Answers \ {"ok"} : RecordIfAsked("hotspot_snapshot", j, a, {}, {}, {})
    <3>1. todo' \subseteq todo /\ kept' = kept
      BY <2>1 DEF RecordIfAsked, Refused, Record, Collect, Proceed, When
    <3> QED
      BY <3>1, SampleKept
  <2>2. ASSUME NEW a, NEW y \in Readings,
               \A x \in ReadSoFar(r, m) : Follows(x, y),
               Record("hotspot_snapshot", j, a, Excusable, {}, {<<"reading", r, m, y>>})
        PROVE  SampleOK'
    <3> DEFINE k == <<"reading", r, m, y>>
    <3>1. /\ j \in todo /\ todo' = todo \ {j} /\ kept \subseteq kept'
          /\ kept' \subseteq kept \cup {k}
      BY <2>2 DEF Record, Collect, Proceed, When
    <3>2. CASE r = 1
      <4>1. Early(j) /\ ~Late(k)
        BY <3>2 DEF Early, Late
      <4>2. \A x \in todo' \cup kept' : ~Late(x)
        BY <3>1, <4>1 DEF SampleOK
      <4>3. \A x \in Of("reading")' : x[2] # 2
        BY <4>2 DEF Of, Late
      <4>4. \A x \in Of("reading")' : x[4] \in Readings
        BY <3>1 DEF SampleOK, Of
      <4>5. Targets \subseteq Targets'
        BY <3>1 DEF Targets, Of
      <4>6. /\ \A i \in todo' : i[1] = "read" => \E q \in {1, 2}, n \in Targets' : i = <<"read", q, n>>
            /\ Round(2) \in todo' => Round(1) \notin todo'
        BY <3>1, <4>5 DEF SampleOK
      <4> QED
        BY <4>2, <4>3, <4>4, <4>6 DEF SampleOK
    <3>3. CASE r = 2
      <4>1. Late(j)
        BY <3>3 DEF Late
      <4>2. \A i \in todo' : ~Early(i)
        BY <3>1, <4>1 DEF SampleOK
      <4>3. \A x \in Of("reading")' : x[4] \in Readings
        BY <3>1 DEF SampleOK, Of
      <4>4. ASSUME NEW x \in Of("reading"), x[2] = 1, x[3] = m PROVE Follows(x[4], y)
        <5>1. x[4] \in Read(1, m)
          BY <4>4 DEF Read
        <5>2. 1 \in 1 .. r
          BY <3>3
        <5>3. x[4] \in ReadSoFar(r, m)
          BY <5>1, <5>2 DEF ReadSoFar
        <5> QED
          BY <2>2, <5>3
      <4>5. ASSUME NEW x \in Of("reading")', NEW z \in Of("reading")',
                   x[2] = 1, z[2] = 2, x[3] = z[3]
            PROVE  Follows(x[4], z[4])
        <5>1. x \in Of("reading")
          BY <3>1, <3>3, <4>5 DEF Of
        <5>2. z \in Of("reading") \/ (z[3] = m /\ z[4] = y)
          BY <3>1, <4>5 DEF Of
        <5> QED
          BY <4>4, <4>5, <5>1, <5>2 DEF SampleOK
      <4>6. Targets \subseteq Targets'
        BY <3>1 DEF Targets, Of
      <4>7. /\ \A i \in todo' : i[1] = "read" => \E q \in {1, 2}, n \in Targets' : i = <<"read", q, n>>
            /\ Round(2) \in todo' => Round(1) \notin todo'
        BY <3>1, <4>6 DEF SampleOK
      <4> QED
        BY <4>2, <4>3, <4>5, <4>7 DEF SampleOK
    <3> QED
      BY <3>2, <3>3
  <2> QED
    BY <1>6, <2>1, <2>2 DEF HotspotRead
<1>7. ASSUME todo' = {}, kept' = kept PROVE SampleOK'
  BY <1>7, SampleKept
<1>8. CASE HotspotCancelledWait \/ HotspotReturn
  BY <1>7, <1>8 DEF HotspotCancelledWait, HotspotReturn
<1> QED
  BY <1>1, <1>2, <1>3, <1>4, <1>5, <1>6, <1>8
  DEF HotspotNext, DiscoveryBreak, HotspotUndispatched

(* A job that is answered is gone; nothing that was collected is lost.       *)
Takes(j) ==
    /\ j \in todo /\ call' = call /\ stopped' = stopped
    /\ todo \ todo' \subseteq {j}
    /\ heard \subseteq heard' /\ statuses \subseteq statuses'
    /\ errs \subseteq errs' /\ kept \subseteq kept'
IsAsked(j, H) == \E h \in H : h[1] = j

LEMMA CollectTakes ==
  ASSUME NEW j, NEW a, NEW next, NEW stat, NEW err, NEW keep,
         Collect(j, a, next, stat, err, keep)
  PROVE  Takes(j) /\ IsAsked(j, heard')
<1>1. <<j, a>> \in heard'
  BY DEF Collect, Hear
<1> QED
  BY <1>1 DEF Collect, Hear, Proceed, Takes, IsAsked

LEMMA RecordTakes ==
  ASSUME NEW name, NEW j, NEW a, NEW excused, NEW next, NEW keep,
         Record(name, j, a, excused, next, keep) \/ RecordIfAsked(name, j, a, excused, next, keep)
  PROVE  Takes(j) /\ IsAsked(j, heard')
BY CollectTakes DEF Record, RecordIfAsked, Refused

(* Which capability a step is of.                                            *)
LEMMA WhoseStep ==
  /\ OverviewNext => Cap = "overview"
  /\ CollStatsNext => Cap = "collstats"
  /\ OperationsNext => Cap = "operations"
  /\ SlowlogNext => Cap = "slowlog"
  /\ DoctorNext => Cap = "doctor"
  /\ CapacityNext => Cap = "capacity"
  /\ HotspotNext => Cap = "hotspot"
  /\ IndexAuditNext => Cap = "indexaudit"
<1>1. /\ OverviewNext => Cap = "overview"
      /\ CollStatsNext => Cap = "collstats"
      /\ OperationsNext => Cap = "operations"
  BY DEF OverviewNext, OverviewDetect, CollStatsNext, CollStatsBegin, OperationsNext,
         OperationsDetect, Running, Cap
<1>2. SlowlogNext => Cap = "slowlog"
  BY DEF SlowlogNext, SlowlogDetect, SlowlogBreak, SlowlogReturn, DetailLocate, DetailAgain,
         DetailReturn, Running, Cap
<1>3. DoctorNext => Cap = "doctor"
  BY DEF DoctorNext, DoctorDetect, DoctorBreak, DoctorReturn, Running, Cap
<1>4. /\ CapacityNext => Cap = "capacity"
      /\ HotspotNext => Cap = "hotspot"
      /\ IndexAuditNext => Cap = "indexaudit"
  BY DEF CapacityNext, CapacityDetect, CapacityReturn, HotspotNext, HotspotDetect,
         HotspotReturn, IndexAuditNext, IndexAuditDetect, IndexAuditReturn, Running, Cap
<1> QED
  BY <1>1, <1>2, <1>3, <1>4

(* A step within a call is of the capability that is called.                 *)
LEMMA CallSteps ==
  ASSUME DiagInv, [Next]_vars
  PROVE  \/ UNCHANGED <<call, todo, heard, statuses, errs, kept>>
         \/ /\ call'.at = "running" /\ kept' = {} /\ todo' = {TheTopology}
         \/ Carried /\ Cap = "overview" /\ OverviewNext
         \/ Carried /\ Cap = "collstats" /\ CollStatsNext
         \/ Carried /\ Cap = "operations" /\ OperationsNext
         \/ Carried /\ Cap = "slowlog" /\ SlowlogNext
         \/ Carried /\ Cap = "doctor" /\ DoctorNext
         \/ Carried /\ Cap = "capacity" /\ CapacityNext
         \/ Carried /\ Cap = "hotspot" /\ HotspotNext
         \/ Carried /\ Cap = "indexaudit" /\ IndexAuditNext
<1>1. CASE \E c \in Calls : Begin(c)
  <2>1. call'.at = "running" /\ todo' = {TheTopology} /\ kept' = {}
    BY <1>1 DEF Begin, DiagInv
  <2> QED
    BY <2>1
<1>2. CASE Stop
  BY <1>2 DEF Stop
<1>3. CASE UNCHANGED vars
  BY <1>3 DEF vars
<1> QED
  BY <1>1, <1>2, <1>3, WhoseStep, OverviewKeeps, CollStatsKeeps, OperationsKeeps, SlowlogKeeps,
     DoctorKeeps, CapacityKeeps, HotspotKeeps, IndexAuditKeeps
  DEF Next

LEMMA SamplesNext == DiagInv /\ SamplesOK /\ [Next]_vars => SamplesOK'
<1> SUFFICES ASSUME DiagInv, SamplesOK, [Next]_vars PROVE SamplesOK'
  OBVIOUS
<1>1. CASE UNCHANGED <<call, todo, heard, statuses, errs, kept>>
  BY <1>1 DEF SamplesOK, SampleOK, Of, Targets, Cap
<1>2. CASE kept' = {} /\ todo' = {TheTopology}
  BY <1>2 DEF SamplesOK, SampleOK, Late, Of, TheTopology, Round
<1>3. CASE Carried /\ Cap = "hotspot" /\ HotspotNext
  <2>1. call.at # "idle"
    BY <1>3 DEF HotspotNext, HotspotDetect, HotspotReturn, Running
  <2> QED
    BY <1>3, <2>1, SampleNext DEF SamplesOK
<1>4. CASE Carried /\ Cap # "hotspot"
  BY <1>4 DEF Carried, SamplesOK
<1> QED
  BY <1>1, <1>2, <1>3, <1>4, CallSteps

(* Hotspot computes no negative rate, and none across a restart that the     *)
(* uptime shows (hotspot.go:399), whenever nodes restart or fail, and        *)
(* whatever they count.                                                      *)
THEOREM NoRateOfTwoLives == Spec => []NoRateAcrossRestart
<1>1. Init => SamplesOK
  BY DEF Init, SamplesOK
<1>2. SamplesOK => NoRateAcrossRestart
  <2> SUFFICES ASSUME SampleOK, NEW m \in Rated
               PROVE  /\ \/ First(m).life = Second(m).life \/ First(m).uptime <= Window
                         \/ ~(First(m).reported /\ Second(m).reported)
                      /\ \A n \in DOMAIN Second(m).counters : Delta(m, n) >= 0
    BY DEF SamplesOK, NoRateAcrossRestart, Returned
  <2> DEFINE x == First(m)
             y == Second(m)
  <2>1. x \in Read(1, m) /\ y \in Read(2, m) /\ ~CounterReset(x, y)
    BY DEF Rated, Both, ReadNodes, First, Second
  <2>2. x \in Readings /\ y \in Readings /\ Follows(x, y)
    BY <2>1 DEF Read, SampleOK
  <2> HIDE DEF x, y
  <2>3. /\ x.uptime \in Nat /\ y.uptime \in Nat /\ Window \in Nat
        /\ \A n \in DOMAIN x.counters : x.counters[n] \in Nat
        /\ \A n \in DOMAIN y.counters : y.counters[n] \in Nat
    BY <2>2, HotspotAssumption
  <2>4. x.life = y.life \/ x.uptime <= Window \/ ~(x.reported /\ y.reported)
    <3>1. x.reported /\ y.reported => ~(y.uptime < x.uptime)
      BY <2>1 DEF CounterReset
    <3>2. x.life # y.life => y.uptime <= Window
      BY <2>2 DEF Follows
    <3> QED
      BY <2>3, <3>1, <3>2
  <2>5. \A n \in DOMAIN x.counters \cap DOMAIN y.counters : ~(y.counters[n] < x.counters[n])
    BY <2>1 DEF CounterReset, Fell
  <2>6. \A n \in DOMAIN y.counters :
           (IF n \in DOMAIN x.counters \cap DOMAIN y.counters
            THEN y.counters[n] - x.counters[n] ELSE 0) >= 0
    BY <2>3, <2>5
  <2> QED
    BY <2>4, <2>6 DEF Delta, x, y
<1> QED
  BY <1>1, <1>2, DiagAlways, SamplesNext, PTL DEF Spec

-----------------------------------------------------------------------------
(***************************************************************************)
(* What a snapshot of Capacity lacks is explained: a collection that was   *)
(* asked for is in it, or could not be read.                               *)
(***************************************************************************)
ExcusedStatus(r) ==
    \E x \in statuses : x.of = <<"capacity", r[1], r[2]>> /\ x.state \in Excusable
ToBeListed == \E j \in todo : j[1] \in Entry \cup {"collections"}
CollectionSeen(r) ==
    \/ <<"capacity", r[1], r[2]>> \in todo
    \/ <<"collection", r[1], r[2]>> \in kept
    \/ ExcusedStatus(r)
DatabaseSeen(d) == <<"database", d>> \in todo \cup kept

SnapshotSoFar ==
    \/ ToBeListed \/ errs # {}
    \/ (\A r \in Selected : CollectionSeen(r)) /\ (\A r \in Selected : DatabaseSeen(r[1]))
SnapshotExplained ==
    \A r \in Selected : r \in Snapshot \/ call.err # "none" \/ ExcusedStatus(r)

SnapshotOK ==
    call.at # "idle" /\ Cap = "capacity" =>
        /\ call.at = "running" => SnapshotSoFar
        /\ call.at = "returned" /\ call.res = "result" /\ Wire >= 5 => SnapshotExplained

(* Jobs that a snapshot does not wait for.                                   *)
LEMMA SnapshotKept ==
  ASSUME SnapshotSoFar, call' = call, errs \subseteq errs', kept \subseteq kept',
         statuses \subseteq statuses',
         errs' # {} \/ \A j \in todo \ todo' : j[1] \in {"primary", "free", "detail", "filesystem"}
  PROVE  SnapshotSoFar'
<1>1. CASE errs' # {}
  BY <1>1 DEF SnapshotSoFar
<1>2. CASE errs' = {} /\ \A j \in todo \ todo' : j[1] \in {"primary", "free", "detail", "filesystem"}
  <2>1. ToBeListed => ToBeListed'
    BY <1>2 DEF ToBeListed, Entry
  <2>2. \A r : ExcusedStatus(r) => ExcusedStatus(r)'
    BY DEF ExcusedStatus
  <2>3. \A r : CollectionSeen(r) => CollectionSeen(r)'
    BY <1>2, <2>2 DEF CollectionSeen
  <2>4. \A d : DatabaseSeen(d) => DatabaseSeen(d)'
    BY <1>2 DEF DatabaseSeen
  <2> QED
    BY <1>2, <2>1, <2>3, <2>4 DEF SnapshotSoFar
<1> QED
  BY <1>1, <1>2

LEMMA SnapshotStep ==
  ASSUME DiagInv, SnapshotOK, CapacityNext
  PROVE  SnapshotOK'
<1>0. /\ call.at = "running" /\ Cap = "capacity" /\ SnapshotSoFar
      /\ call = [at |-> call.at, of |-> call.of, on |-> call.on,
                 res |-> call.res, err |-> call.err]
      /\ call.on \in Deployments
  BY DEF CapacityNext, CapacityDetect, CapacityReturn, Running, DiagInv, CallOK, SnapshotOK, Cap
<1>1. ASSUME SnapshotSoFar', call'.at = "running" PROVE SnapshotOK'
  BY <1>1 DEF SnapshotOK
<1>2. ASSUME call' = call, errs \subseteq errs', kept \subseteq kept', statuses \subseteq statuses',
             errs' # {} \/ \A j \in todo \ todo' : j[1] \in {"primary", "free", "detail", "filesystem"}
      PROVE  SnapshotOK'
  BY <1>0, <1>1, <1>2, SnapshotKept
<1>2a. ASSUME NEW j, Takes(j), j[1] \in {"primary", "free", "detail", "filesystem"}
       PROVE  SnapshotOK'
  BY <1>2, <1>2a DEF Takes
<1>3. ASSUME NEW jobs, NEW loop, BreakOff(jobs, loop) PROVE SnapshotOK'
  BY <1>2, <1>3 DEF BreakOff
<1>4. ASSUME NEW res, NEW err, Return(res, err),
             res = "none" \/ ~(Wire >= 5)
      PROVE  SnapshotOK'
  BY <1>0, <1>4 DEF Return, SnapshotOK, Wire
<1>5. ASSUME NEW j, NEW a, Abort(j, a) PROVE SnapshotOK'
  BY <1>4, <1>5 DEF Abort
<1>6. CASE CapacityDetect
  <2> DEFINE next == {TheCollections} \cup When(Sharded, {<<"primary", s>> : s \in Sets})
             door == Entrance(TRUE)
  <2>1. ASSUME NEW j, NEW more, Collect(j, "ok", more, {}, {}, {}),
               TheShards \in more \/ TheCollections \in more
        PROVE  SnapshotOK'
    <3>1. call' = call /\ more \subseteq todo'
      BY <2>1 DEF Collect, Proceed
    <3>2. ToBeListed'
      BY <2>1, <3>1 DEF ToBeListed, TheShards, TheCollections, Entry
    <3> QED
      BY <1>0, <1>1, <3>1, <3>2 DEF SnapshotSoFar
  <2>2. CASE Gate("collection_capacity", TRUE) = "unsupported" /\ Return("result", "none")
    <3>1. Wire < 5 /\ Wire \in Nat
      BY <1>0, <2>2, DeploymentsAssumption DEF Gate, MinimumWireVersion, ExpensiveOptIn, Wire
    <3>2. ~(Wire >= 5)
      BY <3>1
    <3> QED
      BY <1>4, <2>2, <3>2
  <2>3. TheCollections \in next
    OBVIOUS
  <2> HIDE DEF next, door
  <2>4. CASE Collect(door, "ok", next, {}, {}, {})
    BY <2>1, <2>3, <2>4
  <2> QED
    BY <1>5, <1>6, <2>1, <2>2, <2>4 DEF CapacityDetect, Detect, next, door
<1>7. CASE CapacityCollections
  <2> DEFINE next == {<<"capacity", r[1], r[2]>> : r \in Selected} \cup DatabaseJobs
  <2>1. CASE Return("none", "plain")
    BY <1>4, <2>1
  <2>2. CASE Collect(TheCollections, "ok", next, {}, {}, {})
    <3>1. call' = call /\ next \subseteq todo'
      BY <2>2 DEF Collect, Proceed
    <3>2. (\A r \in Selected : CollectionSeen(r)') /\ (\A r \in Selected : DatabaseSeen(r[1])')
      BY <3>1 DEF CollectionSeen, DatabaseSeen, DatabaseJobs
    <3>3. Selected' = Selected
      BY DEF Selected
    <3> QED
      BY <1>0, <1>1, <3>1, <3>2, <3>3 DEF SnapshotSoFar
  <2> QED
    BY <1>5, <1>7, <2>1, <2>2 DEF CapacityCollections, ListCollections
<1>8. ASSUME NEW s, CapacityPrimary(s) PROVE SnapshotOK'
  <2>1. Takes(<<"primary", s>>)
    BY <1>8, CollectTakes, RecordTakes DEF CapacityPrimary
  <2> QED
    BY <1>2a, <2>1
<1>9. ASSUME NEW d, NEW c, CapacityCollection(d, c) PROVE SnapshotOK'
  <2> DEFINE j == <<"capacity", d, c>>
             next == When(FreeStorage = "supported", {<<"free", d, c>>})
                     \cup {<<"detail", d, c, s>> : s \in ShardPrimaries}
             keep == {<<"collection", d, c>>}
  <2>1. PICK a \in Answers : RecordIfAsked("collection_capacity", j, a, Excusable, next, keep)
    BY <1>9 DEF CapacityCollection
  <2> HIDE DEF next
  <2>2. /\ call' = call /\ errs \subseteq errs' /\ kept \subseteq kept'
        /\ statuses \subseteq statuses' /\ \A i \in todo \ todo' : i = j
    BY <2>1, RecordTakes DEF Takes
  <2>3. errs' # {} \/ a = "ok" \/ a \in Excusable
    <3>1. a \in {"ok", "failed", "refused"} \cup Excusable
      BY DEF Answers
    <3>2. <<j, a>> \in When(a \notin Excusable \cup {"ok", "none"}, {<<j, a>>}) \/ a \in Excusable \cup {"ok", "none"}
      BY DEF When
    <3>3. a = "refused" => <<j, a>> \in errs'
      BY <2>1 DEF RecordIfAsked, Refused, Collect, Proceed
    <3>4. a = "failed" => <<j, a>> \in errs'
      BY <2>1, <3>2 DEF RecordIfAsked, Record, Collect, Proceed, Excusable
    <3> QED
      BY <3>1, <3>3, <3>4
  <2>4. CASE errs' # {}
    BY <1>2, <2>2, <2>4
  <2>5. CASE a = "ok" \/ a \in Excusable
    <3>1. a = "ok" => <<"collection", d, c>> \in kept'
      BY <2>1 DEF RecordIfAsked, Record, Collect, Proceed, When
    <3>2. ASSUME a \in Excusable
          PROVE  \E x \in statuses' : x.of = j /\ x.state \in Excusable
      <4>1. Status("collection_capacity", j, a) \in statuses'
        BY <2>1, <3>2 DEF RecordIfAsked, Record, Collect, Proceed, Excusable
      <4>2. Status("collection_capacity", j, a).of = j /\ Status("collection_capacity", j, a).state = a
        BY <3>2 DEF Status, State, Excusable
      <4> QED
        BY <3>2, <4>1, <4>2
    <3>3. ToBeListed => ToBeListed'
      BY <2>2 DEF ToBeListed, Entry
    <3>4. \A r : CollectionSeen(r) => CollectionSeen(r)'
      BY <2>2, <2>5, <3>1, <3>2 DEF CollectionSeen, ExcusedStatus
    <3>5. \A e : DatabaseSeen(e) => DatabaseSeen(e)'
      BY <2>2 DEF DatabaseSeen
    <3>6. SnapshotSoFar'
      BY <1>0, <2>2, <3>3, <3>4, <3>5 DEF SnapshotSoFar, Selected
    <3> QED
      BY <1>0, <1>1, <2>2, <3>6
  <2> QED
    BY <2>3, <2>4, <2>5
<1>10. ASSUME NEW d, NEW c, CapacityFree(d, c) PROVE SnapshotOK'
  <2>1. Takes(<<"free", d, c>>)
    BY <1>10, CollectTakes, RecordTakes DEF CapacityFree
  <2> QED
    BY <1>2a, <2>1
<1>11. ASSUME NEW name, NEW j, NEW nothing, NEW keep, OnShard(name, j, nothing, keep),
              j[1] \in {"detail", "filesystem"}
       PROVE  SnapshotOK'
  <2>1. Takes(j)
    BY <1>11, RecordTakes DEF OnShard
  <2> QED
    BY <1>2a, <1>11, <2>1
<1>12. ASSUME NEW d, CapacityDatabase(d) PROVE SnapshotOK'
  <2>1. /\ call' = call /\ errs \subseteq errs' /\ kept \subseteq kept'
        /\ statuses \subseteq statuses' /\ todo \ todo' \subseteq {<<"database", d>>}
        /\ <<"database", d>> \in kept'
    BY <1>12 DEF CapacityDatabase, Collect, Proceed
  <2>2. ToBeListed => ToBeListed'
    BY <2>1 DEF ToBeListed, Entry
  <2>3. \A r : CollectionSeen(r) => CollectionSeen(r)'
    BY <2>1 DEF CollectionSeen, ExcusedStatus
  <2>4. \A e : DatabaseSeen(e) => DatabaseSeen(e)'
    BY <2>1 DEF DatabaseSeen
  <2>5. SnapshotSoFar'
    BY <1>0, <2>1, <2>2, <2>3, <2>4 DEF SnapshotSoFar, Selected
  <2> QED
    BY <1>0, <1>1, <2>1, <2>5
<1>13. ASSUME NEW d, CapacityDatabaseFree(d) PROVE SnapshotOK'
  <2>1. Takes(<<"free", d>>)
    BY <1>13, CollectTakes, RecordTakes DEF CapacityDatabaseFree
  <2> QED
    BY <1>2a, <2>1
<1>14. CASE CapacityReturn
  <2>1. /\ todo = {} /\ kept' = kept /\ statuses \subseteq statuses' /\ call'.at = "returned"
        /\ call'.err = "none" => errs = {}
    BY <1>0, <1>14 DEF CapacityReturn, Return
  <2>2. ASSUME errs = {}, NEW r \in Selected, ~ExcusedStatus(r)' PROVE r \in Snapshot'
    <3>1. ~ToBeListed
      BY <2>1 DEF ToBeListed
    <3>2. ~ExcusedStatus(r)
      BY <2>1, <2>2 DEF ExcusedStatus
    <3>3. <<"collection", r[1], r[2]>> \in kept 
      BY <1>0, <2>1, <2>2, <3>1, <3>2 DEF SnapshotSoFar, CollectionSeen, Selected
    <3>4. <<"database", r[1]>> \in kept
      BY <1>0, <2>1, <2>2, <3>1, <3>3 DEF SnapshotSoFar, DatabaseSeen
    <3> QED
      BY <2>1, <3>3, <3>4 DEF Snapshot, Selected
  <2>3. SnapshotExplained'
    BY <2>1, <2>2 DEF SnapshotExplained, Selected
  <2> QED
    BY <2>1, <2>3 DEF SnapshotOK
<1>15. CASE CapacityPrimariesBreak \/ CapacityDatabasesBreak
  BY <1>3, <1>15 DEF CapacityPrimariesBreak, CapacityDatabasesBreak
<1>16. ASSUME NEW d, NEW s, CapacityFilesystem(d, s) PROVE SnapshotOK'
  BY <1>11, <1>16 DEF CapacityFilesystem
<1>17. ASSUME NEW d, NEW c, NEW s, CapacityDetail(d, c, s) PROVE SnapshotOK'
  BY <1>11, <1>17 DEF CapacityDetail
<1> QED
  BY <1>6, <1>7, <1>8, <1>9, <1>10, <1>12, <1>13, <1>14, <1>15, <1>16, <1>17 DEF CapacityNext

LEMMA SnapshotNext == DiagInv /\ SnapshotOK /\ [Next]_vars => SnapshotOK'
<1> SUFFICES ASSUME DiagInv, SnapshotOK, [Next]_vars PROVE SnapshotOK'
  OBVIOUS
<1>1. CASE UNCHANGED <<call, todo, heard, statuses, errs, kept>>
  BY <1>1 DEF SnapshotOK, SnapshotSoFar, ToBeListed, CollectionSeen, DatabaseSeen, ExcusedStatus,
              SnapshotExplained, Snapshot, Selected, Cap, Wire
<1>2. CASE call'.at = "running" /\ todo' = {TheTopology}
  BY <1>2 DEF SnapshotOK, SnapshotSoFar, ToBeListed, TheTopology, Entry
<1>3. CASE CapacityNext
  BY <1>3, SnapshotStep
<1>4. CASE Carried /\ Cap # "capacity"
  BY <1>4 DEF Carried, SnapshotOK
<1> QED
  BY <1>1, <1>2, <1>3, <1>4, CallSteps

(* Capacity's snapshot, made without an error, lacks only collections that   *)
(* a status says could not be read: what DiffCapacity then calls removed     *)
(* (capacity.go:611) has an explanation, whatever fails and whenever.        *)
THEOREM RemovedHasReason == Spec => []RemovedIsExplained
<1>1. Init => SnapshotOK
  BY DEF Init, SnapshotOK
<1>2. SnapshotOK => RemovedIsExplained
  <2> SUFFICES ASSUME SnapshotExplained, NEW r \in Selected,
                      DiffCapacity(Selected, Snapshot)[r] = "removed"
               PROVE  call.err # "none" \/ ExcusedStatus(r)
    BY DEF SnapshotOK, RemovedIsExplained, Returned, ExcusedStatus
  <2>1. r \notin Snapshot
    BY DEF DiffCapacity, LifecycleState
  <2> QED
    BY <2>1 DEF SnapshotExplained
<1> QED
  BY <1>1, <1>2, DiagAlways, SnapshotNext, PTL DEF Spec

-----------------------------------------------------------------------------
(***************************************************************************)
(* A node tells once how it has used the indexes of a collection, and an   *)
(* index has the word of all of them before it is called unused.           *)
(***************************************************************************)
IsUsage(x) == x[1] \in {"size", "stats", "observed"}
UsageOf(x, d, c) == x[1] \in {"stats", "observed"} /\ x[2] = d /\ x[3] = c

OneAtATime ==
    /\ (\E j \in todo : j[1] \in Entry \cup {"collections"} \/ j = TheUsage) =>
          \A x \in todo \cup kept : ~IsUsage(x)
    /\ \A j \in todo : j[1] \in Entry \cup {"collections"} => todo = {j}
    /\ \A d, c : <<"size", d, c>> \in todo => \A x \in todo \cup kept : ~UsageOf(x, d, c)
    /\ \A d, c, m : <<"stats", d, c, m>> \in todo =>
          \A k \in Of("observed") : ~(k[2] = d /\ k[3] = c /\ k[4] = m)
    /\ \A k, h \in Of("observed") : k[2] = h[2] /\ k[3] = h[3] /\ k[4] = h[4] => k = h

WholeSets ==
    /\ \A k \in Of("target") :
          /\ k[2] \in Sets /\ k[3] \in Members(k[2])
          /\ \A m \in Members(k[2]) : HoldsData(m) => m \in Targets
    /\ \A k \in Of("observed") : k = <<"observed", k[2], k[3], k[4], k[5]>> /\ k[4] \in Targets

UsageOK == call.at # "idle" /\ Cap = "indexaudit" => OneAtATime /\ WholeSets

LEMMA WholeSetsKept ==
  ASSUME WholeSets, call'.on = call.on, kept \subseteq kept',
         \A x \in kept' \ kept : x[1] \notin {"target", "observed"}
  PROVE  WholeSets'
<1>1. Of("target")' = Of("target") /\ Of("observed")' = Of("observed") /\ Targets' = Targets
  BY DEF Of, Targets
<1> QED
  BY <1>1 DEF WholeSets, Sets, Members, HoldsData, Role

LEMMA OneAtATimeKept ==
  ASSUME OneAtATime, kept \subseteq kept', todo' \subseteq todo,
         \A x \in kept' \ kept : ~IsUsage(x)
  PROVE  OneAtATime'
<1>1. Of("observed")' = Of("observed")
  BY DEF Of, IsUsage
<1>2. \A x \in todo' \cup kept' : IsUsage(x) => x \in todo \cup kept
  OBVIOUS
<1>3. \A x, d, c : x \in todo' \cup kept' /\ UsageOf(x, d, c) => x \in todo \cup kept
  BY <1>2 DEF UsageOf, IsUsage
<1>4. \A j \in todo' : j[1] \in Entry \cup {"collections"} => todo' = {j}
  BY DEF OneAtATime
<1> QED
  BY <1>1, <1>2, <1>3, <1>4 DEF OneAtATime

LEMMA UsageStep ==
  ASSUME DiagInv, OneAtATime, WholeSets, IndexAuditNext
  PROVE  OneAtATime' /\ WholeSets'
<1> DEFINE Both2 == OneAtATime' /\ WholeSets'
<1>0. /\ call.at = "running"
      /\ call = [at |-> call.at, of |-> call.of, on |-> call.on,
                 res |-> call.res, err |-> call.err]
  BY DEF IndexAuditNext, IndexAuditDetect, IndexAuditReturn, Running, DiagInv, CallOK
<1>1. ASSUME call'.on = call.on, kept \subseteq kept', todo' \subseteq todo,
             \A x \in kept' \ kept : x[1] \notin {"target", "observed", "size", "stats"}
      PROVE  Both2
  BY <1>1, WholeSetsKept, OneAtATimeKept DEF IsUsage
<1>2. ASSUME NEW jobs, NEW loop, BreakOff(jobs, loop) PROVE Both2
  BY <1>1, <1>2 DEF BreakOff
<1>3. ASSUME NEW res, NEW err, Return(res, err) PROVE call'.on = call.on
  BY <1>0, <1>3 DEF Return
<1>4. ASSUME NEW j, NEW a, Abort(j, a) PROVE Both2
  BY <1>1, <1>3, <1>4 DEF Abort
<1>5. ASSUME NEW j \in todo, j[1] \in Entry \cup {"collections"}, kept' = kept,
             call'.on = call.on, \A x \in todo' : x[1] = "targets" \/ x \in {TheUsage, TheConsistency, TheShardList}
                                                    \/ todo' = {TheCollections}
      PROVE  Both2
  <2>1. \A x \in kept : ~IsUsage(x)
    BY <1>5 DEF OneAtATime
  <2>2. \A x \in todo' : ~IsUsage(x) /\ (x[1] \in Entry \cup {"collections"} => todo' = {x})
    BY <1>5 DEF IsUsage, TheUsage, TheConsistency, TheShardList, TheCollections, Entry
  <2>3. Of("observed")' = {}
    BY <1>5, <2>1 DEF Of, IsUsage
  <2>4. OneAtATime'
    BY <1>5, <2>1, <2>2, <2>3 DEF OneAtATime, IsUsage
  <2> QED
    BY <1>5, <2>4, WholeSetsKept
<1>6. CASE IndexAuditDetect
  <2>1. CASE /\ todo' = {} /\ UNCHANGED <<statuses, errs, kept, stopped>>
             /\ Return("none", "plain")
    BY <1>1, <1>3, <2>1
  <2>2. CASE Detect(FALSE, IF General THEN "index_usage" ELSE "none", {TheCollections})
    <3> DEFINE gate == IF General THEN "index_usage" ELSE "none"
    <3> HIDE DEF gate
    <3>1. CASE \E j \in {TheTopology, TheShards}, a \in Answers : Abort(j, a)
      BY <1>4, <3>1
    <3>2. CASE Return("result", "none") /\ todo' = {} /\ UNCHANGED <<errs, kept, stopped>>
      BY <1>1, <1>3, <3>2
    <3>3. CASE Collect(Entrance(FALSE), "ok", {TheCollections}, {}, {}, {})
      <4>1. /\ TheTopology \in todo /\ kept' = kept /\ call' = call
            /\ todo' = (todo \ {TheTopology}) \cup {TheCollections}
        BY <3>3 DEF Entrance, Collect, Hear, Proceed
      <4>2. todo = {TheTopology} /\ TheTopology[1] \in Entry
        BY <1>0, <4>1 DEF DiagInv, EntranceOK, TheTopology, Entry
      <4> QED
        BY <1>5, <4>1, <4>2
    <3> QED
      BY <2>2, <3>1, <3>2, <3>3 DEF Detect, gate
  <2> QED
    BY <1>6, <2>1, <2>2 DEF IndexAuditDetect
<1>7. CASE IndexAuditCollections
  <2> DEFINE next == When(Consistency, {TheConsistency}) \cup When(General, {TheUsage} \cup Located)
  <2>1. CASE Return("none", "plain") /\ todo' = {} /\ UNCHANGED <<statuses, errs, kept, stopped>>
    BY <1>1, <1>3, <2>1
  <2>2. CASE Collect(TheCollections, "ok", next, {}, {}, {})
    <3>1. /\ TheCollections \in todo /\ kept' = kept /\ call' = call
          /\ todo' = (todo \ {TheCollections}) \cup next
      BY <2>2 DEF Collect, Hear, Proceed
    <3>2. TheCollections[1] = "collections"
      BY DEF TheCollections
    <3>3. todo' = next
      BY <3>1, <3>2 DEF OneAtATime
    <3>4. \A x \in next : x[1] = "targets" \/ x \in {TheUsage, TheConsistency, TheShardList}
      BY DEF When, Located, Discovery
    <3> HIDE DEF next
    <3> QED
      BY <1>5, <3>1, <3>2, <3>3, <3>4
  <2> QED
    BY <1>4, <1>7, <2>1, <2>2 DEF IndexAuditCollections, ListCollections, Located
<1>8. CASE IndexAuditConsistency
  <2>1. ASSUME NEW some, NEW a,
               Collect(TheConsistency, a, {}, {}, When(a # "ok", {<<TheConsistency, a>>}),
                       {<<"compared", r[1], r[2]>> : r \in some})
        PROVE  Both2
    <3>1. /\ todo' \subseteq todo /\ kept \subseteq kept' /\ call' = call
          /\ \A x \in kept' \ kept : x[1] = "compared"
      BY <2>1 DEF Collect, Proceed
    <3> QED
      BY <1>1, <3>1
  <2> QED
    BY <1>4, <1>8, <2>1 DEF IndexAuditConsistency
<1>8a. CASE IndexAuditShards
  <2>1. /\ TheShardList \in todo /\ kept' = kept /\ call' = call
        /\ todo' \subseteq (todo \ {TheShardList}) \cup Discovery
    BY <1>8a DEF IndexAuditShards, Collect, Hear, Proceed
  <2>2. \A x \in Discovery : x[1] = "targets"
    BY DEF Discovery
  <2>3. \A x \in todo : x[1] \notin Entry \cup {"collections"}
    BY <2>1 DEF OneAtATime, TheShardList, Entry
  <2>4. \A x \in todo' : x[1] \notin Entry \cup {"collections"} /\ (x = TheUsage => x \in todo)
    BY <2>1, <2>2, <2>3 DEF TheUsage, Entry
  <2>5. \A x \in todo' \cup kept' : x[1] # "targets" => x \in todo \cup kept
    BY <2>1, <2>2
  <2>6. Of("observed")' = Of("observed")
    BY <2>1 DEF Of
  <2>7. \A x \in todo' \cup kept' : IsUsage(x) => x \in todo \cup kept
    BY <2>5 DEF IsUsage
  <2>8. \A x, d, c : x \in todo' \cup kept' /\ UsageOf(x, d, c) => x \in todo \cup kept
    BY <2>5 DEF UsageOf
  <2>9. \A d, c : <<"size", d, c>> \in todo' => <<"size", d, c>> \in todo
    BY <2>1, <2>2
  <2>10. \A d, c, m : <<"stats", d, c, m>> \in todo' => <<"stats", d, c, m>> \in todo
    BY <2>1, <2>2
  <2>11. OneAtATime'
    BY <2>4, <2>6, <2>7, <2>8, <2>9, <2>10 DEF OneAtATime
  <2> QED
    BY <2>1, <2>11, WholeSetsKept
<1>9. ASSUME NEW s \in Sets, DiscoverTargets(s) PROVE Both2
  <2> DEFINE T == {<<"target", s, m>> : m \in {n \in Members(s) : HoldsData(n)}}
  <2>1. /\ todo' \subseteq todo /\ call' = call
        /\ kept' = kept \/ kept' = kept \cup T
    BY <1>9 DEF DiscoverTargets, Record, Collect, Proceed, When
  <2>2. CASE kept' = kept
    BY <1>1, <2>1, <2>2
  <2>3. CASE kept' = kept \cup T
    <3>1. OneAtATime'
      BY <2>1, <2>3, OneAtATimeKept DEF IsUsage
    <3>2. Of("observed")' = Of("observed") /\ Targets \subseteq Targets' /\ Of("target")' = Of("target") \cup T
      BY <2>3 DEF Of, Targets
    <3>3. \A m \in Members(s) : HoldsData(m) => <<"target", s, m>> \in T
      OBVIOUS
    <3>4. \A k \in T : k[2] = s /\ k[3] \in Members(s)
      OBVIOUS
    <3>5. ASSUME NEW m \in Members(s), HoldsData(m) PROVE m \in Targets'
      <4>1. <<"target", s, m>> \in Of("target")' /\ <<"target", s, m>>[3] = m
        BY <3>2, <3>3, <3>5
      <4> QED
        BY <4>1 DEF Targets
    <3>6. \A x : Members(x)' = Members(x) /\ HoldsData(x)' = HoldsData(x)
      BY <2>1 DEF Members, HoldsData, Role
    <3> HIDE DEF T
    <3>7. WholeSets'
      BY <2>1, <3>2, <3>4, <3>5, <3>6 DEF WholeSets, Sets
    <3> QED
      BY <3>1, <3>7
  <2> QED
    BY <2>1, <2>2, <2>3
<1>10. CASE IndexAuditUsage
  <2>0. TheUsage[1] = "usage"
    BY DEF TheUsage
  <2>1. /\ TheUsage \in todo /\ kept' = kept /\ call' = call
        /\ todo' = (todo \ {TheUsage}) \cup {<<"size", r[1], r[2]>> : r \in Selected}
    BY <1>10 DEF IndexAuditUsage, GoOn, Proceed
  <2>2. \A x \in todo \cup kept : ~IsUsage(x)
    BY <2>1 DEF OneAtATime, TheUsage
  <2>3. \A x \in todo : x[1] \notin Entry \cup {"collections"}
    BY <2>1 DEF OneAtATime, TheUsage, Entry
  <2>4. Of("observed")' = {} /\ \A x \in kept : ~IsUsage(x)
    BY <2>1, <2>2 DEF Of, IsUsage
  <2>5. \A x \in todo' : x[1] \notin {"stats", "observed"} \cup Entry \cup {"collections"}
    BY <2>1, <2>2, <2>3 DEF IsUsage, Entry
  <2>6. TheUsage \notin todo'
    BY <2>1 DEF TheUsage
  <2>7. OneAtATime'
    BY <2>1, <2>4, <2>5, <2>6 DEF OneAtATime, UsageOf, IsUsage
  <2> QED
    BY <2>1, <2>7, WholeSetsKept
<1>11. ASSUME NEW d, NEW c, IndexAuditSize(d, c) PROVE Both2
  <2> DEFINE j == <<"size", d, c>>
             shell == <<"audited", d, c>>
             next == {<<"stats", d, c, m>> : m \in Targets}
  <2>0. \A x \in next : x[1] = "stats" /\ x[2] = d /\ x[3] = c
    OBVIOUS
  <2> HIDE DEF next
  <2>1. /\ j \in todo /\ call' = call /\ kept \subseteq kept'
        /\ todo' \subseteq (todo \ {j}) \cup next
        /\ \A x \in kept' \ kept : x[1] \in {"audited", "building"} \/ x = j
    <3>1. CASE Collect(j, "refused", {}, {}, {<<j, "refused">>}, {shell})
      BY <3>1 DEF Collect, Hear, Proceed
    <3>2. ASSUME NEW a, NEW building,
                 Collect(j, a, next, {}, When(a # "ok", {<<j, a>>}),
                         {shell} \cup When(a = "ok", {<<"building", d, c, i>> : i \in building}
                                                     \cup {<<"size", d, c>>}))
          PROVE  /\ j \in todo /\ call' = call /\ kept \subseteq kept'
                 /\ todo' \subseteq (todo \ {j}) \cup next
                 /\ \A x \in kept' \ kept : x[1] \in {"audited", "building"} \/ x = j
      BY <3>2 DEF Collect, Hear, Proceed, When
    <3> QED
      BY <1>11, <3>1, <3>2 DEF IndexAuditSize, next
  <2>2. \A x \in todo \cup kept : ~UsageOf(x, d, c)
    BY <2>1 DEF OneAtATime
  <2>3. \A x \in todo : ~(x[1] \in Entry \cup {"collections"} \/ x = TheUsage)
    BY <2>1 DEF OneAtATime, IsUsage
  <2>4. \A x \in todo' : ~(x[1] \in Entry \cup {"collections"} \/ x = TheUsage)
    BY <2>0, <2>1, <2>3 DEF TheUsage, Entry
  <2>5. Of("observed")' = Of("observed") /\ Of("target")' = Of("target") /\ Targets' = Targets
    BY <2>1 DEF Of, Targets
  <2>6. ASSUME NEW e, NEW b, <<"size", e, b>> \in todo', NEW x \in todo' \cup kept', UsageOf(x, e, b)
        PROVE  FALSE
    <3>1. <<"size", e, b>> \in todo \ {j}
      BY <2>0, <2>1, <2>6
    <3>2. x \in todo \cup kept \cup next
      BY <2>1, <2>6 DEF UsageOf
    <3>3. x \notin next
      BY <2>0, <2>6, <3>1 DEF UsageOf
    <3> QED
      BY <2>6, <3>1, <3>2, <3>3 DEF OneAtATime
  <2>7. ASSUME NEW e, NEW b, NEW m, <<"stats", e, b, m>> \in todo', NEW k \in Of("observed"),
               k[2] = e, k[3] = b, k[4] = m
        PROVE  FALSE
    <3>1. CASE <<"stats", e, b, m>> \in todo
      BY <2>7, <3>1 DEF OneAtATime
    <3>2. CASE <<"stats", e, b, m>> \in next
      <4>1. e = d /\ b = c
        BY <2>0, <3>2
      <4> QED
        BY <2>2, <2>7, <4>1 DEF UsageOf, Of
    <3> QED
      BY <2>1, <2>7, <3>1, <3>2
  <2>8. OneAtATime'
    BY <2>4, <2>5, <2>6, <2>7 DEF OneAtATime
  <2>9. WholeSets'
    BY <2>1, <2>5 DEF WholeSets, Sets, Members, HoldsData, Role
  <2> QED
    BY <2>8, <2>9
<1>12. ASSUME NEW d, NEW c, NEW m \in Targets, IndexAuditStats(d, c, m) PROVE Both2
  <2> DEFINE j == <<"stats", d, c, m>>
  <2>1. CASE \E a \in Answers \ {"ok"} : RecordIfAsked("index_usage", j, a, {}, {}, {})
    <3>1. todo' \subseteq todo /\ kept' = kept /\ call' = call
      BY <2>1 DEF RecordIfAsked, Refused, Record, Collect, Proceed, When
    <3> QED
      BY <1>1, <3>1
  <2>2. ASSUME NEW a, NEW x, Record("index_usage", j, a, Excusable, {}, {<<"observed", d, c, m, x>>})
        PROVE  Both2
    <3> DEFINE k == <<"observed", d, c, m, x>>
    <3>1. /\ j \in todo /\ todo' = todo \ {j} /\ call' = call
          /\ kept' = kept \/ kept' = kept \cup {k}
      BY <2>2 DEF Record, Collect, Hear, Proceed, When
    <3>2. CASE kept' = kept
      BY <1>1, <3>1, <3>2
    <3>3. CASE kept' = kept \cup {k}
      <4>1. /\ Of("observed")' = Of("observed") \cup {k} /\ Of("target")' = Of("target")
            /\ Targets' = Targets
        BY <3>3 DEF Of, Targets
      <4>2. \A y \in todo' : ~(y[1] \in Entry \cup {"collections"} \/ y = TheUsage)
        BY <3>1 DEF OneAtATime, IsUsage
      <4>3. ASSUME NEW e, NEW b, <<"size", e, b>> \in todo', NEW y \in todo' \cup kept', UsageOf(y, e, b)
            PROVE  FALSE
        <5>1. CASE y \in todo \cup kept
          BY <3>1, <4>3, <5>1 DEF OneAtATime
        <5>2. CASE y = k
          BY <3>1, <4>3, <5>2 DEF OneAtATime, UsageOf
        <5> QED
          BY <3>1, <3>3, <4>3, <5>1, <5>2
      <4>4. \A h \in Of("observed") : ~(h[2] = d /\ h[3] = c /\ h[4] = m)
        BY <3>1 DEF OneAtATime
      <4>5. \A e, b, n : <<"stats", e, b, n>> \in todo' =>
               \A h \in Of("observed")' : ~(h[2] = e /\ h[3] = b /\ h[4] = n)
        BY <3>1, <4>1 DEF OneAtATime
      <4>6. \A g, h \in Of("observed")' : g[2] = h[2] /\ g[3] = h[3] /\ g[4] = h[4] => g = h
        BY <4>1, <4>4 DEF OneAtATime
      <4>7. OneAtATime'
        BY <4>2, <4>3, <4>5, <4>6 DEF OneAtATime
      <4>8. WholeSets'
        BY <1>12, <3>1, <4>1 DEF WholeSets, Sets, Members, HoldsData, Role
      <4> QED
        BY <4>7, <4>8
    <3> QED
      BY <3>1, <3>2, <3>3
  <2> QED
    BY <1>12, <2>1, <2>2 DEF IndexAuditStats
<1>13. CASE IndexAuditReturn
  <2>1. todo' = {} /\ kept' = kept /\ \E res, err : Return(res, err)
    BY <1>13 DEF IndexAuditReturn, Finish
  <2> QED
    BY <1>1, <1>3, <2>1
<1>14. CASE DiscoveryBreak
  BY <1>2, <1>14 DEF DiscoveryBreak
<1>15. ASSUME NEW s \in Sets, IndexAuditTargets(s) PROVE Both2
  BY <1>9, <1>15 DEF IndexAuditTargets
<1> QED
  BY <1>6, <1>7, <1>8, <1>8a, <1>10, <1>11, <1>12, <1>13, <1>14, <1>15 DEF IndexAuditNext

LEMMA UsageNext == DiagInv /\ UsageOK /\ [Next]_vars => UsageOK'
<1> SUFFICES ASSUME DiagInv, UsageOK, [Next]_vars PROVE UsageOK'
  OBVIOUS
<1>1. CASE UNCHANGED <<call, todo, heard, statuses, errs, kept>>
  BY <1>1 DEF UsageOK, OneAtATime, WholeSets, Of, Targets, Cap, Sets, Members, HoldsData, Role
<1>2. CASE kept' = {} /\ todo' = {TheTopology}
  <2>1. OneAtATime'
    BY <1>2 DEF OneAtATime, Of, TheTopology, IsUsage
  <2>2. WholeSets'
    BY <1>2 DEF WholeSets, Of
  <2> QED
    BY <2>1, <2>2 DEF UsageOK
<1>3. CASE Carried /\ Cap = "indexaudit" /\ IndexAuditNext
  <2>1. call.at # "idle"
    BY <1>3 DEF IndexAuditNext, IndexAuditDetect, IndexAuditReturn, Running
  <2> QED
    BY <1>3, <2>1, UsageStep DEF UsageOK
<1>4. CASE Carried /\ Cap # "indexaudit"
  BY <1>4 DEF Carried, UsageOK
<1> QED
  BY <1>1, <1>2, <1>3, <1>4, CallSteps

(* On a replica set the targets are finite, and all its healthy data nodes.  *)
LEMMA TargetsWhole ==
  ASSUME DiagInv, WholeSets, call.at # "idle", ~Sharded, Targets # {}
  PROVE  /\ IsFiniteSet(Targets)
         /\ \A s \in Sets : \A m \in Members(s) : HoldsData(m) => m \in Targets
<1>1. call.on \in Deployments
  BY DEF DiagInv, CallOK
<1>2. /\ \A s \in Sets : IsFiniteSet(Members(s))
      /\ \A s, t \in Sets : s = t
  BY <1>1, DeploymentsAssumption DEF Sets, Members, Sharded
<1>3. PICK k \in Of("target") : TRUE
  BY DEF Targets
<1>4. k[2] \in Sets /\ Sets = {k[2]}
  BY <1>2, <1>3 DEF WholeSets
<1>5. \A h \in Of("target") : h[3] \in Members(k[2])
  BY <1>4 DEF WholeSets
<1>6. Targets \subseteq Members(k[2])
  BY <1>5 DEF Targets
<1>7. IsFiniteSet(Targets)
  BY <1>2, <1>4, <1>6, FS_Subset
<1> QED
  BY <1>3, <1>4, <1>7 DEF WholeSets

(* As many observations of an index as there are targets are one of each.    *)
LEMMA EveryTargetSpeaks ==
  ASSUME OneAtATime, WholeSets, IsFiniteSet(Targets), NEW d, NEW c, NEW i,
         Cardinality(Observations(d, c, i)) = Cardinality(Targets), NEW m \in Targets
  PROVE  \E k \in Observations(d, c, i) : k[4] = m
<1> DEFINE S == Observations(d, c, i)
           f == [k \in S |-> k[4]]
<1>1. \A k \in S : k \in Of("observed") /\ k[2] = d /\ k[3] = c
  BY DEF Observations, Observed
<1>2. \A k \in S : k[4] \in Targets
  BY <1>1 DEF WholeSets
<1>3. \A k, h \in S : k[4] = h[4] => k = h
  BY <1>1 DEF OneAtATime
<1> HIDE DEF S
<1>4. f \in Injection(S, Targets)
  BY <1>2, <1>3 DEF Injection, IsInjective
<1>5. f \in Surjection(S, Targets)
  BY <1>4, FS_Injection DEF S
<1>6. \E k \in S : f[k] = m
  BY <1>5 DEF Surjection
<1> QED
  BY <1>6 DEF S

(* The evidence that an index is not used.                                   *)
Evidence(d, c, i) ==
    /\ ~Sharded
    /\ \A s \in Sets : \A m \in Members(s) : HoldsData(m) =>
          \E k \in kept : /\ k[1] = "observed" /\ <<k[2], k[3], k[4]>> = <<d, c, m>>
                          /\ i \in DOMAIN k[5] /\ k[5][i].ops = 0 /\ k[5][i].old
    /\ <<"building", d, c, i>> \notin kept

LEMMA UnusedEvidence ==
  ASSUME DiagInv, OneAtATime, WholeSets, call.at # "idle",
         NEW d, NEW c, NEW i, Complete(d, c, i), Unused(d, c, i)
  PROVE  Evidence(d, c, i)
<1>1. ~Sharded /\ Targets # {} /\ <<"building", d, c, i>> \notin kept
  BY DEF Complete, Building
<1>2. ASSUME NEW s \in Sets, NEW m \in Members(s), HoldsData(m)
      PROVE  \E k \in kept : /\ k[1] = "observed" /\ <<k[2], k[3], k[4]>> = <<d, c, m>>
                             /\ i \in DOMAIN k[5] /\ k[5][i].ops = 0 /\ k[5][i].old
  <2>1. PICK k \in Observations(d, c, i) : k[4] = m
    BY <1>1, <1>2, TargetsWhole, EveryTargetSpeaks DEF Complete
  <2>2. k \in kept /\ k[1] = "observed" /\ k[2] = d /\ k[3] = c /\ i \in DOMAIN k[5]
    BY DEF Observations, Observed, Of
  <2>3. k[5][i].ops = 0 /\ k[5][i].old
    BY DEF Complete, Unused
  <2> QED
    BY <2>1, <2>2, <2>3
<1> QED
  BY <1>1, <1>2 DEF Evidence

(* IndexAudit calls an index an unused candidate only with the word of every *)
(* healthy data node of a replica set, each of which has counted long enough *)
(* and no use, and never while it is being built (index_audit.go:443), with  *)
(* any indexes, nodes and failures.                                          *)
THEOREM UnusedHasEvidence == Spec => []UnusedIsEarned
<1>1. Init => UsageOK
  BY DEF Init, UsageOK
<1>2. ASSUME DiagInv, OneAtATime, WholeSets, call.at # "idle",
             NEW f \in IndexAuditFindings, f.code = "unused_candidate"
      PROVE  Evidence(f.of[2], f.of[3], f.of[4])
  <2>1. PICK r \in Selected : f \in CollectionFindings(r[1], r[2])
    BY DEF IndexAuditFindings
  <2>2. PICK i \in IndexNames(r[1], r[2]) : f \in UsageFindings(r[1], r[2], i)
    BY <1>2, <2>1 DEF CollectionFindings, RedundantFindings, Info, When, Finding
  <2>3. f.of = <<"collection", r[1], r[2], i>> /\ Complete(r[1], r[2], i) /\ Unused(r[1], r[2], i)
    BY <1>2, <2>2 DEF UsageFindings, Warning, Info, When, Finding
  <2> QED
    BY <1>2, <2>3, UnusedEvidence
<1>3. ASSUME DiagInv, UsageOK, Returned, Cap = "indexaudit"
      PROVE  \A f \in {g \in IndexAuditFindings : g.code = "unused_candidate"} :
                Evidence(f.of[2], f.of[3], f.of[4])
  BY <1>2, <1>3 DEF UsageOK, Returned
<1>4. DiagInv /\ UsageOK => UnusedIsEarned
  BY <1>3 DEF UnusedIsEarned, Evidence
<1> QED
  BY <1>1, <1>4, DiagAlways, UsageNext, PTL DEF Spec

-----------------------------------------------------------------------------
(***************************************************************************)
(* Everything that had to be asked was asked, or the end of the context is *)
(* told by an error.                                                       *)
(***************************************************************************)
Handled(j) == j \in todo \/ Asked(j)
Lost == stopped /\ errs # {}

(* At the entrance nothing else has been answered.                           *)
Door == (\E j \in todo : j[1] \in Entry) /\ \A h \in heard : h[1][1] \in Entry

Hears(j, a) == Takes(j) /\ heard' = heard \cup {<<j, a>>}

LEMMA CollectHears ==
  ASSUME NEW j, NEW a, NEW next, NEW stat, NEW err, NEW keep,
         Collect(j, a, next, stat, err, keep)
  PROVE  Hears(j, a) /\ todo' = (todo \ {j}) \cup next /\ kept' = kept \cup keep
BY CollectTakes DEF Hears, Collect, Hear, Proceed

LEMMA RecordHears ==
  ASSUME NEW name, NEW j, NEW a, NEW excused, NEW next, NEW keep,
         Record(name, j, a, excused, next, keep) \/ RecordIfAsked(name, j, a, excused, next, keep)
  PROVE  /\ Hears(j, a)
         /\ a = "ok" => todo' = (todo \ {j}) \cup next /\ kept' = kept \cup keep
         /\ a # "ok" => todo' = todo \ {j} /\ kept' = kept
<1>1. CASE a # "refused" \/ Record(name, j, a, excused, next, keep)
  <2>1. Record(name, j, a, excused, next, keep)
    BY <1>1 DEF RecordIfAsked
  <2>2. Collect(j, a, When(a = "ok", next), {Status(name, j, a)},
                When(a \notin excused \cup {"ok", "none"}, {<<j, a>>}), When(a = "ok", keep))
    BY <2>1 DEF Record
  <2>3. /\ Hears(j, a) /\ todo' = (todo \ {j}) \cup When(a = "ok", next)
        /\ kept' = kept \cup When(a = "ok", keep)
    BY <2>2, CollectHears
  <2>4. CASE a = "ok"
    BY <2>3, <2>4 DEF When
  <2>5. CASE a # "ok"
    BY <2>3, <2>5 DEF When
  <2> QED
    BY <2>4, <2>5
<1>2. CASE a = "refused" /\ Refused(j)
  BY <1>2, CollectHears DEF Refused
<1> QED
  BY <1>1, <1>2 DEF RecordIfAsked

(* What is handled stays so when a job is answered.                          *)
LEMMA HearsHandles ==
  ASSUME NEW j, NEW a, Hears(j, a)
  PROVE  /\ \A i : Handled(i) => Handled(i)'
         /\ Lost => Lost'
         /\ \A i : Ok(i)' => Ok(i) \/ (i = j /\ a = "ok")
         /\ call' = call /\ Asked(j)'
<1>0. <<j, a>> \in heard' /\ <<j, a>>[1] = j /\ heard \subseteq heard'
  BY DEF Hears, Takes
<1>1. Asked(j)' /\ \A i : Asked(i) => Asked(i)'
  BY <1>0 DEF Asked
<1>2. \A i : i \in todo => i \in todo' \/ i = j
  BY DEF Hears, Takes
<1>3. \A i : Ok(i)' => Ok(i) \/ (i = j /\ a = "ok")
  BY DEF Hears, Ok
<1> QED
  BY <1>1, <1>2, <1>3 DEF Hears, Takes, Handled, Lost

(* A step of a call that goes on: job j is answered a, or was only waiting    *)
(* for others.                                                               *)
Waits == {"evaluate", "disk", "round", "usage"}
Moved(j, a) ==
    /\ call' = call
    /\ \A i : i \in todo => i \in todo' \/ i = j
    /\ \A i : Handled(i) => Handled(i)' \/ (i = j /\ j[1] \in Waits)
    /\ \A i : Ok(i)' => Ok(i) \/ (i = j /\ a = "ok")
    /\ Lost => Lost'

LEMMA HearsMoves ==
  ASSUME NEW j, NEW a, Hears(j, a)
  PROVE  Moved(j, a) /\ j \in todo /\ Asked(j)'
<1>1. j \in todo /\ \A i : i \in todo => i \in todo' \/ i = j
  BY DEF Hears, Takes
<1> QED
  BY <1>1, HearsHandles DEF Moved

LEMMA GoOnMoves ==
  ASSUME NEW j, NEW group, NEW next, NEW err, GoOn(j, group, next, err), j[1] \in Waits
  PROVE  /\ Moved(j, "none") /\ j \in todo /\ todo' = (todo \ {j}) \cup next
         /\ todo \cap group = {} /\ heard' = heard /\ kept' = kept
         /\ errs' = errs \cup err /\ stopped' = stopped
<1>1. /\ j \in todo /\ todo' = (todo \ {j}) \cup next /\ heard' = heard /\ kept' = kept
      /\ errs' = errs \cup err /\ stopped' = stopped /\ call' = call /\ todo \cap group = {}
  BY DEF GoOn, Proceed
<1>2. (Lost => Lost') /\ \A i : Ok(i)' => Ok(i) \/ (i = j /\ "none" = "ok")
  BY <1>1 DEF Lost, Ok
<1>3. \A i : Handled(i) => Handled(i)' \/ (i = j /\ j[1] \in Waits)
  BY <1>1 DEF Handled, Asked
<1> QED
  BY <1>1, <1>2, <1>3 DEF Moved

LEMMA NotAtTheDoor ==
  ASSUME DiagInv, call.at = "running", NEW j \in todo, j[1] \notin Entry
  PROVE  ~Door
BY DEF DiagInv, EntranceOK, Door

LEMMA BreakOffLoses ==
  ASSUME NEW jobs, NEW loop, BreakOff(jobs, loop)
  PROVE  Lost' /\ call' = call
BY DEF BreakOff, Lost

LEMMA GateShut ==
  ASSUME NEW gate \in {"replica_status", "slowlog_insight", "collection_capacity",
                       "hotspot_snapshot", "index_usage", "current_operations", "none"},
         Gate(gate, TRUE) = "unsupported"
  PROVE  Wire < 5 /\ gate # "none"
BY DEF Gate, MinimumWireVersion, ExpensiveOptIn

(* A call that returns no result.                                            *)
LEMMA NothingCovered ==
  ASSUME DiagInv, call.at = "running", NEW err, Return("none", err)
  PROVE  Covered' /\ call'.at # "running"
BY DEF DiagInv, CallOK, Return, Covered

LEMMA RunningCovered ==
  ASSUME call'.at = "running"
  PROVE  Covered'
BY DEF Covered, Returned

LEMMA DetectCovers ==
  ASSUME DiagInv, call.at = "running", NEW whole, NEW next,
         NEW gate \in {"replica_status", "slowlog_insight", "collection_capacity",
                       "hotspot_snapshot", "index_usage", "none"},
         gate # "none" => Cap \notin {"overview", "collstats"},
         Detect(whole, gate, next)
  PROVE  /\ Covered'
         /\ call'.at = "running" =>
               /\ \E j : j[1] \in Entry /\ Hears(j, "ok")
               /\ todo' = {TheShards} \/ todo' = next
               /\ Door => Door' \/ (todo' = next /\ \A h \in heard' : h[1][1] \in Entry)
<1>1. TheTopology[1] \in Entry /\ TheShards[1] \in Entry /\ Entrance(whole) \in {TheTopology, TheShards}
  BY DEF TheTopology, TheShards, Entry, Entrance
<1>2. CASE \E j \in {TheTopology, TheShards}, a \in Answers : Abort(j, a)
  BY <1>2, NothingCovered DEF Abort
<1>3. CASE Collect(TheTopology, "ok", {TheShards}, {}, {}, {})
  <2>1. call' = call /\ TheShards \in todo' /\ heard' = heard \cup {<<TheTopology, "ok">>}
    BY <1>3 DEF Collect, Hear, Proceed
  <2>2. Hears(TheTopology, "ok") /\ todo' = (todo \ {TheTopology}) \cup {TheShards}
    BY <1>3, CollectHears
  <2>3. todo' = {TheShards}
    BY <1>1, <2>2 DEF DiagInv, EntranceOK, Hears, Takes
  <2> QED
    BY <1>1, <2>1, <2>2, <2>3, RunningCovered DEF Door
<1>4. CASE Gate(gate, TRUE) = "unsupported" /\ Return("result", "none")
  <2>1. Wire < 5 /\ Cap \notin {"overview", "collstats"}
    BY <1>4, GateShut
  <2>2. call'.at = "returned" /\ call'.of = call.of /\ call'.on = call.on
    BY <1>4 DEF DiagInv, CallOK, Return
  <2>3. Wire \in Nat
    BY DeploymentsAssumption DEF DiagInv, CallOK, Wire
  <2>4. ~Passed'
    BY <2>1, <2>2, <2>3 DEF Passed, Cap, Wire
  <2> QED
    BY <2>2, <2>4 DEF Covered
<1>5. CASE Collect(Entrance(whole), "ok", next, {}, {}, {})
  <2> DEFINE j == Entrance(whole)
  <2>1. Hears(j, "ok") /\ j[1] \in Entry
    BY <1>1, <1>5, CollectHears
  <2>1a. call' = call /\ j \in todo
        /\ todo' = (todo \ {j}) \cup next /\ heard' = heard \cup {<<j, "ok">>}
    BY <1>5 DEF Collect, Hear, Proceed
  <2>2. todo = {j}
    BY <1>1, <2>1a DEF DiagInv, EntranceOK
  <2> HIDE DEF j
  <2>3. Door => \A h \in heard' : h[1][1] \in Entry
    BY <1>1, <2>1a DEF Door, j
  <2> QED
    BY <2>1, <2>1a, <2>2, <2>3, RunningCovered
<1> QED
  BY <1>2, <1>3, <1>4, <1>5 DEF Detect

(* The last step of a call that gives a result.                              *)
LEMMA ResultCovered ==
  ASSUME DiagInv, call.at = "running", NEW res, NEW err, Return(res, err),
         UNCHANGED <<heard, kept, stopped>>, Cap # "indexaudit",
         ~(Cap = "slowlog" /\ call.of.detail) /\ (err = "none" \/ ~stopped) =>
            \A j \in Expected : Asked(j)
  PROVE  Covered' /\ call'.at # "running"
<1>1. call'.of = call.of /\ call'.on = call.on /\ call'.err = err /\ call'.at = "returned"
  BY DEF DiagInv, CallOK, Return
<1>2. Expected' = Expected
  BY <1>1 DEF Expected, Cap, Sets, Sharded, DataNodes, Members, Role, Stats, Reached, Ok, Profiles,
       HoldsData, Oplog, DiskJobs, When, DatabaseJobs, Selected, ShardPrimaries, Of, Discovery,
       ReadJobs, ReadNodes, Read, Targets, General
<1>3. \A j : Asked(j)' = Asked(j)
  BY DEF Asked
<1> QED
  BY <1>1, <1>2, <1>3 DEF Covered, Cap

-----------------------------------------------------------------------------
(* What has been asked, or will be, while a capability runs.  Overview: the   *)
(* status of each replica set, and then each of its members that hold data.   *)
OverviewAsks ==
    \A s \in Sets :
       \/ <<"connect", s>> \in todo \/ <<"status", s>> \in todo
       \/ Asked(<<"status", s>>) /\ \A m \in DataNodes(s) : Handled(<<"dial", s, m>>)
OverviewCover == Door \/ errs # {} \/ OverviewAsks

LEMMA OverviewCovers ==
  ASSUME DiagInv, OverviewCover, OverviewNext
  PROVE  Covered' /\ (call'.at = "running" => OverviewCover')
<1> DEFINE Goal == Covered' /\ (call'.at = "running" => OverviewCover')
<1>0. call.at = "running" /\ Cap = "overview"
  BY DEF OverviewNext, OverviewDetect, Running, Cap
<1>1. ASSUME errs' # {}, call' = call PROVE Goal
  BY <1>0, <1>1, RunningCovered DEF OverviewCover
<1>2. ASSUME NEW j, NEW a, Hears(j, a), j[1] \in Entry \/ ~Door,
             OverviewCover, Door => OverviewCover',
             \A s : j = <<"connect", s>> => errs' # {} \/ <<"status", s>> \in todo',
             \A s : j = <<"status", s>> => errs' # {}
                                \/ \A m \in DataNodes(s) : <<"dial", s, m>> \in todo'
      PROVE  Goal
  <2>1. call' = call /\ j \in todo /\ (\A i : i \in todo => i \in todo' \/ i = j)
        /\ (\A i : Handled(i) => Handled(i)') /\ Asked(j)' /\ errs \subseteq errs'
    BY <1>2, HearsHandles DEF Hears, Takes
  <2>2. \A i : Asked(i) => Asked(i)'
    BY <1>2 DEF Hears, Takes, Asked
  <2>3. Sets' = Sets /\ \A s : DataNodes(s)' = DataNodes(s)
    BY <2>1 DEF Sets, DataNodes, Members, Role
  <2>4. CASE errs' = {} /\ OverviewAsks
    <3> SUFFICES ASSUME NEW s \in Sets
                 PROVE  \/ <<"connect", s>> \in todo' \/ <<"status", s>> \in todo'
                        \/ Asked(<<"status", s>>)' /\ \A m \in DataNodes(s) : Handled(<<"dial", s, m>>)'
      BY <1>0, <2>1, <2>3, RunningCovered DEF OverviewCover, OverviewAsks
    <3>1. CASE <<"connect", s>> \in todo
      BY <1>2, <2>1, <2>4, <3>1
    <3>2. CASE <<"status", s>> \in todo
      BY <1>2, <2>1, <2>4, <3>2 DEF Handled
    <3>3. CASE Asked(<<"status", s>>) /\ \A m \in DataNodes(s) : Handled(<<"dial", s, m>>)
      BY <2>1, <2>2, <3>3
    <3> QED
      BY <2>4, <3>1, <3>2, <3>3 DEF OverviewAsks
  <2>5. CASE Door
    BY <1>0, <1>2, <2>1, <2>5, RunningCovered
  <2> QED
    BY <1>1, <1>2, <2>1, <2>4, <2>5 DEF OverviewCover
<1>3. CASE OverviewDetect
  <2>1. /\ Covered'
        /\ call'.at = "running" =>
              /\ \E j : j[1] \in Entry /\ Hears(j, "ok")
              /\ Door => Door' \/ (todo' = Enter("status") /\ \A h \in heard' : h[1][1] \in Entry)
    BY <1>0, <1>3, DetectCovers DEF OverviewDetect
  <2>2. CASE call'.at = "running"
    <3>1. PICK j : j[1] \in Entry /\ Hears(j, "ok")
      BY <2>1, <2>2
    <3>2. call' = call
      BY <3>1 DEF Hears, Takes
    <3>3. todo' = Enter("status") => OverviewAsks'
      BY <3>2 DEF OverviewAsks, Enter, Sets, Sharded
    <3>4. Door => OverviewCover'
      BY <2>1, <2>2, <3>3 DEF OverviewCover
    <3> QED
      BY <3>1, <3>4, <1>2 DEF Entry
  <2> QED
    BY <2>1, <2>2
<1>4. ASSUME NEW j, NEW a, NEW next, NEW err, NEW keep,
             Collect(j, a, next, {}, err, keep), j[1] \notin Entry,
             \A s : j = <<"connect", s>> => err # {} \/ <<"status", s>> \in next,
             \A s : j = <<"status", s>> => err # {}
                                \/ \A m \in DataNodes(s) : <<"dial", s, m>> \in next
      PROVE  Goal
  <2>1. Hears(j, a) /\ todo' = (todo \ {j}) \cup next
    BY <1>4, CollectHears
  <2>2. errs' = errs \cup err
    BY <1>4 DEF Collect, Proceed
  <2>3. ~Door
    BY <1>0, <1>4, <2>1, NotAtTheDoor DEF Hears, Takes
  <2> QED
    BY <1>2, <1>4, <2>1, <2>2, <2>3
<1>5. ASSUME NEW s \in Sets, OverviewConnect(s) PROVE Goal
  <2>1. PICK a \in Answers : Collect(<<"connect", s>>, a, When(a = "ok", {<<"status", s>>}),
                   {}, ErrorOf(<<"connect", s>>, a), {})
    BY <1>5 DEF OverviewConnect
  <2>2. ErrorOf(<<"connect", s>>, a) # {} \/ <<"status", s>> \in When(a = "ok", {<<"status", s>>})
    BY DEF ErrorOf, When
  <2> QED
    BY <1>4, <2>1, <2>2 DEF Entry
<1>6. ASSUME NEW s \in Sets, OverviewStatus(s) PROVE Goal
  <2>1. PICK a \in Answers :
          Collect(<<"status", s>>, a,
                  When(a = "ok", {<<"dial", s, m>> : m \in DataNodes(s)}), {},
                  ErrorOf(<<"status", s>>, a),
                  When(a = "ok", {<<"member", s, m>> : m \in Members(s)}))
    BY <1>6 DEF OverviewStatus
  <2>2. \/ ErrorOf(<<"status", s>>, a) # {}
        \/ \A m \in DataNodes(s) : <<"dial", s, m>> \in When(a = "ok", {<<"dial", s, n>> : n \in DataNodes(s)})
    BY DEF ErrorOf, When
  <2> QED
    BY <1>4, <2>1, <2>2 DEF Entry
<1>7. ASSUME NEW s \in Sets, NEW m, OverviewDial(s, m) \/ OverviewNode(s, m) PROVE Goal
  <2>1. \E j \in {<<"dial", s, m>>, <<"node", s, m>>} : \E a, next, err, keep :
           Collect(j, a, next, {}, err, keep)
    BY <1>7 DEF OverviewDial, OverviewNode
  <2> QED
    BY <1>4, <2>1 DEF Entry
<1>8. CASE \E s \in Sets : OverviewGroupCancelled(s)
  BY <1>1, <1>8 DEF OverviewGroupCancelled
<1>9. CASE GiveUp("connect") \/ Finish("none", "plain")
  BY <1>0, <1>9, NothingCovered DEF GiveUp, Finish
<1>10. CASE errs = {} /\ Finish("result", "none")
  <2>1. todo = {} /\ ~Door /\ OverviewAsks
    BY <1>10 DEF Finish, Door, OverviewCover
  <2>2. \A s \in Sets : Asked(<<"status", s>>) /\ \A m \in DataNodes(s) : Asked(<<"dial", s, m>>)
    BY <2>1 DEF OverviewAsks, Handled
  <2>3. Expected = {<<"status", s>> : s \in Sets}
                   \cup UNION {{<<"dial", s, m>> : m \in DataNodes(s)} : s \in Sets}
    BY <1>0 DEF Expected
  <2>4. \A j \in Expected : Asked(j)
    BY <2>2, <2>3
  <2> QED
    BY <1>0, <1>10, <2>4, ResultCovered DEF Finish
<1> QED
  BY <1>3, <1>5, <1>6, <1>7, <1>8, <1>9, <1>10 DEF OverviewNext

-----------------------------------------------------------------------------
(* CollStats: of each database every collection, and then the database.      *)
CollStatsAsks(d) ==
    \/ <<"collections", d>> \in todo
    \/ /\ \A c \in Collections : Handled(<<"stats", d, c>>)
       /\ Handled(<<"dbstats", d>>) \/ \E c \in Collections : <<"stats", d, c>> \in todo
CollStatsCover ==
    \/ Door \/ errs # {} \/ (call.of.shardedOnly /\ ~Sharded) \/ TheDatabases \in todo
    \/ \A d \in Databases : CollStatsAsks(d)

LEMMA CollStatsCovers ==
  ASSUME DiagInv, CollStatsCover, CollStatsNext
  PROVE  Covered' /\ (call'.at = "running" => CollStatsCover')
<1> DEFINE Goal == Covered' /\ (call'.at = "running" => CollStatsCover')
<1>0. call.at = "running" /\ Cap = "collstats"
  BY DEF CollStatsNext, CollStatsBegin, Running, Cap
<1>1. ASSUME CollStatsCover', call'.at = "running" PROVE Goal
  BY <1>1, RunningCovered
<1>2. ASSUME NEW j, NEW a, Hears(j, a), j[1] \notin Entry,
             j = TheDatabases => \A d \in Databases : <<"collections", d>> \in todo',
             \A d : j = <<"collections", d>> =>
                       Stats(d) \subseteq todo' /\ (Collections = {} => <<"dbstats", d>> \in todo'),
             \A d, c : j = <<"stats", d, c>> =>
                       \/ errs' # {} \/ <<"dbstats", d>> \in todo'
                       \/ \E b \in Collections : <<"stats", d, b>> \in todo'
      PROVE  Goal
  <2>1. call' = call /\ j \in todo /\ (\A i : i \in todo => i \in todo' \/ i = j)
        /\ (\A i : Handled(i) => Handled(i)') /\ Asked(j)' /\ errs \subseteq errs'
    BY <1>2, HearsHandles DEF Hears, Takes
  <2>2. ~Door
    BY <1>0, <1>2, <2>1, NotAtTheDoor
  <2>3. call'.at = "running" /\ Sharded' = Sharded
    BY <1>0, <2>1 DEF Sharded
  <2>4. CASE errs # {} \/ (call.of.shardedOnly /\ ~Sharded)
    BY <1>1, <2>1, <2>3, <2>4 DEF CollStatsCover
  <2>5. CASE TheDatabases \in todo
    <3>1. TheDatabases \in todo' \/ j = TheDatabases
      BY <2>1, <2>5
    <3> QED
      BY <1>1, <1>2, <2>3, <3>1 DEF CollStatsCover, CollStatsAsks
  <2>6. CASE errs' = {} /\ \A d \in Databases : CollStatsAsks(d)
    <3> SUFFICES ASSUME NEW d \in Databases PROVE CollStatsAsks(d)'
      BY <1>1, <2>3 DEF CollStatsCover
    <3>1. CASE <<"collections", d>> \in todo
      <4>1. CASE <<"collections", d>> \in todo'
        BY <4>1 DEF CollStatsAsks
      <4>2. CASE j = <<"collections", d>>
        BY <1>2, <4>2 DEF CollStatsAsks, Stats, Handled
      <4> QED
        BY <2>1, <3>1, <4>1, <4>2
    <3>2. CASE /\ \A c \in Collections : Handled(<<"stats", d, c>>)
               /\ Handled(<<"dbstats", d>>)
      BY <2>1, <3>2 DEF CollStatsAsks
    <3>3. ASSUME \A c \in Collections : Handled(<<"stats", d, c>>),
                 NEW c \in Collections, <<"stats", d, c>> \in todo
          PROVE  CollStatsAsks(d)'
      <4>1. \A b \in Collections : Handled(<<"stats", d, b>>)'
        BY <2>1, <3>3
      <4>2. CASE <<"stats", d, c>> \in todo'
        BY <4>1, <4>2 DEF CollStatsAsks
      <4>3. CASE j = <<"stats", d, c>>
        BY <1>2, <2>6, <4>1, <4>3 DEF CollStatsAsks, Handled
      <4> QED
        BY <2>1, <3>3, <4>2, <4>3
    <3> QED
      BY <2>6, <3>1, <3>2, <3>3 DEF CollStatsAsks
  <2>7. CASE errs' # {}
    BY <1>1, <2>3, <2>7 DEF CollStatsCover
  <2> QED
    BY <2>2, <2>4, <2>5, <2>6, <2>7 DEF CollStatsCover
<1>3. CASE CollStatsBegin
  <2> DEFINE next == IF Sharded THEN {TheDatabases} ELSE {}
  <2>1. CASE call.of.shardedOnly /\ Detect(FALSE, "none", next)
    <3>1. Door
      <4>1. \E j \in {TheTopology, TheShards} : j \in todo
        BY <2>1 DEF Detect, Abort, Collect, Hear, Entrance
      <4> QED
        BY <1>3, <4>1 DEF CollStatsBegin, Door, TheTopology, TheShards, Entry
    <3>2. /\ Covered'
          /\ call'.at = "running" =>
                /\ \E j : j[1] \in Entry /\ Hears(j, "ok")
                /\ Door => Door' \/ (todo' = next /\ \A h \in heard' : h[1][1] \in Entry)
      <4> HIDE DEF next
      <4> QED
        BY <1>0, <2>1, DetectCovers
    <3>3. CASE call'.at = "running"
      <4>1. call' = call
        BY <3>2, <3>3 DEF Hears, Takes
      <4>2. Door' \/ todo' = next
        BY <3>1, <3>2, <3>3
      <4> QED
        BY <1>1, <2>1, <3>3, <4>1, <4>2 DEF CollStatsCover, Sharded
    <3> QED
      BY <3>2, <3>3
  <2>2. CASE todo' = {TheDatabases} /\ call' = call
    BY <1>0, <1>1, <2>2 DEF CollStatsCover
  <2> QED
    BY <1>3, <2>1, <2>2 DEF CollStatsBegin
<1>4. ASSUME NEW j, NEW a, Abort(j, a) PROVE Goal
  BY <1>0, <1>4, NothingCovered DEF Abort
<1>5. CASE CollStatsDatabases
  <2> DEFINE next == {<<"collections", d>> : d \in Databases}
  <2>1. CASE Collect(TheDatabases, "ok", next, {}, {}, {})
    <3>1. Hears(TheDatabases, "ok") /\ todo' = (todo \ {TheDatabases}) \cup next
      BY <2>1, CollectHears
    <3> QED
      BY <1>2, <3>1 DEF TheDatabases, Entry
  <2> QED
    BY <1>4, <1>5, <2>1 DEF CollStatsDatabases
<1>6. ASSUME NEW d \in Databases, CollStatsCollections(d) PROVE Goal
  <2> DEFINE j == <<"collections", d>>
             next == Stats(d) \cup When(Collections = {}, {<<"dbstats", d>>})
  <2>1. CASE Collect(j, "ok", next, {}, {}, {})
    <3>1. Hears(j, "ok") /\ todo' = (todo \ {j}) \cup next
      BY <2>1, CollectHears
    <3>2. Stats(d) \subseteq todo' /\ (Collections = {} => <<"dbstats", d>> \in todo')
      BY <3>1 DEF When
    <3> QED
      BY <1>2, <3>1, <3>2 DEF TheDatabases, Entry
  <2> QED
    BY <1>4, <1>6, <2>1 DEF CollStatsCollections
<1>7. ASSUME NEW d \in Databases, NEW c \in Collections, CollStatsOne(d, c) PROVE Goal
  <2> DEFINE j == <<"stats", d, c>>
  <2>1. PICK a \in Answers :
          Collect(j, a, IF a = "ok" /\ errs = {}
                        THEN AfterLast(j, Stats(d), {<<"dbstats", d>>}) ELSE {},
                  {}, ErrorOf(j, a), When(a = "ok", {j}))
    BY <1>7 DEF CollStatsOne
  <2>2. Hears(j, a)
    BY <2>1, CollectHears
  <2>3. CASE a # "ok" \/ errs # {}
    <3>1. errs' # {}
      BY <2>1, <2>3 DEF Collect, Proceed, ErrorOf, When
    <3> QED
      BY <1>2, <2>2, <3>1 DEF TheDatabases, Entry
  <2>4. CASE a = "ok" /\ errs = {} /\ todo \cap Stats(d) \subseteq {j}
    <3>1. <<"dbstats", d>> \in todo'
      BY <2>1, <2>4 DEF Collect, Proceed, AfterLast
    <3> QED
      BY <1>2, <2>2, <3>1 DEF TheDatabases, Entry
  <2>5. CASE ~(todo \cap Stats(d) \subseteq {j})
    <3>1. PICK b \in Collections : <<"stats", d, b>> \in todo /\ <<"stats", d, b>> # j
      BY <2>5 DEF Stats
    <3>2. <<"stats", d, b>> \in todo'
      BY <2>1, <3>1 DEF Collect, Proceed
    <3> QED
      BY <1>2, <2>2, <3>2 DEF TheDatabases, Entry
  <2> QED
    BY <2>3, <2>4, <2>5
<1>8. ASSUME NEW d \in Databases, CollStatsDatabase(d) PROVE Goal
  <2> DEFINE j == <<"dbstats", d>>
  <2>1. CASE Collect(j, "ok", {}, {}, {}, {j})
    BY <1>2, <2>1, CollectHears DEF TheDatabases, Entry
  <2> QED
    BY <1>4, <1>8, <2>1 DEF CollStatsDatabase
<1>9. CASE GiveUp("collections") \/ Finish("none", "plain")
  BY <1>0, <1>9, NothingCovered DEF GiveUp, Finish
<1>10. CASE errs = {} /\ ~(call.of.shardedOnly /\ ~Sharded) /\ Finish("result", "none")
  <2>1. todo = {} /\ \A d \in Databases : CollStatsAsks(d)
    BY <1>10 DEF Finish, Door, CollStatsCover
  <2>2. \A d \in Databases : Asked(<<"dbstats", d>>) /\ \A c \in Collections : Asked(<<"stats", d, c>>)
    BY <2>1 DEF CollStatsAsks, Handled
  <2>3. Expected = UNION {Stats(d) \cup {<<"dbstats", d>>} : d \in Databases}
    BY <1>0 DEF Expected
  <2>4. ASSUME NEW d \in Databases, NEW j \in Stats(d) \cup {<<"dbstats", d>>} PROVE Asked(j)
    BY <2>2, <2>4 DEF Stats
  <2>5. \A j \in Expected : Asked(j)
    BY <2>3, <2>4
  <2> QED
    BY <1>0, <1>10, <2>5, ResultCovered DEF Finish
<1> QED
  BY <1>3, <1>5, <1>6, <1>7, <1>8, <1>9, <1>10 DEF CollStatsNext

-----------------------------------------------------------------------------
(* Slowlog: the inventory of each replica set, and the profile of each member *)
(* and database that the set has named.                                       *)
SlowlogAsks(s) ==
    /\ ~Sharded \/ Ok(<<"connect", s>>) => Handled(<<"inventory", s>>)
    /\ Ok(<<"names", s>>) => \A j \in Profiles(s) : Handled(j)
SlowlogCover == call.of.detail \/ Door \/ Lost \/ \A s \in Sets : SlowlogAsks(s)

(* A detail that is asked for again is asked for where detail is an option.   *)
LEMMA SlowlogOptions ==
  ASSUME DiagInv, SlowlogNext, "detail" \in DOMAIN call.of
  PROVE  "detail" \in DOMAIN call'.of
<1>1. CASE DetailAgain
  BY <1>1 DEF DetailAgain, DiagInv, CallOK
<1>2. ASSUME call' = call \/ \E res, err : Return(res, err)
      PROVE  "detail" \in DOMAIN call'.of
  <2>1. DetailAgain \/ call.at = "running"
    BY DEF SlowlogNext, SlowlogDetect, SlowlogBreak, SlowlogReturn, DetailLocate, DetailReturn, Running
  <2>2. CASE call.at = "running"
    BY <1>2, <2>2 DEF Return, DiagInv, CallOK
  <2> QED
    BY <1>1, <2>1, <2>2
<1>3. SlowlogDetect => call' = call \/ \E res, err : Return(res, err)
  BY DEF SlowlogDetect, Detect, Abort, Collect, Proceed
<1>4. ASSUME NEW s \in Sets, SlowlogConnect(s) \/ SlowlogInventory(s) \/ SlowlogNames(s)
      PROVE  call' = call
  BY <1>4 DEF SlowlogConnect, SlowlogInventory, SlowlogNames, Record, RecordIfAsked, Refused,
              Collect, Proceed
<1>5. ASSUME NEW s, NEW m,
             \/ SlowlogUndispatched(s, m) \/ DetailRead(s, m)
             \/ \E d : SlowlogProfile(s, m, d)
      PROVE  call' = call \/ \E res, err : Return(res, err)
  BY <1>5 DEF SlowlogUndispatched, BreakOff, DetailRead, Abort, SlowlogProfile, Record, Collect, Proceed
<1>6. SlowlogBreak \/ SlowlogReturn \/ DetailLocate \/ DetailReturn
         => call' = call \/ \E res, err : Return(res, err)
  BY DEF SlowlogBreak, BreakOff, SlowlogReturn, DetailLocate, DetailReturn, Finish
<1>7. ASSUME NEW s \in Sets, SlowlogConnect(s) \/ SlowlogInventory(s) \/ SlowlogNames(s)
                \/ \E m \in Members(s) :
                      \/ SlowlogUndispatched(s, m) \/ DetailRead(s, m)
                      \/ \E d \in Databases : SlowlogProfile(s, m, d)
      PROVE  "detail" \in DOMAIN call'.of
  BY <1>2, <1>4, <1>5, <1>7
<1> QED
  BY <1>1, <1>2, <1>3, <1>6, <1>7 DEF SlowlogNext

LEMMA SlowlogCovers ==
  ASSUME DiagInv, call.at = "running" => SlowlogCover, SlowlogNext,
         "detail" \in DOMAIN call.of
  PROVE  Covered' /\ (call'.at = "running" => SlowlogCover')
<1> DEFINE Goal == Covered' /\ (call'.at = "running" => SlowlogCover')
<1>1. CASE DetailAgain
  <2>1. call'.at = "running" /\ call'.of = [call.of EXCEPT !.detail = TRUE]
    BY <1>1 DEF DetailAgain, DiagInv, CallOK
  <2>2. call'.of.detail
    BY <2>1
  <2> QED
    BY <2>1, <2>2, RunningCovered DEF SlowlogCover
<1>2. SUFFICES ASSUME ~DetailAgain PROVE Goal
  BY <1>1
<1>3. /\ call.at = "running" /\ Cap = "slowlog" /\ SlowlogCover
  <2>1. DetailAgain \/ Running("slowlog")
    BY DEF SlowlogNext, SlowlogDetect, SlowlogBreak, SlowlogReturn, DetailLocate, DetailReturn
  <2> QED
    BY <1>2, <2>1 DEF Running, Cap
<1>4. ASSUME SlowlogCover', call' = call PROVE Goal
  BY <1>3, <1>4, RunningCovered
<1>5. ASSUME NEW j, NEW a, Hears(j, a), j[1] \in Entry \/ ~Door, Door => SlowlogCover',
             \A s : j = <<"connect", s>> /\ a = "ok" => <<"inventory", s>> \in todo',
             \A s : j = <<"names", s>> /\ a = "ok" => Profiles(s) \subseteq todo'
      PROVE  Goal
  <2>1. /\ call' = call /\ Lost => Lost'
        /\ \A i : Handled(i) => Handled(i)'
        /\ \A i : Ok(i)' => Ok(i) \/ (i = j /\ a = "ok")
    BY <1>5, HearsHandles
  <2>2. CASE \A s \in Sets : SlowlogAsks(s)
    <3>1. Sets' = Sets /\ Sharded' = Sharded /\ \A s : Profiles(s)' = Profiles(s)
      BY <2>1, HearsHandles, <1>5 DEF Sets, Sharded, Profiles, Members, HoldsData, Role
    <3>2. ASSUME NEW s \in Sets PROVE SlowlogAsks(s)'
      <4>1. SlowlogAsks(s)
        BY <2>2
      <4>2. ~Sharded \/ Ok(<<"connect", s>>)' => Handled(<<"inventory", s>>)'
        BY <1>5, <2>1, <4>1 DEF SlowlogAsks, Handled
      <4>3. Ok(<<"names", s>>)' => \A i \in Profiles(s) : Handled(i)'
        BY <1>5, <2>1, <4>1 DEF SlowlogAsks, Handled
      <4> QED
        BY <3>1, <4>2, <4>3 DEF SlowlogAsks
    <3> QED
      BY <1>4, <1>5, <3>1, <3>2, HearsHandles DEF SlowlogCover
  <2>3. CASE call.of.detail \/ Lost
    BY <1>4, <1>5, <2>1, <2>3, HearsHandles DEF SlowlogCover
  <2>4. CASE Door
    BY <1>4, <1>5, <2>4, HearsHandles
  <2> QED
    BY <1>3, <2>2, <2>3, <2>4 DEF SlowlogCover
<1>6. ASSUME NEW name, NEW j, NEW a, NEW excused, NEW next, NEW keep,
             \/ Record(name, j, a, excused, next, keep)
             \/ RecordIfAsked(name, j, a, excused, next, keep),
             j[1] \notin Entry,
             \A s : j = <<"connect", s>> => <<"inventory", s>> \in next,
             \A s : j = <<"names", s>> => Profiles(s) \subseteq next
      PROVE  Goal
  <2>1. Hears(j, a) /\ (a = "ok" => todo' = (todo \ {j}) \cup next)
    BY <1>6, RecordHears
  <2>2. ~Door
    BY <1>3, <1>6, <2>1, NotAtTheDoor DEF Hears, Takes
  <2> QED
    BY <1>5, <1>6, <2>1, <2>2
<1>7. CASE SlowlogDetect
  <2>1. /\ Covered'
        /\ call'.at = "running" =>
              /\ \E j : j[1] \in Entry /\ Hears(j, "ok")
              /\ Door => Door' \/ (todo' = Enter("inventory") /\ \A h \in heard' : h[1][1] \in Entry)
    BY <1>3, <1>7, DetectCovers DEF SlowlogDetect
  <2>2. CASE call'.at = "running"
    <3>1. PICK j : j[1] \in Entry /\ Hears(j, "ok")
      BY <2>1, <2>2
    <3>2. call' = call
      BY <3>1 DEF Hears, Takes
    <3>3. ASSUME todo' = Enter("inventory"), \A h \in heard' : h[1][1] \in Entry
          PROVE  SlowlogCover'
      <4>1. \A s : ~Ok(<<"connect", s>>)' /\ ~Ok(<<"names", s>>)'
        BY <3>3 DEF Ok, Entry
      <4>2. \A s \in Sets : ~Sharded => <<"inventory", s>> \in todo'
        BY <3>3 DEF Enter
      <4>3. Sets' = Sets /\ Sharded' = Sharded
        BY <3>2 DEF Sets, Sharded
      <4> QED
        BY <4>1, <4>2, <4>3 DEF SlowlogCover, SlowlogAsks, Handled
    <3>4. Door => SlowlogCover'
      BY <2>1, <2>2, <3>3 DEF SlowlogCover
    <3> QED
      BY <3>1, <3>4, <1>5 DEF Entry
  <2> QED
    BY <2>1, <2>2
<1>8. ASSUME NEW jobs, NEW loop, BreakOff(jobs, loop) PROVE Goal
  BY <1>4, <1>8, BreakOffLoses DEF SlowlogCover
<1>9. ASSUME NEW s, SlowlogConnect(s) \/ SlowlogInventory(s) \/ SlowlogNames(s) PROVE Goal
  <2>1. CASE SlowlogConnect(s)
    BY <1>6, <2>1 DEF SlowlogConnect, Entry
  <2>2. CASE SlowlogInventory(s)
    BY <1>6, <2>2 DEF SlowlogInventory, Entry
  <2>3. CASE SlowlogNames(s)
    BY <1>6, <2>3 DEF SlowlogNames, Entry
  <2> QED
    BY <1>9, <2>1, <2>2, <2>3
<1>10. ASSUME NEW s, NEW m, NEW d, SlowlogProfile(s, m, d) PROVE Goal
  BY <1>6, <1>10 DEF SlowlogProfile, Entry
<1>11. ASSUME NEW s, NEW m, DetailRead(s, m) PROVE Goal
  <2> DEFINE j == Document(s, m)
  <2>1. CASE Collect(j, "ok", {}, {}, {}, {j})
    <3>1. Hears(j, "ok") /\ j[1] \notin Entry
      BY <2>1, CollectHears DEF Document, Entry
    <3>2. ~Door
      BY <1>3, <3>1, NotAtTheDoor DEF Hears, Takes
    <3> QED
      BY <1>5, <3>1, <3>2 DEF Document
  <2>2. ASSUME NEW a, Abort(j, a) PROVE Goal
    BY <1>3, <2>2, NothingCovered DEF Abort
  <2> QED
    BY <1>11, <2>1, <2>2 DEF DetailRead
<1>12. CASE DetailLocate
  <2>1. CASE Finish("none", "plain")
    BY <1>3, <2>1, NothingCovered DEF Finish
  <2>2. CASE call' = call
    BY <1>4, <1>12, <2>2 DEF DetailLocate, SlowlogCover
  <2> QED
    BY <1>12, <2>1, <2>2 DEF DetailLocate
<1>13. CASE DetailReturn
  BY <1>3, <1>13, ResultCovered DEF DetailReturn, Finish
<1>14. CASE SlowlogReturn
  <2>1. PICK err \in {"none", "partial", "plain"} : Finish("result", err) /\ (err = "none" => errs = {})
    <3>1. CASE errs = {} /\ Finish("result", "none")
      BY <3>1
    <3>2. CASE Finish("result", "plain") \/ Finish("result", "partial")
      BY <3>2
    <3> QED
      BY <1>14, <3>1, <3>2 DEF SlowlogReturn
  <2>2. ASSUME err = "none" \/ ~stopped PROVE \A j \in Expected : Asked(j)
    <3>1. todo = {} /\ \A s \in Sets : SlowlogAsks(s)
      BY <1>3, <1>14, <2>1, <2>2 DEF SlowlogCover, SlowlogReturn, Finish, Door, Lost
    <3>2. Expected = {<<"inventory", s>> : s \in Reached}
                     \cup UNION {Profiles(s) : s \in {t \in Sets : Ok(<<"names", t>>)}}
      BY <1>3 DEF Expected
    <3>3. \A s \in Reached : Asked(<<"inventory", s>>)
      BY <3>1 DEF Reached, SlowlogAsks, Handled
    <3>4. ASSUME NEW s \in Sets, Ok(<<"names", s>>), NEW j \in Profiles(s) PROVE Asked(j)
      BY <3>1, <3>4 DEF SlowlogAsks, Handled
    <3> QED
      BY <3>2, <3>3, <3>4
  <2> QED
    BY <1>3, <2>1, <2>2, ResultCovered DEF Finish
<1> QED
  BY <1>2, <1>7, <1>8, <1>9, <1>10, <1>11, <1>12, <1>13, <1>14
  DEF SlowlogNext, SlowlogBreak, SlowlogUndispatched

-----------------------------------------------------------------------------
(* Doctor: the status of each replica set, each member but arbiters, and,     *)
(* where the databases could be named, the disks; the oplog if it is wanted.  *)
DoctorNodesAsked(s) == \A m \in Members(s) : Role(m) # "ARBITER" => Handled(<<"node", s, m>>)
OplogAsked(s) ==
    call.of.oplog => <<"names", s>> \in todo \/ <<"disk", s>> \in todo \/ Handled(<<"oplog", s>>)
DoctorAsks(s) ==
    /\ ~Sharded \/ Ok(<<"connect", s>>) => Handled(<<"status", s>>)
    /\ Ok(<<"status", s>>) =>
          /\ DoctorNodesAsked(s)
          /\ <<"evaluate", s>> \in todo \/ (Handled(<<"names", s>>) /\ OplogAsked(s))
    /\ Ok(<<"names", s>>) => \A j \in DiskJobs(s) : Handled(j)
DoctorCover == Door \/ Lost \/ \A s \in Sets : DoctorAsks(s)

(* What is asked for next.                                                   *)
DoctorAsksNext(j, a) ==
    /\ \A s : j = <<"connect", s>> /\ a = "ok" => <<"status", s>> \in todo'
    /\ \A s : j = <<"status", s>> /\ a = "ok" =>
                 /\ <<"evaluate", s>> \in todo'
                 /\ \A m \in Members(s) : Role(m) # "ARBITER" => <<"node", s, m>> \in todo'
    /\ \A s : j = <<"evaluate", s>> => <<"names", s>> \in todo'
    /\ \A s : j = <<"names", s>> =>
                 /\ a = "ok" => DiskJobs(s) \subseteq todo'
                 /\ call.of.oplog => <<"disk", s>> \in todo' \/ <<"oplog", s>> \in todo'
    /\ \A s : j = <<"disk", s>> /\ call.of.oplog => <<"oplog", s>> \in todo'

LEMMA DoctorAsksKept ==
  ASSUME NEW j, NEW a, NEW s, DoctorAsks(s), Moved(j, a), DoctorAsksNext(j, a)
  PROVE  DoctorAsks(s)'
<1>1. Sharded' = Sharded /\ Members(s)' = Members(s) /\ \A m : Role(m)' = Role(m)
  BY DEF Sharded, Members, Role, Moved
<1>2. \A i : Handled(i) /\ i[1] \notin Waits => Handled(i)'
  BY DEF Moved
<1>3. ~Sharded \/ Ok(<<"connect", s>>)' => Handled(<<"status", s>>)'
  BY <1>2 DEF DoctorAsks, Waits, Handled, Moved, DoctorAsksNext
<1>4. Ok(<<"names", s>>)' => \A i \in DiskJobs(s) : Handled(i)'
  <2>1. CASE j = <<"names", s>> /\ a = "ok"
    BY <2>1 DEF Handled, Moved, DoctorAsksNext
  <2>2. CASE Ok(<<"names", s>>)
    BY <1>2, <2>2 DEF DoctorAsks, DiskJobs, Waits
  <2> QED
    BY <2>1, <2>2 DEF Moved, DoctorAsksNext
<1>5. ASSUME Ok(<<"status", s>>)'
      PROVE  /\ \A m \in Members(s) : Role(m) # "ARBITER" => Handled(<<"node", s, m>>)'
             /\ <<"evaluate", s>> \in todo' \/ (Handled(<<"names", s>>) /\ OplogAsked(s))'
  <2>1. CASE j = <<"status", s>> /\ a = "ok"
    BY <2>1 DEF Handled, Moved, DoctorAsksNext
  <2>2. CASE Ok(<<"status", s>>)
    <3>1. \A m \in Members(s) : Role(m) # "ARBITER" => Handled(<<"node", s, m>>)'
      BY <1>2, <2>2 DEF DoctorAsks, DoctorNodesAsked, Waits
    <3>2. CASE <<"evaluate", s>> \in todo'
      BY <3>1, <3>2
    <3>3. CASE j = <<"evaluate", s>>
      BY <3>1, <3>3 DEF Handled, OplogAsked, Moved, DoctorAsksNext
    <3>4. CASE Handled(<<"names", s>>) /\ OplogAsked(s)
      <4>1. Handled(<<"names", s>>)'
        BY <1>2, <3>4 DEF Waits
      <4>2. CASE ~call.of.oplog
        BY <3>1, <4>1, <4>2 DEF OplogAsked, Moved
      <4>3. CASE j # <<"names", s>> /\ j # <<"disk", s>>
        BY <1>2, <3>1, <3>4, <4>1, <4>3 DEF OplogAsked, Waits, Moved, DoctorAsksNext
      <4>4. CASE call.of.oplog /\ (j = <<"names", s>> \/ j = <<"disk", s>>)
        BY <3>1, <4>1, <4>4 DEF OplogAsked, Handled, Moved, DoctorAsksNext
      <4> QED
        BY <4>2, <4>3, <4>4
    <3> QED
      BY <2>2, <3>2, <3>3, <3>4 DEF DoctorAsks, Moved, DoctorAsksNext
  <2> QED
    BY <1>5, <2>1, <2>2 DEF Moved, DoctorAsksNext
<1>6. DiskJobs(s)' = DiskJobs(s) /\ call' = call
  BY DEF DiskJobs, Moved
<1> QED
  BY <1>1, <1>3, <1>4, <1>5, <1>6 DEF DoctorAsks, DoctorNodesAsked

LEMMA DoctorCovers ==
  ASSUME DiagInv, DoctorCover, DoctorNext
  PROVE  Covered' /\ (call'.at = "running" => DoctorCover')
<1> DEFINE Goal == Covered' /\ (call'.at = "running" => DoctorCover')
<1>0. call.at = "running" /\ Cap = "doctor"
  BY DEF DoctorNext, DoctorDetect, DoctorBreak, DoctorReturn, Running, Cap
<1>1. ASSUME DoctorCover', call' = call PROVE Goal
  BY <1>0, <1>1, RunningCovered
<1>2. ASSUME NEW j, NEW a, Moved(j, a), DoctorAsksNext(j, a),
             j[1] \in Entry \/ ~Door, Door => DoctorCover'
      PROVE  Goal
  <2>1. CASE \A s \in Sets : DoctorAsks(s)
    <3>1. ASSUME NEW s \in Sets PROVE DoctorAsks(s)'
      <4>1. DoctorAsks(s)
        BY <2>1
      <4> QED
        BY <1>2, <4>1, DoctorAsksKept
    <3>2. Sets' = Sets
      BY <1>2 DEF Sets, Moved
    <3> QED
      BY <1>1, <1>2, <3>1, <3>2 DEF DoctorCover, Moved
  <2>2. CASE Door \/ Lost
    BY <1>1, <1>2, <2>2 DEF DoctorCover, Moved
  <2> QED
    BY <2>1, <2>2 DEF DoctorCover
<1>3. CASE DoctorDetect
  <2>1. /\ Covered'
        /\ call'.at = "running" =>
              /\ \E j : j[1] \in Entry /\ Hears(j, "ok")
              /\ Door => Door' \/ (todo' = Enter("status") /\ \A h \in heard' : h[1][1] \in Entry)
    BY <1>0, <1>3, DetectCovers DEF DoctorDetect
  <2>2. CASE call'.at = "running"
    <3>1. PICK j : j[1] \in Entry /\ Hears(j, "ok")
      BY <2>1, <2>2
    <3>2. call' = call
      BY <3>1 DEF Hears, Takes
    <3>3. ASSUME todo' = Enter("status"), \A h \in heard' : h[1][1] \in Entry
          PROVE  DoctorCover'
      <4>1. \A s : ~Ok(<<"connect", s>>)' /\ ~Ok(<<"status", s>>)' /\ ~Ok(<<"names", s>>)'
        BY <3>3 DEF Ok, Entry
      <4>2. \A s \in Sets : ~Sharded => <<"status", s>> \in todo'
        BY <3>3 DEF Enter
      <4>3. Sets' = Sets /\ Sharded' = Sharded
        BY <3>2 DEF Sets, Sharded
      <4> QED
        BY <4>1, <4>2, <4>3 DEF DoctorCover, DoctorAsks, Handled
    <3>4. Door => DoctorCover'
      BY <2>1, <2>2, <3>3 DEF DoctorCover
    <3>6. \A s : /\ j # <<"connect", s>> /\ j # <<"status", s>> /\ j # <<"evaluate", s>>
                 /\ j # <<"names", s>> /\ j # <<"disk", s>>
      BY <3>1 DEF Entry
    <3>7. DoctorAsksNext(j, "ok")
      BY <3>6 DEF DoctorAsksNext
    <3> QED
      BY <3>1, <3>4, <3>7, <1>2, HearsMoves
  <2> QED
    BY <2>1, <2>2
<1>4. ASSUME NEW jobs, NEW loop, BreakOff(jobs, loop) PROVE Goal
  BY <1>1, <1>4, BreakOffLoses DEF DoctorCover
<1>5. ASSUME NEW j, NEW a, Hears(j, a),
             \E kind \in {"connect", "status", "names", "node", "dbstats", "oplog"} : j[1] = kind,
             \A s : j = <<"connect", s>> /\ a = "ok" => <<"status", s>> \in todo',
             \A s : j = <<"status", s>> /\ a = "ok" =>
                <<"evaluate", s>> \in todo' /\
                \A m \in Members(s) : Role(m) # "ARBITER" => <<"node", s, m>> \in todo',
             \A s : j = <<"names", s>> =>
                /\ a = "ok" => DiskJobs(s) \subseteq todo'
                /\ call.of.oplog => <<"disk", s>> \in todo' \/ <<"oplog", s>> \in todo'
      PROVE  Goal
  <2>1. Moved(j, a) /\ j \in todo
    BY <1>5, HearsMoves
  <2>2. ~Door
    BY <1>0, <1>5, <2>1, NotAtTheDoor DEF Entry
  <2>3. \A s : j # <<"evaluate", s>> /\ j # <<"disk", s>>
    BY <1>5
  <2>4. /\ \A s : j = <<"evaluate", s>> => <<"names", s>> \in todo'
        /\ \A s : j = <<"disk", s>> /\ call.of.oplog => <<"oplog", s>> \in todo'
    BY <2>3
  <2>6. DoctorAsksNext(j, a)
    BY <1>5, <2>4 DEF DoctorAsksNext
  <2> QED
    BY <1>2, <2>1, <2>2, <2>6
<1>6. ASSUME NEW j, NEW group, NEW next, GoOn(j, group, next, {}),
             \E kind \in {"evaluate", "disk"} : j[1] = kind,
             \A s : j = <<"evaluate", s>> => <<"names", s>> \in next,
             \A s : j = <<"disk", s>> /\ call.of.oplog => <<"oplog", s>> \in next
      PROVE  Goal
  <2>1. Moved(j, "none") /\ j \in todo /\ todo' = (todo \ {j}) \cup next
    BY <1>6, GoOnMoves DEF Waits
  <2>3. ~Door
    BY <1>0, <1>6, <2>1, NotAtTheDoor DEF Entry
  <2>4. \A s : j # <<"connect", s>> /\ j # <<"status", s>> /\ j # <<"names", s>>
    BY <1>6
  <2>5. /\ \A s : j = <<"evaluate", s>> => <<"names", s>> \in todo'
        /\ \A s : j = <<"disk", s>> /\ call.of.oplog => <<"oplog", s>> \in todo'
    BY <1>6, <2>1
  <2>7. DoctorAsksNext(j, "none")
    BY <2>4, <2>5 DEF DoctorAsksNext
  <2> QED
    BY <1>2, <2>1, <2>3, <2>7
<1>7. ASSUME NEW s, DoctorConnect(s) PROVE Goal
  <2>1. PICK a : Hears(<<"connect", s>>, a) /\ (a = "ok" => <<"status", s>> \in todo')
    BY <1>7, RecordHears DEF DoctorConnect
  <2> QED
    BY <1>5, <2>1
<1>8. ASSUME NEW s, DoctorStatus(s) PROVE Goal
  <2> DEFINE next == {<<"node", s, m>> : m \in {n \in Members(s) : Role(n) # "ARBITER"}}
                        \cup {<<"evaluate", s>>}
  <2>1. PICK a : Hears(<<"status", s>>, a) /\ (a = "ok" => next \subseteq todo')
    BY <1>8, RecordHears DEF DoctorStatus
  <2>2. <<"evaluate", s>> \in next /\ \A m \in Members(s) : Role(m) # "ARBITER" => <<"node", s, m>> \in next
    OBVIOUS
  <2> HIDE DEF next
  <2> QED
    BY <1>5, <2>1, <2>2
<1>9. ASSUME NEW s, DoctorEvaluate(s) PROVE Goal
  <2> DEFINE j == <<"evaluate", s>>
  <2>1. CASE stopped /\ GoOn(j, NodeJobs(s), {}, {<<j, "refused">>})
    BY <1>1, <2>1 DEF GoOn, Proceed, DoctorCover, Lost
  <2>2. CASE GoOn(j, NodeJobs(s), {<<"names", s>>}, {})
    BY <1>6, <2>2
  <2> QED
    BY <1>9, <2>1, <2>2 DEF DoctorEvaluate
<1>10. ASSUME NEW s, DoctorNames(s) PROVE Goal
  <2> DEFINE j == <<"names", s>>
  <2>1. CASE Collect(j, "ok", DiskJobs(s) \cup {<<"disk", s>>}, {}, {}, {})
    <3>1. Hears(j, "ok") /\ todo' = (todo \ {j}) \cup (DiskJobs(s) \cup {<<"disk", s>>})
      BY <2>1, CollectHears
    <3>2. <<"disk", s>> \in todo'
      BY <3>1
    <3> QED
      BY <1>5, <3>1, <3>2
  <2>2. ASSUME NEW a, a # "ok", NEW stat, NEW err, Collect(j, a, Oplog(s), stat, err, {})
        PROVE  Goal
    <3>1. Hears(j, a) /\ Oplog(s) \subseteq todo'
      BY <2>2, CollectHears
    <3>2. call.of.oplog => <<"oplog", s>> \in todo'
      BY <3>1 DEF Oplog, When
    <3> QED
      BY <1>5, <2>2, <3>1, <3>2
  <2> QED
    BY <1>10, <2>1, <2>2 DEF DoctorNames
<1>11. ASSUME NEW s, NEW d, DoctorDatabase(s, d) PROVE Goal
  <2>1. CASE \E jobs, loop : BreakOff(jobs, loop)
    BY <1>4, <2>1
  <2>2. CASE \E a : Hears(<<"dbstats", s, d>>, a)
    BY <1>5, <2>2
  <2>3. CASE \E a, x : Record("database_stats", <<"dbstats", s, d>>, a, Excusable, {}, x)
    BY <2>2, <2>3, RecordHears
  <2> QED
    BY <1>11, <2>1, <2>3 DEF DoctorDatabase
<1>12. ASSUME NEW s, DoctorDisk(s) PROVE Goal
  <2>1. call.of.oplog => <<"oplog", s>> \in Oplog(s)
    BY DEF Oplog, When
  <2> QED
    BY <1>6, <1>12, <2>1 DEF DoctorDisk
<1>13. ASSUME NEW s, DoctorOplog(s) PROVE Goal
  <2>1. \E a : Hears(<<"oplog", s>>, a)
    BY <1>13, CollectHears, RecordHears DEF DoctorOplog
  <2> QED
    BY <1>5, <2>1
<1>14. ASSUME NEW s, NEW m, DoctorNodeConnect(s, m) \/ DoctorNode(s, m) PROVE Goal
  <2>1. CASE DoctorNodeConnect(s, m)
    <3>1. \E a : Hears(<<"node", s, m>>, a)
      BY <2>1, RecordHears DEF DoctorNodeConnect
    <3> QED
      BY <1>5, <3>1
  <2>2. CASE DoctorNode(s, m)
    <3>1. \E a : Hears(<<"node", s, m>>, a)
      BY <2>2, RecordHears DEF DoctorNode
    <3> QED
      BY <1>5, <3>1
  <2> QED
    BY <1>14, <2>1, <2>2
<1>15. CASE DoctorReturn
  <2>1. PICK err \in {"none", "partial", "plain"} : Finish("result", err) /\ (err = "none" => errs = {})
    <3>1. CASE errs = {} /\ Finish("result", "none")
      BY <3>1
    <3>2. CASE Finish("result", "plain") \/ Finish("result", "partial")
      BY <3>2
    <3> QED
      BY <1>15, <3>1, <3>2 DEF DoctorReturn
  <2>2. ASSUME err = "none" \/ ~stopped PROVE \A j \in Expected : Asked(j)
    <3>1. todo = {} /\ \A s \in Sets : DoctorAsks(s)
      BY <2>1, <2>2 DEF DoctorCover, Finish, Door, Lost
    <3> DEFINE OfSet(s) == {<<"names", s>>} \cup Oplog(s)
                        \cup {<<"node", s, m>> : m \in {n \in Members(s) : Role(n) # "ARBITER"}}
                        \cup When(Ok(<<"names", s>>), DiskJobs(s))
    <3>2. Expected = {<<"status", s>> : s \in Reached}
                     \cup UNION {OfSet(s) : s \in {t \in Sets : Ok(<<"status", t>>)}}
      BY <1>0 DEF Expected
    <3>3. \A s \in Reached : Asked(<<"status", s>>)
      BY <3>1 DEF Reached, DoctorAsks, Handled
    <3>4. ASSUME NEW s \in Sets, Ok(<<"status", s>>), NEW j \in OfSet(s) PROVE Asked(j)
      <4>1. DoctorAsks(s) /\ \A i : Handled(i) => Asked(i)
        BY <3>1 DEF Handled
      <4>2. CASE j = <<"names", s>>
        BY <3>1, <3>4, <4>1, <4>2 DEF DoctorAsks
      <4>3. CASE j \in Oplog(s)
        BY <3>1, <3>4, <4>1, <4>3 DEF DoctorAsks, OplogAsked, Oplog, When
      <4>4. CASE \E m \in Members(s) : Role(m) # "ARBITER" /\ j = <<"node", s, m>>
        BY <3>4, <4>1, <4>4 DEF DoctorAsks, DoctorNodesAsked
      <4>5. CASE j \in When(Ok(<<"names", s>>), DiskJobs(s))
        BY <4>1, <4>5 DEF DoctorAsks, When
      <4> QED
        BY <3>4, <4>2, <4>3, <4>4, <4>5
    <3> HIDE DEF OfSet
    <3> QED
      BY <3>2, <3>3, <3>4
  <2> QED
    BY <1>0, <2>1, <2>2, ResultCovered DEF Finish
<1> QED
  BY <1>3, <1>4, <1>7, <1>8, <1>9, <1>10, <1>11, <1>12, <1>13, <1>14, <1>15
  DEF DoctorNext, DoctorBreak, DoctorUndispatched

-----------------------------------------------------------------------------
(* Capacity: until the collections are listed only the primaries have been    *)
(* asked; then every database and collection is.                              *)
Before == Entry \cup {"collections"}
Listing ==
    /\ \E j \in todo : j[1] \in Before
    /\ \A j \in todo : j[1] \in Before \cup {"primary"}
    /\ \A h \in heard : h[1][1] \in Entry \cup {"primary"}
CapacityAsks(d, c) ==
    /\ Handled(<<"database", d>>) /\ Handled(<<"capacity", d, c>>)
    /\ Ok(<<"capacity", d, c>>) => \A s \in ShardPrimaries : Handled(<<"detail", d, c, s>>)
CapacityCover ==
    \/ Lost \/ Listing
    \/ /\ \A j \in todo : j[1] \notin Before \cup {"primary"}
       /\ \A d \in Databases, c \in Collections : CapacityAsks(d, c)

LEMMA CapacityCovers ==
  ASSUME DiagInv, CapacityCover, CapacityNext
  PROVE  Covered' /\ (call'.at = "running" => CapacityCover')
<1> DEFINE Goal == Covered' /\ (call'.at = "running" => CapacityCover')
<1>0. call.at = "running" /\ Cap = "capacity"
  BY DEF CapacityNext, CapacityDetect, CapacityReturn, Running, Cap
<1>1. ASSUME CapacityCover', call' = call PROVE Goal
  BY <1>0, <1>1, RunningCovered
<1>2. ASSUME NEW j, NEW a, Hears(j, a), j[1] \notin Before \cup {"primary"},
             \A i \in todo' \ todo : i[1] \notin Before \cup {"primary"},
             \A d, c : j = <<"capacity", d, c>> /\ a = "ok" =>
                          \A s \in ShardPrimaries : <<"detail", d, c, s>> \in todo',
             \A k \in kept' \ kept : k[1] # "primary"
      PROVE  Goal
  <2>1. Moved(j, a) /\ j \in todo
    BY <1>2, HearsMoves
  <2>2. CASE Lost
    BY <1>1, <2>1, <2>2 DEF Moved, CapacityCover
  <2>3. CASE Listing
    BY <1>2, <2>1, <2>3 DEF Listing
  <2>4. CASE /\ \A i \in todo : i[1] \notin Before \cup {"primary"}
             /\ \A d \in Databases, c \in Collections : CapacityAsks(d, c)
    <3>1. ShardPrimaries' = ShardPrimaries
      BY <1>2 DEF ShardPrimaries, Of, Hears, Takes
    <3>2. ASSUME NEW d \in Databases, NEW c \in Collections PROVE CapacityAsks(d, c)'
      <4>1. CapacityAsks(d, c)
        BY <2>4
      <4>2. Handled(<<"database", d>>)' /\ Handled(<<"capacity", d, c>>)'
        BY <2>1, <4>1 DEF CapacityAsks, Moved, Waits
      <4>3. ASSUME Ok(<<"capacity", d, c>>)', NEW s \in ShardPrimaries
            PROVE  Handled(<<"detail", d, c, s>>)'
        <5>1. CASE Ok(<<"capacity", d, c>>)
          BY <2>1, <4>1, <4>3, <5>1 DEF CapacityAsks, Moved, Waits
        <5>2. CASE j = <<"capacity", d, c>> /\ a = "ok"
          BY <1>2, <4>3, <5>2 DEF Handled
        <5> QED
          BY <2>1, <4>3, <5>1, <5>2 DEF Moved
      <4> QED
        BY <3>1, <4>2, <4>3 DEF CapacityAsks
    <3>3. \A i \in todo' : i[1] \notin Before \cup {"primary"}
      BY <1>2, <2>4
    <3> QED
      BY <1>1, <2>1, <3>2, <3>3 DEF CapacityCover, Moved
  <2> QED
    BY <2>2, <2>3, <2>4 DEF CapacityCover
<1>3. CASE CapacityDetect
  <2> DEFINE next == {TheCollections} \cup When(Sharded, {<<"primary", s>> : s \in Sets})
  <2>1. Detect(TRUE, "collection_capacity", next)
    BY <1>3 DEF CapacityDetect
  <2>2. \A i \in next : i[1] \in Before \cup {"primary"}
    BY DEF When, TheCollections, Before
  <2>3. TheCollections \in next /\ TheCollections[1] \in Before
        /\ TheShards[1] \in Before
    BY DEF TheCollections, TheShards, Before, Entry
  <2> HIDE DEF next
  <2>4. /\ Covered'
        /\ call'.at = "running" =>
              /\ \E j : j[1] \in Entry /\ Hears(j, "ok")
              /\ todo' = {TheShards} \/ todo' = next
    BY <1>0, <2>1, DetectCovers
  <2>5. CASE call'.at = "running"
    <3>1. PICK j : j[1] \in Entry /\ Hears(j, "ok")
      BY <2>4, <2>5
    <3>2. Moved(j, "ok") /\ j \in todo /\ heard' = heard \cup {<<j, "ok">>}
      BY <3>1, HearsMoves DEF Hears
    <3>3. CASE Lost
      BY <1>1, <3>2, <3>3 DEF Moved, CapacityCover
    <3>4. CASE Listing
      <4>1. \A h \in heard' : h[1][1] \in Entry \cup {"primary"}
        BY <3>1, <3>2, <3>4 DEF Listing
      <4>2. (\E i \in todo' : i[1] \in Before) /\ \A i \in todo' : i[1] \in Before \cup {"primary"}
        BY <2>2, <2>3, <2>4, <2>5
      <4> QED
        BY <1>1, <3>2, <4>1, <4>2 DEF CapacityCover, Listing, Moved
    <3> QED
      BY <3>1, <3>2, <3>3, <3>4 DEF CapacityCover, Before
  <2> QED
    BY <2>4, <2>5
<1>4. ASSUME NEW jobs, NEW loop, BreakOff(jobs, loop) PROVE Goal
  BY <1>1, <1>4, BreakOffLoses DEF CapacityCover
<1>5. ASSUME NEW s, CapacityPrimary(s) PROVE Goal
  <2> DEFINE j == <<"primary", s>>
  <2>1. PICK a : Hears(j, a) /\ todo' = todo \ {j}
    <3>1. ASSUME NEW a, a # "ok", Record("collection_capacity", j, a, {}, {}, {})
          PROVE  Hears(j, a) /\ todo' = todo \ {j}
      BY <3>1, RecordHears
    <3>2. ASSUME NEW stat, NEW err, NEW keep, Collect(j, "ok", {}, stat, err, keep)
          PROVE  Hears(j, "ok") /\ todo' = todo \ {j}
      BY <3>2, CollectHears
    <3> QED
      BY <1>5, <3>1, <3>2 DEF CapacityPrimary
  <2>2. Moved(j, a) /\ j \in todo /\ heard' = heard \cup {<<j, a>>}
    BY <2>1, HearsMoves DEF Hears
  <2>3. CASE Lost
    BY <1>1, <2>2, <2>3 DEF Moved, CapacityCover
  <2>4. CASE Listing
    BY <1>1, <2>1, <2>2, <2>4 DEF CapacityCover, Listing, Moved, Before, Entry
  <2> QED
    BY <2>2, <2>3, <2>4 DEF CapacityCover
<1>6. CASE CapacityCollections
  <2> DEFINE next == {<<"capacity", r[1], r[2]>> : r \in Selected} \cup DatabaseJobs
  <2>1. CASE \E a \in Answers : Abort(TheCollections, a)
    BY <1>0, <2>1, NothingCovered DEF Abort
  <2>2. CASE Return("none", "plain")
    BY <1>0, <2>2, NothingCovered
  <2>3. CASE Collect(TheCollections, "ok", next, {}, {}, {})
    <3>1. /\ Hears(TheCollections, "ok") /\ todo' = (todo \ {TheCollections}) \cup next
      BY <2>3, CollectHears
    <3>2. todo' = next /\ heard' = heard \cup {<<TheCollections, "ok">>} /\ TheCollections \in todo
      BY <1>6, <3>1 DEF CapacityCollections, Hears, Takes
    <3>3. CASE Lost
      BY <1>1, <3>1, <3>3, HearsMoves DEF Moved, CapacityCover
    <3>4. CASE Listing
      <4>1. \A i \in next : i[1] \notin Before \cup {"primary"}
        BY DEF DatabaseJobs, Before, Entry
      <4>2. ASSUME NEW d \in Databases, NEW c \in Collections PROVE CapacityAsks(d, c)'
        <5>1. <<d, c>> \in Selected /\ <<d, c>>[1] = d /\ <<d, c>>[2] = c
          BY DEF Selected
        <5>2. <<"capacity", d, c>> \in next /\ <<"database", d>> \in next
          BY <5>1 DEF DatabaseJobs
        <5>3. ~Ok(<<"capacity", d, c>>)'
          BY <3>2, <3>4 DEF Ok, Listing, TheCollections, Entry
        <5> QED
          BY <3>2, <5>2, <5>3 DEF CapacityAsks, Handled
      <4> HIDE DEF next
      <4> QED
        BY <1>1, <3>1, <3>2, <4>1, <4>2 DEF CapacityCover, Hears, Takes
    <3> QED
      BY <3>2, <3>3, <3>4 DEF CapacityCover, TheCollections, Before
  <2> QED
    BY <1>6, <2>1, <2>2, <2>3 DEF CapacityCollections, ListCollections
<1>7. ASSUME NEW d, NEW c, CapacityCollection(d, c) PROVE Goal
  <2> DEFINE j == <<"capacity", d, c>>
             next == When(FreeStorage = "supported", {<<"free", d, c>>})
                        \cup {<<"detail", d, c, s>> : s \in ShardPrimaries}
  <2>1. PICK a : RecordIfAsked("collection_capacity", j, a, Excusable, next, {<<"collection", d, c>>})
    BY <1>7 DEF CapacityCollection
  <2>2. \A i \in next : i[1] \notin Before \cup {"primary"}
    BY DEF When, Before, Entry
  <2>3. \A s \in ShardPrimaries : <<"detail", d, c, s>> \in next
    OBVIOUS
  <2> HIDE DEF next
  <2>4. /\ Hears(j, a)
        /\ a = "ok" => todo' = (todo \ {j}) \cup next /\ kept' = kept \cup {<<"collection", d, c>>}
        /\ a # "ok" => todo' = todo \ {j} /\ kept' = kept
    BY <2>1, RecordHears
  <2>5. \A i \in todo' \ todo : i[1] \notin Before \cup {"primary"}
    BY <2>2, <2>4
  <2>6. \A k \in kept' \ kept : k[1] # "primary"
    BY <2>4
  <2>7. \A e, b : j = <<"capacity", e, b>> /\ a = "ok" =>
           \A s \in ShardPrimaries : <<"detail", e, b, s>> \in todo'
    BY <2>3, <2>4
  <2> QED
    BY <1>2, <2>4, <2>5, <2>6, <2>7 DEF Before, Entry
(* What follows nothing else.                                                *)
<1>8. ASSUME NEW j, NEW a, Hears(j, a), j[1] \in {"detail", "filesystem", "free", "database"},
             \A i \in todo' \ todo : i[1] \in {"filesystem", "free"},
             \A k \in kept' \ kept : k[1] # "primary"
      PROVE  Goal
  <2>1. \A d, c : j # <<"capacity", d, c>>
    BY <1>8
  <2> QED
    BY <1>2, <1>8, <2>1 DEF Before, Entry
<1>9. ASSUME NEW name, NEW j, NEW a, NEW excused, NEW keep,
             \/ Record(name, j, a, excused, {}, keep)
             \/ RecordIfAsked(name, j, a, excused, {}, keep),
             j[1] \in {"detail", "filesystem", "free"}, \A k \in keep : k[1] # "primary"
      PROVE  Goal
  <2>1. Hears(j, a) /\ todo' \subseteq todo /\ kept' \subseteq kept \cup keep
    BY <1>9, RecordHears
  <2> QED
    BY <1>8, <1>9, <2>1
<1>10. ASSUME NEW d, NEW c, CapacityFree(d, c) PROVE Goal
  BY <1>9, <1>10 DEF CapacityFree
<1>11. ASSUME NEW d, NEW c, NEW s, CapacityDetail(d, c, s) PROVE Goal
  BY <1>9, <1>11 DEF CapacityDetail, OnShard
<1>12. ASSUME NEW d, NEW s, CapacityFilesystem(d, s) PROVE Goal
  BY <1>9, <1>12 DEF CapacityFilesystem, OnShard
<1>13. ASSUME NEW d, CapacityDatabase(d) \/ CapacityDatabaseFree(d) PROVE Goal
  <2>1. CASE CapacityDatabase(d)
    <3> DEFINE j == <<"database", d>>
               next(a) == {<<"filesystem", d, s>> : s \in ShardPrimaries}
                             \cup When(a = "ok" /\ FreeStorage = "supported", {<<"free", d>>})
    <3>1. PICK a : \E stat, err : Collect(j, a, next(a), stat, err, {j})
      BY <2>1 DEF CapacityDatabase
    <3>2. \A i \in next(a) : i[1] \in {"filesystem", "free"}
      BY DEF When
    <3> HIDE DEF next
    <3>3. Hears(j, a) /\ todo' = (todo \ {j}) \cup next(a) /\ kept' = kept \cup {j}
      BY <3>1, CollectHears
    <3> QED
      BY <1>8, <3>2, <3>3
  <2>2. CASE CapacityDatabaseFree(d)
    <3> DEFINE j == <<"free", d>>
    <3>1. PICK a : \E stat, err : Collect(j, a, {}, stat, err, {})
      BY <2>2 DEF CapacityDatabaseFree
    <3>2. Hears(j, a) /\ todo' = (todo \ {j}) \cup {} /\ kept' = kept \cup {}
      BY <3>1, CollectHears
    <3> QED
      BY <1>8, <3>2
  <2> QED
    BY <1>13, <2>1, <2>2
<1>14. CASE CapacityReturn
  <2>1. PICK err \in {"none", "partial", "plain"} : Return("result", err) /\ (err = "none" => errs = {})
    <3>1. CASE errs = {} /\ Return("result", "none")
      BY <3>1
    <3>2. CASE Return("result", "plain") \/ Return("result", "partial")
      BY <3>2
    <3> QED
      BY <1>14, <3>1, <3>2 DEF CapacityReturn
  <2>2. todo = {} /\ UNCHANGED <<heard, kept, stopped>>
    BY <1>14 DEF CapacityReturn
  <2>3. ASSUME err = "none" \/ ~stopped PROVE \A j \in Expected : Asked(j)
    <3>1. \A d \in Databases, c \in Collections : CapacityAsks(d, c)
      BY <2>1, <2>2, <2>3 DEF CapacityCover, Listing, Lost
    <3>2. Expected = {<<"capacity", r[1], r[2]>> : r \in Selected} \cup DatabaseJobs
            \cup {<<"detail", r[1], r[2], s>> : s \in ShardPrimaries,
                      r \in {q \in Selected : Ok(<<"capacity", q[1], q[2]>>)}}
      BY <1>0 DEF Expected
    <3>3. \A r \in Selected : CapacityAsks(r[1], r[2])
      BY <3>1 DEF Selected
    <3>4. \A i : Handled(i) => Asked(i)
      BY <2>2 DEF Handled
    <3>5. ASSUME NEW r \in Selected
          PROVE  Asked(<<"capacity", r[1], r[2]>>) /\ Asked(<<"database", r[1]>>)
      BY <3>3, <3>4 DEF CapacityAsks
    <3>6. ASSUME NEW s \in ShardPrimaries, NEW r \in Selected, Ok(<<"capacity", r[1], r[2]>>)
          PROVE  Asked(<<"detail", r[1], r[2], s>>)
      BY <3>3, <3>4, <3>6 DEF CapacityAsks
    <3>7. \A j \in DatabaseJobs : Asked(j)
      BY <3>5 DEF DatabaseJobs
    <3>8. \A j \in {<<"capacity", r[1], r[2]>> : r \in Selected} : Asked(j)
      BY <3>5
    <3>9. ASSUME NEW j \in {<<"detail", r[1], r[2], s>> : s \in ShardPrimaries,
                                  r \in {q \in Selected : Ok(<<"capacity", q[1], q[2]>>)}}
          PROVE  Asked(j)
      <4>1. PICK s \in ShardPrimaries, r \in {q \in Selected : Ok(<<"capacity", q[1], q[2]>>)} :
               j = <<"detail", r[1], r[2], s>>
        BY <3>9
      <4>2. r \in Selected /\ Ok(<<"capacity", r[1], r[2]>>)
        OBVIOUS
      <4> QED
        BY <3>6, <4>1, <4>2
    <3> QED
      BY <3>2, <3>7, <3>8, <3>9
  <2> QED
    BY <1>0, <2>1, <2>2, <2>3, ResultCovered
<1> QED
  BY <1>3, <1>4, <1>5, <1>6, <1>7, <1>10, <1>11, <1>12, <1>13, <1>14
  DEF CapacityNext, CapacityPrimariesBreak, CapacityDatabasesBreak

-----------------------------------------------------------------------------
(* An error that the result will not leave out: one of a reading, or one of  *)
(* the discovery where no node is left whose reading could fail.             *)
HotspotLost ==
    /\ stopped
    /\ \E e \in errs :
          \/ ~Discovering(e) \/ Targets = {} \/ Round(1) \in todo
          \/ \E m \in Targets : <<"read", 1, m>> \in todo
ReadingsAsked ==
    /\ \A s \in Sets : <<"targets", s>> \notin todo
    /\ \A m \in Targets : Handled(<<"read", 1, m>>)
    /\ \/ Targets = {} \/ Round(2) \in todo
       \/ /\ \A m \in Targets : <<"read", 1, m>> \notin todo
          /\ ReadNodes(1) # {} => \A m \in Targets : Handled(<<"read", 2, m>>)
HotspotAsks ==
    /\ \A j \in todo : j[1] \notin Entry
    /\ \A s \in Sets : Handled(<<"targets", s>>)
    /\ Round(1) \in todo \/ ReadingsAsked
HotspotCover == Door \/ HotspotLost \/ HotspotAsks

LEMMA RefusedReading ==
  ASSUME NEW r, NEW m, HotspotRead(r, m), stopped
  PROVE  \E e \in errs' : ~Discovering(e)'
<1> DEFINE j == <<"read", r, m>>
<1>1. Answers = {"refused", "failed"}
  BY DEF Answers
<1>2. JoinedAnswers \subseteq {"failed"}
  BY <1>1 DEF JoinedAnswers, Joined
<1>3. \E a : <<j, a>> \in errs'
  <2>1. ASSUME NEW a \in {"refused", "failed"}, RecordIfAsked("hotspot_snapshot", j, a, {}, {}, {})
        PROVE  <<j, a>> \in errs'
    BY <2>1 DEF RecordIfAsked, Refused, Record, Collect, Proceed, When
  <2>2. ASSUME NEW keep, Record("hotspot_snapshot", j, "failed", Excusable, {}, keep)
        PROVE  <<j, "failed">> \in errs'
    BY <2>2 DEF Record, Collect, Proceed, When, Excusable
  <2>3. CASE \E a \in Answers \ {"ok"} : RecordIfAsked("hotspot_snapshot", j, a, {}, {}, {})
    BY <1>1, <2>1, <2>3
  <2>4. CASE \E a \in JoinedAnswers, y \in Readings :
                Record("hotspot_snapshot", j, a, Excusable, {}, {<<"reading", r, m, y>>})
    BY <1>2, <2>2, <2>4
  <2> QED
    BY <2>3, <2>4 DEF HotspotRead
<1>4. \A a : ~Discovering(<<j, a>>)'
  BY DEF Discovering, Discovery, TheShards
<1> QED
  BY <1>3, <1>4

LEMMA HotspotReadHears ==
  ASSUME NEW r, NEW m, HotspotRead(r, m)
  PROVE  /\ \E a : Hears(<<"read", r, m>>, a)
         /\ todo' = todo \ {<<"read", r, m>>}
         /\ \A k \in kept' \ kept : k[1] = "reading" /\ k[2] = r
<1> DEFINE j == <<"read", r, m>>
<1>1. CASE \E a \in Answers \ {"ok"} : RecordIfAsked("hotspot_snapshot", j, a, {}, {}, {})
  BY <1>1, RecordHears
<1>2. CASE \E a \in JoinedAnswers, y \in Readings :
              Record("hotspot_snapshot", j, a, Excusable, {}, {<<"reading", r, m, y>>})
  <2>1. PICK a \in JoinedAnswers, y \in Readings :
              Record("hotspot_snapshot", j, a, Excusable, {}, {<<"reading", r, m, y>>})
    BY <1>2
  <2>2. /\ Hears(j, a)
        /\ a = "ok" => todo' = (todo \ {j}) \cup {} /\ kept' = kept \cup {<<"reading", r, m, y>>}
        /\ a # "ok" => todo' = todo \ {j} /\ kept' = kept
    BY <2>1, RecordHears
  <2> QED
    BY <2>2
<1> QED
  BY <1>1, <1>2 DEF HotspotRead

LEMMA DiscoverHears ==
  ASSUME NEW s, DiscoverTargets(s)
  PROVE  /\ \E a : Hears(<<"targets", s>>, a)
         /\ todo' = todo \ {<<"targets", s>>}
         /\ stopped => kept' = kept
<1> DEFINE j == <<"targets", s>>
           keep == {<<"target", s, m>> : m \in {n \in Members(s) : HoldsData(n)}}
<1>1. CASE \E a \in Answers \ {"ok"} : Sharded /\ Collect(j, a, {}, {}, {<<j, a>>}, {})
  <2>1. PICK a : Collect(j, a, {}, {}, {<<j, a>>}, {})
    BY <1>1
  <2> HIDE DEF j
  <2>2. Hears(j, a) /\ todo' = (todo \ {j}) \cup {} /\ kept' = kept \cup {}
    BY <2>1, CollectHears
  <2> QED
    BY <2>2 DEF j
<1>2. CASE \E a \in Answers : Record("hotspot_targets", j, a, {}, {}, keep)
  <2> HIDE DEF keep
  <2>1. PICK a \in Answers : Record("hotspot_targets", j, a, {}, {}, keep)
    BY <1>2
  <2>2. /\ Hears(j, a)
        /\ a = "ok" => todo' = (todo \ {j}) \cup {} /\ kept' = kept \cup keep
        /\ a # "ok" => todo' = todo \ {j} /\ kept' = kept
    BY <2>1, RecordHears
  <2>3. stopped => a # "ok"
    BY DEF Answers
  <2> QED
    BY <2>2, <2>3
<1> QED
  BY <1>1, <1>2 DEF DiscoverTargets

(* What is lost stays told.                                                  *)
LEMMA HotspotLostKept ==
  ASSUME HotspotLost, errs \subseteq errs', stopped' = stopped, call' = call,
         Targets' = Targets,
         Round(1) \in todo' \/ todo \ todo' \subseteq Discovery \cup {Round(2)}
  PROVE  HotspotLost'
<1>1. PICK e \in errs :
          \/ ~Discovering(e) \/ Targets = {} \/ Round(1) \in todo
          \/ \E m \in Targets : <<"read", 1, m>> \in todo
  BY DEF HotspotLost
<1>2. Discovering(e)' = Discovering(e)
  BY DEF Discovering, Discovery, Sets
<1>3. \A m : <<"read", 1, m>> \notin Discovery \cup {Round(2)}
  BY DEF Discovery, Round
<1>4. Round(1) \notin Discovery \cup {Round(2)} /\ Round(1)' = Round(1)
  BY DEF Discovery, Round
<1> QED
  BY <1>1, <1>2, <1>3, <1>4 DEF HotspotLost

LEMMA HotspotCovers ==
  ASSUME DiagInv, HotspotCover, HotspotNext
  PROVE  Covered' /\ (call'.at = "running" => HotspotCover')
<1> DEFINE Goal == Covered' /\ (call'.at = "running" => HotspotCover')
<1>0. call.at = "running" /\ Cap = "hotspot"
  BY DEF HotspotNext, HotspotDetect, HotspotReturn, Running, Cap
<1>1. ASSUME HotspotLost' \/ HotspotAsks' \/ Door', call' = call PROVE Goal
  BY <1>0, <1>1, RunningCovered DEF HotspotCover
<1>2. ASSUME NEW j, NEW a, Moved(j, a), j[1] \notin Waits \cup Entry \/ j = Round(2), j \in todo
      PROVE  /\ ~Door
             /\ HotspotAsks /\ Round(1) \in todo /\ (\A i \in todo' \ todo : i[1] \notin Entry)
                   => HotspotAsks' /\ Goal
  <2>1. ~Door
    BY <1>0, <1>2, NotAtTheDoor DEF Round, Entry
  <2>2. j # Round(1) /\ \A s : <<"targets", s>> # j \/ j[1] \notin Waits
    BY <1>2 DEF Round, Waits
  <2>3. ASSUME HotspotAsks, Round(1) \in todo, \A i \in todo' \ todo : i[1] \notin Entry
        PROVE  HotspotAsks'
    <3>1. Sets' = Sets /\ Round(1)' = Round(1)
      BY <1>2 DEF Sets, Moved, Round
    <3>2. \A s \in Sets : Handled(<<"targets", s>>)'
      BY <1>2, <2>2, <2>3 DEF HotspotAsks, Moved
    <3>3. Round(1) \in todo' /\ \A i \in todo' : i[1] \notin Entry
      BY <1>2, <2>2, <2>3 DEF HotspotAsks, Moved
    <3> QED
      BY <3>1, <3>2, <3>3 DEF HotspotAsks
  <2> QED
    BY <1>1, <1>2, <2>1, <2>3 DEF Moved
<1>3. CASE HotspotDetect
  <2> DEFINE next == Discovery \cup {Round(1)}
  <2>1. Detect(TRUE, "hotspot_snapshot", next)
    BY <1>3 DEF HotspotDetect
  <2> HIDE DEF next
  <2>2. /\ Covered'
        /\ call'.at = "running" =>
              /\ \E j : j[1] \in Entry /\ Hears(j, "ok")
              /\ Door => Door' \/ (todo' = next /\ \A h \in heard' : h[1][1] \in Entry)
    BY <1>0, <2>1, DetectCovers
  <2>3. CASE call'.at = "running"
    <3>1. PICK j : j[1] \in Entry /\ Hears(j, "ok")
      BY <2>2, <2>3
    <3>2. j \in todo /\ call' = call /\ errs = {}
      BY <1>0, <3>1 DEF DiagInv, EntranceOK, Hears, Takes
    <3>3. Door
      BY <3>1, <3>2 DEF HotspotCover, HotspotLost, HotspotAsks
    <3>4. todo' = next => HotspotAsks'
      <4>1. Sets' = Sets /\ Round(1)' = Round(1)
        BY <3>2 DEF Sets, Round
      <4>2. Round(1) \in next /\ (\A s \in Sets : <<"targets", s>> \in next)
            /\ \A i \in next : i[1] \notin Entry
        BY DEF next, Discovery, Round, Entry
      <4> QED
        BY <4>1, <4>2 DEF HotspotAsks, Handled
    <3> QED
      BY <1>1, <2>2, <2>3, <3>2, <3>3, <3>4
  <2> QED
    BY <2>2, <2>3
<1>4. CASE HotspotFirst
  <2> DEFINE next == When(Targets # {}, ReadJobs(1) \cup {Round(2)})
  <2>1. /\ Moved(Round(1), "none") /\ Round(1) \in todo /\ todo' = (todo \ {Round(1)}) \cup next
        /\ todo \cap Discovery = {} /\ kept' = kept /\ errs' = errs \cup {} /\ stopped' = stopped
    <3>1. GoOn(Round(1), Discovery, next, {}) /\ Round(1)[1] \in Waits
      BY <1>4 DEF HotspotFirst, Round, Waits
    <3> HIDE DEF next
    <3> QED
      BY <3>1, GoOnMoves
  <2>2. ~Door
    BY <1>0, <2>1, NotAtTheDoor DEF Round, Entry
  <2>3. /\ call' = call /\ Targets' = Targets /\ Sets' = Sets /\ ReadNodes(1)' = ReadNodes(1)
        /\ Round(1)' = Round(1) /\ Round(2)' = Round(2)
    BY <2>1 DEF Moved, Targets, Of, Sets, ReadNodes, Read, Round
  <2>4. Targets # {} => Round(2) \in todo' /\ \A m \in Targets : <<"read", 1, m>> \in todo'
    BY <2>1 DEF When, ReadJobs
  <2>5. CASE HotspotLost
    <3>1. PICK e : e \in errs'
      BY <2>1, <2>5 DEF HotspotLost
    <3>2. Targets' = {} \/ \E m \in Targets' : <<"read", 1, m>> \in todo'
      BY <2>3, <2>4
    <3>3. HotspotLost'
      BY <2>1, <2>5, <3>1, <3>2 DEF HotspotLost
    <3> QED
      BY <1>1, <2>3, <3>3
  <2>6. CASE HotspotAsks
    <3>1. \A s \in Sets : <<"targets", s>> \notin todo'
      BY <2>1 DEF Discovery, When, ReadJobs, Round
    <3>2a. (\A i : Handled(i) => Handled(i)' \/ i = Round(1)) /\ \A s : <<"targets", s>> # Round(1)
      BY <2>1 DEF Moved, Round
    <3>2. \A s \in Sets : Handled(<<"targets", s>>)'
      BY <2>6, <3>2a DEF HotspotAsks
    <3>3. \A i \in todo' : i[1] \notin Entry
      BY <2>1, <2>6 DEF HotspotAsks, When, ReadJobs, Round, Entry
    <3>4. ReadingsAsked'
      BY <2>3, <2>4, <3>1 DEF ReadingsAsked, Handled
    <3> QED
      BY <1>1, <2>3, <3>2, <3>3, <3>4 DEF HotspotAsks
  <2> QED
    BY <2>2, <2>5, <2>6 DEF HotspotCover
<1>5. CASE HotspotSecond
  <2> DEFINE next == When(ReadNodes(1) # {}, ReadJobs(2))
  <2>1. /\ Moved(Round(2), "none") /\ Round(2) \in todo /\ todo' = (todo \ {Round(2)}) \cup next
        /\ todo \cap ReadJobs(1) = {} /\ kept' = kept /\ errs' = errs \cup {} /\ stopped' = stopped
    <3>1. GoOn(Round(2), ReadJobs(1), next, {}) /\ Round(2)[1] \in Waits
      BY <1>5 DEF HotspotSecond, Round, Waits
    <3> HIDE DEF next
    <3> QED
      BY <3>1, GoOnMoves
  <2>2. /\ call' = call /\ Targets' = Targets /\ Sets' = Sets /\ ReadNodes(1)' = ReadNodes(1)
        /\ Round(1)' = Round(1) /\ Round(2)' = Round(2)
    BY <2>1 DEF Moved, Targets, Of, Sets, ReadNodes, Read, Round
  <2>3. \A i \in next : i[1] = "read" /\ i[2] = 2
    BY DEF When, ReadJobs
  <2>4. ReadNodes(1) # {} => \A m \in Targets : <<"read", 2, m>> \in todo'
    BY <2>1 DEF When, ReadJobs
  <2> HIDE DEF next
  <2>5. CASE HotspotLost
    <3>1. todo \ todo' \subseteq {Round(2)}
      BY <2>1
    <3> QED
      BY <1>1, <2>1, <2>2, <2>5, <3>1, HotspotLostKept
  <2>6. CASE HotspotAsks /\ Round(1) \in todo
    <3>1. \A i \in todo' \ todo : i[1] \notin Entry
      BY <2>1, <2>3 DEF Entry
    <3> QED
      BY <1>2, <2>1, <2>6, <3>1
  <2>7. CASE HotspotAsks /\ ReadingsAsked
    <3>1. (\A s \in Sets : <<"targets", s>> \notin todo') /\ \A i \in todo' : i[1] \notin Entry
      BY <2>1, <2>3, <2>7 DEF HotspotAsks, ReadingsAsked, Entry
    <3>2a. /\ \A i : Handled(i) => Handled(i)' \/ i = Round(2)
           /\ \A s : <<"targets", s>> # Round(2) /\ <<"read", 1, s>> # Round(2)
      BY <2>1 DEF Moved, Round
    <3>2. \A s \in Sets : Handled(<<"targets", s>>)'
      BY <2>7, <3>2a DEF HotspotAsks
    <3>3. \A m \in Targets : Handled(<<"read", 1, m>>)'
      BY <2>7, <3>2a DEF ReadingsAsked
    <3>4. \A m \in Targets : <<"read", 1, m>> \notin todo'
      BY <2>1, <2>3 DEF ReadJobs
    <3>5. ReadNodes(1) # {} => \A m \in Targets : Handled(<<"read", 2, m>>)'
      BY <2>4 DEF Handled
    <3>6. ReadingsAsked'
      BY <2>2, <3>1, <3>3, <3>4, <3>5 DEF ReadingsAsked
    <3> QED
      BY <1>1, <2>2, <3>1, <3>2, <3>6 DEF HotspotAsks
  <2> QED
    BY <1>2, <2>1, <2>5, <2>6, <2>7 DEF HotspotCover, HotspotAsks
<1>6. CASE HotspotCancelledWait
  BY <1>0, <1>6, ResultCovered DEF HotspotCancelledWait
<1>7. CASE DiscoveryBreak
  <2> DEFINE jobs == todo \cap Discovery
  <2>1. /\ stopped /\ stopped' = stopped /\ call' = call /\ kept' = kept /\ jobs # {}
        /\ todo' = todo \ jobs /\ errs' = errs \cup {<<TheShards, "refused">>}
    BY <1>7 DEF DiscoveryBreak, BreakOff
  <2>2. PICK s \in Sets : <<"targets", s>> \in todo
    BY <2>1 DEF Discovery
  <2>3. ~Door
    BY <1>0, <2>2, NotAtTheDoor DEF Entry
  <2>4. Targets' = Targets /\ Round(1)' = Round(1)
    BY <2>1 DEF Targets, Of, Round
  <2>5. CASE HotspotLost
    BY <1>1, <2>1, <2>4, <2>5, HotspotLostKept
  <2>6. CASE HotspotAsks
    <3>1. Round(1) \in todo
      BY <2>2, <2>6 DEF HotspotAsks, ReadingsAsked
    <3>2. Round(1) \in todo'
      BY <2>1, <3>1 DEF Discovery, Round
    <3>3. HotspotLost'
      BY <2>1, <2>4, <3>2 DEF HotspotLost
    <3> QED
      BY <1>1, <2>1, <3>3
  <2> QED
    BY <2>3, <2>5, <2>6 DEF HotspotCover
<1>8. ASSUME NEW s \in Sets, DiscoverTargets(s) PROVE Goal
  <2> DEFINE j == <<"targets", s>>
  <2>1. PICK a : Hears(j, a)
    BY <1>8, DiscoverHears
  <2>2. Moved(j, a) /\ j \in todo /\ todo' = todo \ {j} /\ (stopped => kept' = kept)
    BY <1>8, <2>1, DiscoverHears, HearsMoves
  <2>3. ~Door /\ (HotspotAsks /\ Round(1) \in todo => Goal)
    BY <1>2, <2>2 DEF Waits, Entry
  <2>4. CASE HotspotLost
    <3>1. errs \subseteq errs' /\ stopped' = stopped /\ call' = call
      BY <2>1 DEF Hears, Takes
    <3>2. Targets' = Targets
      BY <2>2, <2>4 DEF HotspotLost, Targets, Of
    <3>3. todo \ todo' \subseteq Discovery
      BY <2>2 DEF Discovery
    <3> QED
      BY <1>1, <2>4, <3>1, <3>2, <3>3, HotspotLostKept
  <2> QED
    BY <2>2, <2>3, <2>4 DEF HotspotCover, HotspotAsks, ReadingsAsked
<1>9. ASSUME NEW r, HotspotUndispatched(r) PROVE Goal
  <2>1. stopped' /\ <<Round(r), "refused">> \in errs' /\ call' = call
    BY <1>9 DEF HotspotUndispatched, BreakOff
  <2>2. ~Discovering(<<Round(r), "refused">>)'
    BY DEF Discovering, Discovery, TheShards, Round
  <2>3. HotspotLost'
    BY <2>1, <2>2 DEF HotspotLost
  <2> QED
    BY <1>1, <2>1, <2>3
<1>10. ASSUME NEW r \in {1, 2}, NEW m \in Targets, HotspotRead(r, m) PROVE Goal
  <2> DEFINE j == <<"read", r, m>>
  <2>1. PICK a : Hears(j, a)
    BY <1>10, HotspotReadHears
  <2>2. /\ Moved(j, a) /\ j \in todo /\ todo' = todo \ {j} /\ call' = call /\ stopped' = stopped
        /\ kept \subseteq kept' /\ \A k \in kept' \ kept : k[1] = "reading" /\ k[2] = r
    BY <1>10, <2>1, HotspotReadHears, HearsMoves DEF Hears, Takes
  <2>3. ~Door /\ (HotspotAsks /\ Round(1) \in todo => Goal)
    BY <1>2, <2>2 DEF Waits, Entry
  <2>4. CASE HotspotLost
    <3>1. \E e \in errs' : ~Discovering(e)'
      BY <1>10, <2>4, RefusedReading DEF HotspotLost
    <3>2. HotspotLost'
      BY <2>2, <2>4, <3>1 DEF HotspotLost
    <3> QED
      BY <1>1, <2>2, <3>2
  <2>5. CASE HotspotAsks /\ ReadingsAsked
    <3>1. Targets' = Targets /\ Sets' = Sets /\ Round(2)' = Round(2)
      BY <2>2 DEF Targets, Of, Sets, Round
    <3>2. \A i : Handled(i) => Handled(i)'
      BY <2>2 DEF Moved, Waits
    <3>3. \A s \in Sets : Handled(<<"targets", s>>)' /\ <<"targets", s>> \notin todo'
      BY <2>2, <2>5, <3>2 DEF HotspotAsks, ReadingsAsked
    <3>4. \A n \in Targets : Handled(<<"read", 1, n>>)'
      BY <2>5, <3>2 DEF ReadingsAsked
    <3>5. CASE Round(2) \in todo
      <4>1. Round(2) \in todo'
        BY <2>2, <3>5 DEF Round
      <4> QED
        BY <1>1, <2>2, <2>5, <3>1, <3>3, <3>4, <4>1 DEF HotspotAsks, ReadingsAsked
    <3>6. CASE /\ \A n \in Targets : <<"read", 1, n>> \notin todo
               /\ ReadNodes(1) # {} => \A n \in Targets : Handled(<<"read", 2, n>>)
      <4>1. r = 2
        BY <1>10, <2>2, <3>6
      <4>2. \A n : Read(1, n)' = Read(1, n)
        BY <2>2, <4>1 DEF Read, Of
      <4>3. ReadNodes(1)' = ReadNodes(1)
        BY <3>1, <4>2 DEF ReadNodes
      <4>4. ReadNodes(1) # {} => \A n \in Targets : Handled(<<"read", 2, n>>)'
        BY <3>2, <3>6
      <4>5. \A n \in Targets : <<"read", 1, n>> \notin todo'
        BY <2>2, <3>6
      <4>6. ReadingsAsked'
        BY <3>1, <3>3, <3>4, <4>3, <4>4, <4>5 DEF ReadingsAsked
      <4> QED
        BY <1>1, <2>2, <2>5, <3>1, <3>3, <4>6 DEF HotspotAsks
    <3> QED
      BY <1>10, <2>5, <3>5, <3>6 DEF ReadingsAsked
  <2> QED
    BY <2>3, <2>4, <2>5 DEF HotspotCover, HotspotAsks
<1>11. CASE HotspotReturn
  <2>1. PICK err \in {"none", "partial", "plain"} :
           Return("result", err) /\ (err = "none" => Reported = {})
    <3>1. CASE Reported = {} /\ Return("result", "none")
      BY <3>1
    <3>2. CASE Return("result", "plain") \/ Return("result", "partial")
      BY <3>2
    <3> QED
      BY <1>11, <3>1, <3>2 DEF HotspotReturn
  <2>2. todo = {} /\ UNCHANGED <<heard, kept, stopped>>
    BY <1>11 DEF HotspotReturn
  <2>3. ASSUME err = "none" \/ ~stopped PROVE \A j \in Expected : Asked(j)
    <3>1. HotspotAsks /\ ReadingsAsked
      <4>1. ~HotspotLost
        BY <2>1, <2>2, <2>3 DEF HotspotLost, Reported
      <4> QED
        BY <2>2, <4>1 DEF HotspotCover, HotspotAsks, Door
    <3>2. Expected = Discovery \cup ReadJobs(1) \cup When(ReadNodes(1) # {}, ReadJobs(2))
      BY <1>0 DEF Expected
    <3>3. \A i : Handled(i) => Asked(i)
      BY <2>2 DEF Handled
    <3>4. ReadNodes(1) \subseteq Targets
      BY DEF ReadNodes
    <3>5. \A i \in Discovery \cup ReadJobs(1) : Asked(i)
      BY <3>1, <3>3 DEF HotspotAsks, ReadingsAsked, Discovery, ReadJobs
    <3>6. \A i \in When(ReadNodes(1) # {}, ReadJobs(2)) : Asked(i)
      BY <2>2, <3>1, <3>3, <3>4 DEF ReadingsAsked, ReadJobs, When
    <3> QED
      BY <3>2, <3>5, <3>6
  <2> QED
    BY <1>0, <2>1, <2>2, <2>3, ResultCovered
<1> QED
  BY <1>3, <1>4, <1>5, <1>6, <1>7, <1>8, <1>9, <1>10, <1>11 DEF HotspotNext

-----------------------------------------------------------------------------
(* IndexAudit, where it looks at usage at all: the shards, the targets of     *)
(* each, the size of every collection, and then each target for its usage.    *)
UsageAsked(d, c) ==
    \/ <<"size", d, c>> \in todo
    \/ Asked(<<"size", d, c>>) /\ \A m \in Targets : Handled(<<"stats", d, c, m>>)
NodesAsked ==
    /\ TheShardList \in todo => Sharded /\ ~Ok(TheShardList)
    /\ Sharded => Handled(TheShardList)
    /\ \/ TheShardList \in todo
       \/ Sharded /\ ~Ok(TheShardList) /\ errs # {}
       \/ \A s \in Sets : Handled(<<"targets", s>>)
IndexAuditAsks ==
    /\ \A j \in todo : j[1] \notin Before
    /\ NodesAsked
    /\ \/ TheUsage \in todo
       \/ /\ todo \cap (Discovery \cup {TheShardList}) = {}
          /\ \A d \in Databases, c \in Collections : UsageAsked(d, c)
IndexAuditCover ==
    \/ Door \/ Lost \/ ~General \/ IndexAuditAsks
    \/ todo = {TheCollections} /\ ~Ok(TheShardList)

LEMMA NodesStillAsked ==
  ASSUME NodesAsked, NEW j, NEW a, Moved(j, a), errs \subseteq errs', j # TheShardList,
         TheShardList \in todo' => TheShardList \in todo
  PROVE  NodesAsked'
<1>1. Sharded' = Sharded /\ Sets' = Sets
  BY DEF Moved, Sharded, Sets
<1>2. /\ Handled(TheShardList) => Handled(TheShardList)'
      /\ TheShardList \in todo => TheShardList \in todo'
      /\ Ok(TheShardList)' => Ok(TheShardList)
  BY DEF Moved
<1>3. \A s : Handled(<<"targets", s>>) => Handled(<<"targets", s>>)'
  BY DEF Moved, Waits
<1> QED
  BY <1>1, <1>2, <1>3 DEF NodesAsked, TheShardList

LEMMA IndexAuditCovers ==
  ASSUME DiagInv, IndexAuditCover, IndexAuditNext
  PROVE  Covered' /\ (call'.at = "running" => IndexAuditCover')
<1> DEFINE Goal == Covered' /\ (call'.at = "running" => IndexAuditCover')
<1>0. call.at = "running" /\ Cap = "indexaudit"
  BY DEF IndexAuditNext, IndexAuditDetect, IndexAuditReturn, Running, Cap
<1>1. ASSUME IndexAuditCover', call' = call PROVE Goal
  BY <1>0, <1>1, RunningCovered
<1>2. ASSUME NEW j, NEW a, Hears(j, a), j[1] \notin Before \cup {"usage"},
             \A i \in todo' \ todo : i[1] \notin Before \cup {"targets", "shardlist"},
             TheUsage \in todo \/ Targets' = Targets,
             \A d, c : j = <<"size", d, c>> => \A m \in Targets : <<"stats", d, c, m>> \in todo',
             j # TheShardList
      PROVE  Goal
  <2>1. Moved(j, a) /\ j \in todo /\ Asked(j)'
    BY <1>2, HearsMoves
  <2>2. ~Door /\ todo # {TheCollections}
    BY <1>0, <1>2, <2>1, NotAtTheDoor DEF Before, TheCollections
  <2>3. CASE Lost \/ ~General
    BY <1>1, <2>1, <2>3 DEF Moved, IndexAuditCover, General
  <2>4. CASE IndexAuditAsks
    <3>1. \A i : (Handled(i) => Handled(i)') /\ (Asked(i) => Asked(i)')
      BY <1>2, HearsHandles DEF Hears, Takes, Asked
    <3>2. (\A i \in todo' : i[1] \notin Before) /\ NodesAsked'
      <4>1. TheShardList \in todo' => TheShardList \in todo
        BY <1>2 DEF TheShardList
      <4>2. NodesAsked'
        BY <1>2, <2>1, <2>4, <4>1, NodesStillAsked DEF IndexAuditAsks, Hears, Takes
      <4> QED
        BY <1>2, <2>4, <4>2 DEF IndexAuditAsks
    <3>3. Sets' = Sets /\ call' = call
      BY <2>1 DEF Moved, Sets
    <3>4. CASE TheUsage \in todo
      <4>1. TheUsage \in todo'
        BY <1>2, <2>1, <3>4 DEF Moved, TheUsage
      <4> QED
        BY <1>1, <3>2, <3>3, <4>1 DEF IndexAuditCover, IndexAuditAsks, TheUsage
    <3>5. CASE /\ TheUsage \notin todo
               /\ todo \cap (Discovery \cup {TheShardList}) = {}
               /\ \A d \in Databases, c \in Collections : UsageAsked(d, c)
      <4>1. todo' \cap (Discovery' \cup {TheShardList}) = {}
        <5>1. Discovery' = Discovery
          BY <3>3 DEF Discovery
        <5>2. \A i \in Discovery \cup {TheShardList} : i[1] \in {"targets", "shardlist"}
          BY DEF Discovery, TheShardList
        <5>3. \A i : i \in todo' /\ i \notin todo => i[1] \notin {"targets", "shardlist"}
          BY <1>2
        <5> QED
          BY <3>5, <5>1, <5>2, <5>3
      <4>2. ASSUME NEW d \in Databases, NEW c \in Collections PROVE UsageAsked(d, c)'
        <5>1. CASE <<"size", d, c>> \in todo'
          BY <5>1 DEF UsageAsked
        <5>2. CASE j = <<"size", d, c>>
          BY <1>2, <2>1, <3>5, <5>2 DEF UsageAsked, Handled
        <5>3. CASE Asked(<<"size", d, c>>) /\ \A m \in Targets : Handled(<<"stats", d, c, m>>)
          BY <1>2, <3>1, <3>5, <5>3 DEF UsageAsked
        <5> QED
          BY <2>1, <3>5, <5>1, <5>2, <5>3 DEF UsageAsked, Moved
      <4> QED
        BY <1>1, <3>2, <3>3, <4>1, <4>2 DEF IndexAuditCover, IndexAuditAsks, TheShardList
    <3> QED
      BY <2>4, <3>4, <3>5 DEF IndexAuditAsks
  <2> QED
    BY <2>2, <2>3, <2>4 DEF IndexAuditCover
<1>3. CASE IndexAuditDetect
  <2>1. CASE Return("none", "plain")
    BY <1>0, <2>1, NothingCovered
  <2> DEFINE gate == IF General THEN "index_usage" ELSE "none"
             next == {TheCollections}
  <2>2. CASE Detect(FALSE, gate, next)
    <3>1. gate \in {"index_usage", "none"}
      OBVIOUS
    <3> HIDE DEF gate, next
    <3>2. /\ Covered'
          /\ call'.at = "running" =>
                /\ \E j : j[1] \in Entry /\ Hears(j, "ok")
                /\ Door => Door' \/ (todo' = next /\ \A h \in heard' : h[1][1] \in Entry)
      BY <1>0, <2>2, <3>1, DetectCovers
    <3>3. CASE call'.at = "running"
      <4>1. PICK j : j[1] \in Entry /\ Hears(j, "ok")
        BY <3>2, <3>3
      <4>2. j \in todo /\ call' = call /\ errs = {} /\ todo = {j}
        BY <1>0, <4>1 DEF DiagInv, EntranceOK, Hears, Takes
      <4>3. Door \/ ~General
        BY <4>1, <4>2 DEF IndexAuditCover, Lost, IndexAuditAsks, Before, TheCollections, Entry
      <4>4. Door => IndexAuditCover'
        BY <3>2, <3>3 DEF IndexAuditCover, next, TheCollections, Ok, TheShardList, Entry
      <4>5. ~General => IndexAuditCover'
        BY <4>2 DEF IndexAuditCover, General
      <4> QED
        BY <1>1, <4>2, <4>3, <4>4, <4>5
    <3> QED
      BY <3>2, <3>3
  <2> QED
    BY <1>3, <2>1, <2>2 DEF IndexAuditDetect
<1>4. CASE DiscoveryBreak
  BY <1>1, <1>4, BreakOffLoses DEF DiscoveryBreak, IndexAuditCover
<1>5. CASE IndexAuditCollections
  <2> DEFINE next == When(Consistency, {TheConsistency}) \cup When(General, {TheUsage} \cup Located)
  <2>1. CASE \E a \in Answers : Abort(TheCollections, a)
    BY <1>0, <2>1, NothingCovered DEF Abort
  <2>2. CASE Return("none", "plain")
    BY <1>0, <2>2, NothingCovered
  <2>3. CASE Collect(TheCollections, "ok", next, {}, {}, {})
    <3>1. \A i \in next : i[1] \notin Before
      BY DEF When, TheConsistency, TheUsage, TheShardList, Located, Discovery, Before, Entry
    <3>2. General => /\ TheUsage \in next
                     /\ \/ Sharded /\ TheShardList \in next
                        \/ ~Sharded /\ \A s \in Sets : <<"targets", s>> \in next
      BY DEF When, Located, Discovery
    <3> HIDE DEF next
    <3>3. Hears(TheCollections, "ok") /\ todo' = (todo \ {TheCollections}) \cup next
      BY <2>3, CollectHears
    <3>4. Moved(TheCollections, "ok") /\ TheCollections \in todo
      BY <3>3, HearsMoves
    <3>5. ~Door /\ ~IndexAuditAsks
      BY <1>0, <3>4, NotAtTheDoor DEF IndexAuditAsks, TheCollections, Before, Entry
    <3>6. CASE Lost \/ ~General
      BY <1>1, <3>4, <3>6 DEF Moved, IndexAuditCover, General
    <3>7. CASE General /\ todo = {TheCollections} /\ ~Ok(TheShardList)
      <4>1. todo' = next /\ call' = call
        BY <3>3, <3>4, <3>7 DEF Moved
      <4>2. Sets' = Sets /\ Sharded' = Sharded /\ TheUsage' = TheUsage
        BY <4>1 DEF Sets, Sharded, TheUsage
      <4>2a. ~Ok(TheShardList)' /\ TheShardList # TheUsage /\ TheShardList # TheConsistency
        BY <3>4, <3>7 DEF Moved, TheShardList, TheCollections, TheUsage, TheConsistency
      <4>2b. TheShardList \in next => Sharded
        BY <4>2a DEF next, When, Located, Discovery, TheShardList
      <4>3. NodesAsked'
        BY <3>2, <3>7, <4>1, <4>2, <4>2a, <4>2b DEF NodesAsked, Handled, TheShardList
      <4> QED
        BY <1>1, <3>1, <3>2, <3>7, <4>1, <4>2, <4>3 DEF IndexAuditCover, IndexAuditAsks
    <3> QED
      BY <3>5, <3>6, <3>7 DEF IndexAuditCover
  <2> QED
    BY <1>5, <2>1, <2>2, <2>3 DEF IndexAuditCollections, ListCollections, Located
(* What is not of the discovery leaves the targets alone.                    *)
<1>6. ASSUME NEW j, NEW a, Hears(j, a), j[1] \notin Before \cup {"usage", "targets", "shardlist"},
             \A i \in todo' \ todo : i[1] = "stats", \A k \in kept' \ kept : k[1] # "target",
             \A d, c : j = <<"size", d, c>> => \A m \in Targets : <<"stats", d, c, m>> \in todo'
      PROVE  Goal
  <2>1. Targets' = Targets
    BY <1>6 DEF Targets, Of, Hears, Takes
  <2> QED
    BY <1>2, <1>6, <2>1 DEF Before, Entry, TheShardList
<1>7. CASE IndexAuditConsistency
  <2>1. CASE \E a \in Answers \ Excusable : Abort(TheConsistency, a)
    BY <1>0, <2>1, NothingCovered DEF Abort
  <2>2. ASSUME NEW some, NEW a, NEW err,
               Collect(TheConsistency, a, {}, {}, err, {<<"compared", r[1], r[2]>> : r \in some})
        PROVE  Goal
    <3> DEFINE keep == {<<"compared", r[1], r[2]>> : r \in some}
    <3>1. \A k \in keep : k[1] # "target"
      OBVIOUS
    <3> HIDE DEF keep
    <3>2. Collect(TheConsistency, a, {}, {}, err, keep)
      BY <2>2 DEF keep
    <3>3. Hears(TheConsistency, a) /\ todo' = (todo \ {TheConsistency}) \cup {} /\ kept' = kept \cup keep
      BY <3>2, CollectHears
    <3>4. /\ TheConsistency[1] \notin Before \cup {"usage", "targets", "shardlist"}
          /\ \A d, c : TheConsistency # <<"size", d, c>>
      BY DEF TheConsistency, Before, Entry
    <3> QED
      BY <1>6, <3>1, <3>3, <3>4
  <2> QED
    BY <1>7, <2>1, <2>2 DEF IndexAuditConsistency
(* The list of the shards hands out the discovery, or leaves an error.       *)
<1>7a. CASE IndexAuditShards
  <2>1. PICK a : /\ Hears(TheShardList, a) /\ kept' = kept
                 /\ \/ a = "ok" /\ todo' = (todo \ {TheShardList}) \cup Discovery
                    \/ /\ a # "ok" /\ todo' = todo \ {TheShardList}
                       /\ <<TheShardList, a>> \in errs'
    <3>1. ASSUME NEW a, NEW next, NEW err, Collect(TheShardList, a, next, {}, err, {})
          PROVE  /\ Hears(TheShardList, a) /\ kept' = kept
                 /\ todo' = (todo \ {TheShardList}) \cup next /\ errs' = errs \cup err
      BY <3>1, CollectHears DEF Collect, Proceed
    <3>2. CASE Collect(TheShardList, "ok", Discovery, {}, {}, {})
      BY <3>1, <3>2
    <3>3. CASE \E a \in Answers \ {"ok"} :
                 Collect(TheShardList, a, {}, {}, {<<TheShardList, a>>}, {})
      BY <3>1, <3>3
    <3> QED
      BY <1>7a, <3>2, <3>3 DEF IndexAuditShards
  <2>2. Moved(TheShardList, a) /\ TheShardList \in todo /\ Asked(TheShardList)' /\ call' = call
    BY <2>1, HearsMoves DEF Moved
  <2>3. ~Door /\ todo # {TheCollections}
    BY <1>0, <2>2, NotAtTheDoor DEF TheShardList, TheCollections, Entry
  <2>4. CASE Lost \/ ~General
    BY <1>1, <2>2, <2>4 DEF Moved, IndexAuditCover, General
  <2>5. CASE IndexAuditAsks
    <3>0. Sharded /\ ~Ok(TheShardList) /\ TheShardList \notin todo'
      BY <2>1, <2>2, <2>5 DEF IndexAuditAsks, NodesAsked, Discovery, TheShardList
    <3>1. Sets' = Sets /\ Sharded' = Sharded /\ Discovery' = Discovery
      BY <2>2 DEF Sets, Sharded, Discovery
    <3>2. TheUsage \in todo' /\ \A i \in todo' : i[1] \notin Before
      <4>1. TheUsage \in todo /\ TheUsage # TheShardList
        BY <2>2, <2>5 DEF IndexAuditAsks, TheUsage, TheShardList
      <4>2. \A i \in Discovery : i[1] \notin Before
        BY DEF Discovery, Before, Entry
      <4> QED
        BY <2>1, <2>2, <2>5, <4>1, <4>2 DEF IndexAuditAsks, Moved
    <3>3. CASE \A s \in Sets : Handled(<<"targets", s>>)'
      <4>1. NodesAsked'
        BY <2>2, <3>0, <3>1, <3>3 DEF NodesAsked, Handled, TheShardList
      <4> QED
        BY <1>1, <2>2, <3>2, <4>1 DEF IndexAuditCover, IndexAuditAsks, TheUsage
    <3>4. CASE a = "ok"
      BY <2>1, <3>3, <3>4 DEF Discovery, Handled
    <3>5. CASE a # "ok" /\ <<TheShardList, a>> \in errs'
      <4>1. ~Ok(TheShardList)'
        BY <2>2, <3>0, <3>5 DEF Moved
      <4>2. NodesAsked'
        BY <2>2, <3>0, <3>1, <3>5, <4>1 DEF NodesAsked, Handled, TheShardList, Ok
      <4> QED
        BY <1>1, <2>2, <3>2, <4>2 DEF IndexAuditCover, IndexAuditAsks, TheUsage
    <3> QED
      BY <2>1, <3>4, <3>5
  <2> QED
    BY <2>3, <2>4, <2>5 DEF IndexAuditCover
<1>8. ASSUME NEW s \in Sets, IndexAuditTargets(s) PROVE Goal
  <2> DEFINE j == <<"targets", s>>
  <2>1. PICK a : Hears(j, a)
    BY <1>8, DiscoverHears DEF IndexAuditTargets
  <2>2. j \in todo /\ todo' = todo \ {j} /\ call' = call
    BY <1>8, <2>1, DiscoverHears DEF IndexAuditTargets, Hears, Takes
  <2>3. j[1] \notin Before \cup {"usage"} /\ j # TheShardList /\ \A d, c : j # <<"size", d, c>>
    BY DEF Before, Entry, TheShardList
  <2>4. CASE TheUsage \in todo
    BY <1>2, <2>1, <2>2, <2>3, <2>4
  <2>5. CASE TheUsage \notin todo
    <3>1. ~Door /\ todo # {TheCollections}
      BY <1>0, <2>2, <2>3, NotAtTheDoor DEF Before, TheCollections
    <3>2. Lost \/ ~General
      BY <1>8, <2>2, <2>5, <3>1 DEF IndexAuditCover, IndexAuditAsks, Discovery
    <3>3. Moved(j, a)
      BY <2>1, HearsMoves
    <3> QED
      BY <1>1, <3>2, <3>3 DEF Moved, IndexAuditCover, General
  <2> QED
    BY <2>4, <2>5
<1>9. CASE IndexAuditUsage
  <2> DEFINE next == {<<"size", r[1], r[2]>> : r \in Selected}
  <2>1. GoOn(TheUsage, Discovery \cup {TheShardList}, next, {}) /\ TheUsage[1] \in Waits
    BY <1>9 DEF IndexAuditUsage, TheUsage, Waits
  <2>2. (\A i \in next : i[1] = "size") /\ \A d \in Databases, c \in Collections : <<"size", d, c>> \in next
    <3>1. ASSUME NEW d \in Databases, NEW c \in Collections PROVE <<"size", d, c>> \in next
      <4>1. <<d, c>> \in Selected /\ <<d, c>>[1] = d /\ <<d, c>>[2] = c
        BY DEF Selected
      <4> QED
        BY <4>1
    <3> QED
      BY <3>1
  <2> HIDE DEF next
  <2>3. /\ Moved(TheUsage, "none") /\ TheUsage \in todo /\ todo' = (todo \ {TheUsage}) \cup next
        /\ todo \cap (Discovery \cup {TheShardList}) = {} /\ kept' = kept /\ errs \subseteq errs'
    BY <2>1, GoOnMoves
  <2>4. ~Door /\ todo # {TheCollections}
    BY <1>0, <2>3, NotAtTheDoor DEF TheUsage, TheCollections, Entry
  <2>5. CASE Lost \/ ~General
    BY <1>1, <2>3, <2>5 DEF Moved, IndexAuditCover, General
  <2>6. CASE IndexAuditAsks
    <3>1. Sets' = Sets /\ call' = call
      BY <2>3 DEF Moved, Sets
    <3>2. \A i \in Discovery \cup {TheShardList} : i \notin todo'
      BY <2>2, <2>3 DEF Discovery, TheShardList
    <3>3. Discovery' = Discovery /\ TheUsage # TheShardList
      BY <3>1 DEF Discovery, TheUsage, TheShardList
    <3>4. NodesAsked'
      BY <2>3, <2>6, <3>2, <3>3, NodesStillAsked DEF IndexAuditAsks
    <3>5. \A i \in todo' : i[1] \notin Before
      BY <2>2, <2>3, <2>6 DEF IndexAuditAsks, Before, Entry
    <3>6. \A d \in Databases, c \in Collections : UsageAsked(d, c)'
      BY <2>2, <2>3 DEF UsageAsked
    <3>7. todo' \cap (Discovery' \cup {TheShardList'}) = {}
      BY <3>2, <3>3 DEF TheShardList
    <3>8. IndexAuditAsks'
      BY <3>1, <3>4, <3>5, <3>6, <3>7 DEF IndexAuditAsks
    <3> QED
      BY <1>1, <3>1, <3>8 DEF IndexAuditCover
  <2> QED
    BY <2>4, <2>5, <2>6 DEF IndexAuditCover
<1>10. ASSUME NEW d, NEW c, IndexAuditSize(d, c) PROVE Goal
  <2> DEFINE j == <<"size", d, c>>
             shell == <<"audited", d, c>>
             next == {<<"stats", d, c, m>> : m \in Targets}
  <2>1. CASE Collect(j, "refused", {}, {}, {<<j, "refused">>}, {shell})
    <3>1. stopped /\ stopped' = stopped /\ <<j, "refused">> \in errs' /\ call' = call
      BY <2>1 DEF Collect, Hear, Proceed, Answers, OrNone, Excusable
    <3> QED
      BY <1>1, <3>1 DEF Lost, IndexAuditCover
  <2>2. ASSUME NEW a, NEW building, NEW err,
               Collect(j, a, next, {}, err,
                       {shell} \cup When(a = "ok", {<<"building", d, c, i>> : i \in building}
                                              \cup {<<"size", d, c>>}))
        PROVE  Goal
    <3> DEFINE keep == {shell} \cup When(a = "ok", {<<"building", d, c, i>> : i \in building}
                                              \cup {<<"size", d, c>>})
    <3>1. \A k \in keep : k[1] # "target"
      BY DEF When
    <3>2. (\A i \in next : i[1] = "stats") /\ \A m \in Targets : <<"stats", d, c, m>> \in next
      OBVIOUS
    <3> HIDE DEF keep, next
    <3>3. Collect(j, a, next, {}, err, keep)
      BY <2>2 DEF keep
    <3>4. Hears(j, a) /\ todo' = (todo \ {j}) \cup next /\ kept' = kept \cup keep
      BY <3>3, CollectHears
    <3>5. \A e, b : j = <<"size", e, b>> => \A m \in Targets : <<"stats", e, b, m>> \in todo'
      BY <3>2, <3>4
    <3> QED
      BY <1>6, <3>1, <3>2, <3>4, <3>5 DEF Before, Entry
  <2> QED
    BY <1>10, <2>1, <2>2 DEF IndexAuditSize
<1>11. ASSUME NEW d, NEW c, NEW m, IndexAuditStats(d, c, m) PROVE Goal
  <2> DEFINE j == <<"stats", d, c, m>>
  <2>1. ASSUME NEW name, NEW a, NEW excused, NEW keep,
               \/ Record(name, j, a, excused, {}, keep)
               \/ RecordIfAsked(name, j, a, excused, {}, keep),
               \A k \in keep : k[1] # "target"
        PROVE  Goal
    <3>1. Hears(j, a) /\ todo' \subseteq todo /\ kept' \subseteq kept \cup keep
      BY <2>1, RecordHears
    <3> QED
      BY <1>6, <2>1, <3>1 DEF Before, Entry
  <2>2. CASE \E a \in Answers \ {"ok"} : RecordIfAsked("index_usage", j, a, {}, {}, {})
    BY <2>1, <2>2
  <2>3. ASSUME NEW a, NEW x, Record("index_usage", j, a, Excusable, {}, {<<"observed", d, c, m, x>>})
        PROVE  Goal
    <3>1. \A k \in {<<"observed", d, c, m, x>>} : k[1] # "target"
      OBVIOUS
    <3> QED
      BY <2>1, <2>3, <3>1
  <2> QED
    BY <1>11, <2>2, <2>3 DEF IndexAuditStats
<1>12. CASE IndexAuditReturn
  <2>1. PICK err \in {"none", "partial", "plain"} : Finish("result", err) /\ (err = "none" => errs = {})
    <3>1. CASE errs = {} /\ Finish("result", "none")
      BY <3>1
    <3>2. CASE Finish("result", "plain") \/ Finish("result", "partial")
      BY <3>2
    <3> QED
      BY <1>12, <3>1, <3>2 DEF IndexAuditReturn
  <2>2. /\ todo = {} /\ UNCHANGED <<todo, heard, statuses, errs, kept, stopped>>
        /\ call'.of = call.of /\ call'.on = call.on /\ call'.err = err /\ call'.at = "returned"
    BY <2>1 DEF Finish, Return, DiagInv, CallOK
  <2>3. /\ Cap' = Cap /\ General' = General /\ Sharded' = Sharded /\ Discovery' = Discovery
        /\ Targets' = Targets /\ Ok(TheShardList)' = Ok(TheShardList)
        /\ \A j : Asked(j)' = Asked(j)
    BY <2>2 DEF Cap, General, Sharded, Discovery, Sets, Targets, Of, Ok, Asked, TheShardList
  <2>4. ASSUME General, err = "none" \/ ~stopped, NEW j \in Expected' PROVE Asked(j)
    <3>1. IndexAuditAsks
      BY <2>1, <2>2, <2>4 DEF IndexAuditCover, Door, Lost
    <3>2. j \in When(Sharded, {TheShardList}) \cup When(~Unlisted', Discovery)
               \cup {<<"size", r[1], r[2]>> : r \in Selected}
               \cup {<<"stats", r[1], r[2], m>> : r \in Selected, m \in Targets}
      BY <1>0, <2>3, <2>4 DEF Expected, When, Selected, TheShardList
    <3>3. NodesAsked /\ \A d \in Databases, c \in Collections : UsageAsked(d, c)
      BY <2>2, <3>1 DEF IndexAuditAsks
    <3>4. \A d \in Databases, c \in Collections :
             /\ Asked(<<"size", d, c>>)
             /\ \A m \in Targets : Asked(<<"stats", d, c, m>>)
      BY <2>2, <3>3 DEF UsageAsked, Handled
    <3>5. \A r \in Selected : r[1] \in Databases /\ r[2] \in Collections
      BY DEF Selected
    <3>6. CASE j \in {<<"stats", r[1], r[2], m>> : r \in Selected, m \in Targets}
      <4>1. PICK r \in Selected, m \in Targets : j = <<"stats", r[1], r[2], m>>
        BY <3>6
      <4> QED
        BY <3>4, <3>5, <4>1
    <3>7. CASE j \in {<<"size", r[1], r[2]>> : r \in Selected}
      BY <3>4, <3>5, <3>7
    <3>8. CASE j \in When(Sharded, {TheShardList})
      BY <2>2, <3>3, <3>8 DEF When, NodesAsked, Handled
    <3>9. CASE j \in When(~Unlisted', Discovery)
      <4>1. ~Unlisted' /\ j \in Discovery
        BY <3>9 DEF When
      <4>2. ~(Sharded /\ ~Ok(TheShardList) /\ errs # {})
        BY <2>1, <2>2, <2>3, <4>1 DEF Unlisted
      <4>3. \A s \in Sets : Handled(<<"targets", s>>)
        BY <2>2, <3>3, <4>2 DEF NodesAsked
      <4>4. \A s \in Sets : Asked(<<"targets", s>>)
        BY <2>2, <4>3 DEF Handled
      <4> QED
        BY <4>1, <4>4 DEF Discovery
    <3> QED
      BY <3>2, <3>6, <3>7, <3>8, <3>9
  <2>5. CASE ~General
    <3>1. Expected' = {}
      BY <1>0, <2>3, <2>5 DEF Expected
    <3> QED
      BY <2>2, <3>1 DEF Covered
  <2>6. CASE General
    <3>1. err = "none" \/ ~stopped => \A j \in Expected' : Asked(j)'
      BY <2>3, <2>4, <2>6
    <3> QED
      BY <2>2, <3>1 DEF Covered
  <2> QED
    BY <2>5, <2>6
<1> QED
  BY <1>3, <1>4, <1>5, <1>7, <1>7a, <1>8, <1>9, <1>10, <1>11, <1>12 DEF IndexAuditNext

-----------------------------------------------------------------------------
(* Covered follows: what a capability has to ask has been asked, or will be,  *)
(* or the end of the context has left an error.                               *)
CoverOf ==
    /\ Cap = "overview" => OverviewCover
    /\ Cap = "collstats" => CollStatsCover
    /\ Cap = "slowlog" => SlowlogCover
    /\ Cap = "doctor" => DoctorCover
    /\ Cap = "capacity" => CapacityCover
    /\ Cap = "hotspot" => HotspotCover
    /\ Cap = "indexaudit" => IndexAuditCover
CoverOK ==
    /\ Covered
    /\ call.at # "idle" /\ Cap = "slowlog" => "detail" \in DOMAIN call.of
    /\ call.at = "running" => CoverOf

LEMMA BeginCovers ==
  ASSUME DiagInv, NEW c \in Calls, Begin(c)
  PROVE  CoverOK'
<1>1. /\ call'.at = "running" /\ call'.of = c /\ todo' = {TheTopology}
      /\ heard' = {}
  BY DEF Begin, DiagInv
<1>2. TheTopology[1] \in Entry
  BY DEF TheTopology, Entry
<1>3. Door' /\ Listing'
  BY <1>1, <1>2 DEF Door, Listing, Before
<1>4. CoverOf'
  BY <1>3 DEF CoverOf, OverviewCover, CollStatsCover, SlowlogCover, DoctorCover, CapacityCover,
              HotspotCover, IndexAuditCover
<1>5. Cap' = "slowlog" => "detail" \in DOMAIN call'.of
  BY <1>1, CallsAssumption DEF Cap
<1> QED
  BY <1>1, <1>4, <1>5, RunningCovered DEF CoverOK

LEMMA StandingCovers ==
  ASSUME CoverOf, UNCHANGED <<call, todo, heard, errs, kept>>, stopped => stopped'
  PROVE  CoverOf'
<1>1. UNCHANGED <<call, todo, heard, errs, kept>> /\ (stopped => stopped')
  OBVIOUS
<1>2. /\ Cap' = Cap /\ Sharded' = Sharded /\ Sets' = Sets /\ General' = General
      /\ ShardPrimaries' = ShardPrimaries /\ Targets' = Targets
  BY <1>1 DEF Cap, Sharded, Sets, General, ShardPrimaries, Targets, Of
<1>3. \A j : Handled(j)' = Handled(j) /\ Asked(j)' = Asked(j) /\ Ok(j)' = Ok(j)
  BY <1>1 DEF Handled, Asked, Ok
<1>4. Door' = Door /\ (Lost => Lost') /\ Listing' = Listing
  BY <1>1 DEF Door, Lost, Listing
<1>5. \A s : DataNodes(s)' = DataNodes(s) /\ Profiles(s)' = Profiles(s) /\ DiskJobs(s)' = DiskJobs(s)
             /\ Members(s)' = Members(s)
  BY <1>1, <1>2, <1>3 DEF DataNodes, Profiles, DiskJobs, Members, Role, HoldsData, When
<1>6. OverviewCover => OverviewCover'
  BY <1>1, <1>2, <1>3, <1>4, <1>5 DEF OverviewCover, OverviewAsks
<1>7. CollStatsCover => CollStatsCover'
  BY <1>1, <1>2, <1>3, <1>4 DEF CollStatsCover, CollStatsAsks
<1>8. SlowlogCover => SlowlogCover'
  BY <1>1, <1>2, <1>3, <1>4, <1>5 DEF SlowlogCover, SlowlogAsks
<1>9. DoctorCover => DoctorCover'
  <2>1. \A s : DoctorNodesAsked(s)' = DoctorNodesAsked(s) /\ OplogAsked(s)' = OplogAsked(s)
    BY <1>1, <1>3, <1>5 DEF DoctorNodesAsked, OplogAsked, Role
  <2> QED
    BY <1>1, <1>2, <1>3, <1>4, <1>5, <2>1 DEF DoctorCover, DoctorAsks
<1>10. CapacityCover => CapacityCover'
  BY <1>1, <1>2, <1>3, <1>4 DEF CapacityCover, CapacityAsks
<1>11. HotspotCover => HotspotCover'
  <2>1. HotspotLost => HotspotLost'
    BY <1>1, <1>2 DEF HotspotLost, Discovering, Discovery
  <2>2. ReadNodes(1)' = ReadNodes(1)
    BY <1>1, <1>2 DEF ReadNodes, Read, Of
  <2>3. HotspotAsks => HotspotAsks'
    BY <1>1, <1>2, <1>3, <2>2 DEF HotspotAsks, ReadingsAsked
  <2> QED
    BY <1>4, <2>1, <2>3 DEF HotspotCover
<1>12. IndexAuditCover => IndexAuditCover'
  BY <1>1, <1>2, <1>3, <1>4 DEF IndexAuditCover, IndexAuditAsks, NodesAsked, UsageAsked, Discovery,
    TheShardList
<1> QED
  BY <1>1, <1>2, <1>6, <1>7, <1>8, <1>9, <1>10, <1>11, <1>12 DEF CoverOf

LEMMA StillCovered ==
  ASSUME UNCHANGED vars, Covered
  PROVE  Covered'
<1>1. call' = call /\ heard' = heard /\ kept' = kept /\ stopped' = stopped
  BY DEF vars
<1>2. Expected' = Expected
  BY <1>1 DEF Expected, Cap, Sets, Sharded, DataNodes, Members, Role, Stats, Reached, Ok, Profiles,
       HoldsData, Oplog, DiskJobs, When, DatabaseJobs, Selected, ShardPrimaries, Of, Discovery,
       ReadJobs, ReadNodes, Read, Targets, General, Unlisted
<1>3. \A j : Asked(j)' = Asked(j)
  BY <1>1 DEF Asked
<1>4. Returned' = Returned /\ Passed' = Passed /\ Cap' = Cap
  BY <1>1 DEF Returned, Passed, Cap, Wire
<1> QED
  BY <1>1, <1>2, <1>3, <1>4 DEF Covered

LEMMA OperationsCovers ==
  ASSUME DiagInv, OperationsNext
  PROVE  Covered'
<1>1. Cap' = "operations"
  BY OperationsKeeps, WhoseStep DEF Carried
<1>2. Expected' = {}
  BY <1>1 DEF Expected
<1> QED
  BY <1>2 DEF Covered

LEMMA CoverInit == Init => CoverOK
<1> SUFFICES ASSUME Init PROVE CoverOK
  OBVIOUS
<1>1. call.at = "idle"
  BY DEF Init
<1> QED
  BY <1>1 DEF CoverOK, Covered, Returned

LEMMA CoverNext == DiagInv /\ CoverOK /\ [Next]_vars => CoverOK'
<1> SUFFICES ASSUME DiagInv, CoverOK, [Next]_vars PROVE CoverOK'
  OBVIOUS
<1>1. CASE UNCHANGED vars
  <2>1. UNCHANGED <<call, todo, heard, errs, kept, stopped>>
    BY <1>1 DEF vars
  <2>2. call.at = "running" => CoverOf'
    BY <2>1, StandingCovers DEF CoverOK
  <2> QED
    BY <1>1, <2>1, <2>2, StillCovered DEF CoverOK, Cap
<1>2. CASE Stop
  <2>1. /\ call.at = "running" /\ stopped' /\ UNCHANGED <<call, todo, heard, errs, kept>>
    BY <1>2 DEF Stop
  <2>2. CoverOf'
    BY <2>1, StandingCovers DEF CoverOK
  <2> QED
    BY <2>1, <2>2, RunningCovered DEF CoverOK, Cap
<1>3. CASE \E c \in Calls : Begin(c)
  BY <1>3, BeginCovers
<1>4. ASSUME Cap' = Cap, Cap # "slowlog", Covered', call'.at = "running" => CoverOf'
      PROVE  CoverOK'
  BY <1>4 DEF CoverOK
<1>5. ASSUME call.at = "running" PROVE CoverOf
  BY <1>5 DEF CoverOK
<1>6. CASE OverviewNext
  <2>1. call.at = "running" /\ Cap = "overview" /\ Cap' = "overview"
    BY <1>6, WhoseStep, OverviewKeeps DEF Carried, OverviewNext, OverviewDetect, Running
  <2> QED
    BY <1>4, <1>5, <1>6, <2>1, OverviewCovers DEF CoverOf
<1>7. CASE CollStatsNext
  <2>1. call.at = "running" /\ Cap = "collstats" /\ Cap' = "collstats"
    BY <1>7, WhoseStep, CollStatsKeeps DEF Carried, CollStatsNext, CollStatsBegin, Running
  <2> QED
    BY <1>4, <1>5, <1>7, <2>1, CollStatsCovers DEF CoverOf
<1>8. CASE DoctorNext
  <2>1. call.at = "running" /\ Cap = "doctor" /\ Cap' = "doctor"
    BY <1>8, WhoseStep, DoctorKeeps DEF Carried, DoctorNext, DoctorDetect, DoctorBreak, DoctorReturn, Running
  <2> QED
    BY <1>4, <1>5, <1>8, <2>1, DoctorCovers DEF CoverOf
<1>9. CASE CapacityNext
  <2>1. call.at = "running" /\ Cap = "capacity" /\ Cap' = "capacity"
    BY <1>9, WhoseStep, CapacityKeeps DEF Carried, CapacityNext, CapacityDetect, CapacityReturn, Running
  <2> QED
    BY <1>4, <1>5, <1>9, <2>1, CapacityCovers DEF CoverOf
<1>10. CASE HotspotNext
  <2>1. call.at = "running" /\ Cap = "hotspot" /\ Cap' = "hotspot"
    BY <1>10, WhoseStep, HotspotKeeps DEF Carried, HotspotNext, HotspotDetect, HotspotReturn, Running
  <2> QED
    BY <1>4, <1>5, <1>10, <2>1, HotspotCovers DEF CoverOf
<1>11. CASE IndexAuditNext
  <2>1. call.at = "running" /\ Cap = "indexaudit" /\ Cap' = "indexaudit"
    BY <1>11, WhoseStep, IndexAuditKeeps DEF Carried, IndexAuditNext, IndexAuditDetect, IndexAuditReturn, Running
  <2> QED
    BY <1>4, <1>5, <1>11, <2>1, IndexAuditCovers DEF CoverOf
<1>12. CASE OperationsNext
  <2>1. Cap' = Cap /\ Cap = "operations"
    BY <1>12, WhoseStep, OperationsKeeps DEF Carried
  <2> QED
    BY <1>4, <1>12, <2>1, OperationsCovers DEF CoverOf
<1>13. CASE SlowlogNext
  <2>1. Cap = "slowlog" /\ Cap' = "slowlog" /\ call.at # "idle"
    BY <1>13, WhoseStep, SlowlogKeeps DEF Carried, SlowlogNext, SlowlogDetect, SlowlogBreak,
       SlowlogReturn, DetailLocate, DetailAgain, DetailReturn, Running, Returned
  <2>2. "detail" \in DOMAIN call.of /\ (call.at = "running" => SlowlogCover)
    BY <2>1 DEF CoverOK, CoverOf
  <2>3. Covered' /\ (call'.at = "running" => SlowlogCover')
    BY <1>13, <2>2, SlowlogCovers
  <2>4. "detail" \in DOMAIN call'.of
    BY <1>13, <2>2, SlowlogOptions
  <2> QED
    BY <2>1, <2>3, <2>4 DEF CoverOK, CoverOf
<1> QED
  BY <1>1, <1>2, <1>3, <1>6, <1>7, <1>8, <1>9, <1>10, <1>11, <1>12, <1>13 DEF Next, vars

(* One failure does not keep the others from being asked (goals/01, rule 5 on *)
(* partial results).  A call that returns a result, and no error or one that   *)
(* is not the end of its context, has asked for everything that its answers    *)
(* led to, whatever else failed.                                               *)
THEOREM EverythingAsked == Spec => []Covered
<1>1. CoverOK => Covered
  BY DEF CoverOK
<1> QED
  BY <1>1, CoverInit, CoverNext, DiagAlways, PTL DEF Spec
================================================================================
