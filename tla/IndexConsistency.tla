--------------------------- MODULE IndexConsistency ---------------------------
(***************************************************************************)
(* The audit that compares the indexes of sharded collections between      *)
(* shards (src/pkg/mot/index_consistency.go): the routing of every         *)
(* collection is read first, the server's version picks a strategy, and    *)
(* each collection is then audited by a goroutine of its own: by what the  *)
(* server itself reports, or by the definitions $indexStats returns, or by *)
(* those each shard lists, falling back from one to the next, with a       *)
(* second reading of what differs.                                         *)
(*                                                                         *)
(* The readings are not atomic: indexes are created, built and dropped,    *)
(* and chunks move, between any two of them.                               *)
(*                                                                         *)
(* Collections and shards are numbers, in the order of their names.  A     *)
(* member of Specs is the semantic fingerprint of a definition, which      *)
(* leaves its name out.  The index on _id, which every shard that has the  *)
(* collection lists, is not shown.                                         *)
(***************************************************************************)
EXTENDS Naturals, FiniteSets

CONSTANTS
    Collections, \* the collections that are selected
    DatabaseOf,
    Kinds,       \* what they can be: "sharded", "unsharded", "view"
    Shards, Names, Specs,
    Ownings,     \* sets of shards that may own chunks when the audit begins
    Catalogs,    \* the definitions on each shard when it begins
    MaxChanges,  \* bound: changes of the cluster during one audit
    Versions,    \* server versions; <<>> is one that cannot be parsed
    Filterings,  \* whether IndexAuditOptions.Collections can be given
    Concurrency, \* IndexAuditOptions.Concurrency
    Answers      \* what the server's own check can say of one collection

Definitions == [name : Names, spec : Specs, building : BOOLEAN]
Issues == {"missing", "differs", "unmapped", "shard key", "unknown", "foreign"}

(* A server has one definition of a name, and one name of a definition. *)
OneEach(D) == \A d, e \in D : d.name = e.name \/ d.spec = e.spec => d = e

ASSUME ConsistencyAssumption ==
    /\ Collections \subseteq Nat /\ IsFiniteSet(Collections)
    /\ Shards \subseteq Nat /\ IsFiniteSet(Shards)
    /\ Kinds \subseteq {"sharded", "unsharded", "view"}
    /\ Ownings \subseteq SUBSET Shards
    /\ IsFiniteSet(Names) /\ IsFiniteSet(Specs)
    /\ Catalogs \subseteq [Shards -> SUBSET Definitions]
    /\ \A cat \in Catalogs, s \in Shards : OneEach(cat[s])
    /\ Concurrency \in Nat \ {0} /\ MaxChanges \in Nat
    /\ Answers \subseteq SUBSET Issues
    /\ Filterings \subseteq BOOLEAN

Databases == {DatabaseOf[c] : c \in Collections}

VARIABLES
    catalog, \* the cluster: the definitions of each collection on each shard
    owners,  \* the shards that own chunks of each collection
    was,     \* history: every catalog a collection has had during the audit
    lately,  \* history: those since it began to be read a second time
    changes, \* how often the cluster has changed
    kind,    \* what each collection is
    version, \* the server's version
    filtered, \* whether IndexAuditOptions.Collections is given
    done,    \* whether the caller's context is cancelled
    phase,   \* where collectIndexConsistency is
    routing, \* indexRoutingOutcome of each collection
    target,  \* targetErr, strategy and the shards that can be reached
    scope,   \* officialConsistencyScope of each database
    audit,   \* auditIndexConsistencyCollection of each collection
    errors,  \* whether collectorErrors has an entry
    failed,  \* history: why remote readings have failed
    reply    \* what the caller is given

cluster == <<catalog, owners, was, lately, changes>>
fixed == <<kind, version, filtered>>
discovered == <<routing, target, scope>>
outcome == <<errors, failed>>
vars == <<cluster, fixed, done, phase, discovered, audit, outcome, reply>>

-----------------------------------------------------------------------------
(* Why a reading fails: "unauthorized" stands for what is no collector error *)
(* (isUnauthorizedError, isUnsupportedDiagnosticError), "failed" for what    *)
(* is, "timeout" for what a context does.                                    *)
Reasons == {"unauthorized", "failed", "timeout"}
Why == IF done THEN {"timeout"} ELSE Reasons

(* consistencyCollectorErrors: whether there is something to report. *)
ExcusedTimeout(e) == e \in {"none", "unauthorized", "timeout"}
Excused(e) == e \in {"none", "unauthorized"}

Unread == "unread"
NoRoute == [err |-> Unread, sharded |-> FALSE, expected |-> {}]
NoScope == [err |-> Unread, issues |-> {}]
NotSeen == [err |-> Unread, shards |-> {}, builds |-> {}]
NoFallback == [from |-> "none", to |-> "none", reason |-> "none"]
NoVerdict == [state |-> "none", complete |-> FALSE, diffs |-> {}]
Nothing == [s \in {} |-> {}]

NewAudit ==
    [at |-> "queued",           \* where the goroutine is
     strategy |-> "none",       \* finalStrategy
     fallback |-> NoFallback,
     official |-> NoScope,      \* what the server's own check said
     seen |-> NotSeen,          \* indexCollectionVisibility
     why |-> "none",            \* why $indexStats failed
     todo |-> {},               \* the shards still to be read
     first |-> Nothing,         \* what was observed of each shard
     reread |-> FALSE,          \* whether it was read a second time
     second |-> Nothing,
     faulty |-> FALSE,          \* whether there are collector errors
     verdict |-> NoVerdict]

Init ==
    /\ catalog \in [Collections -> Catalogs]
    /\ owners \in [Collections -> Ownings]
    /\ was = [c \in Collections |-> {catalog[c]}]
    /\ lately = [c \in Collections |-> {}]
    /\ changes = 0
    /\ kind \in [Collections -> Kinds]
    /\ version \in Versions
    /\ filtered \in Filterings
    /\ done = FALSE
    /\ phase = "routing"
    /\ routing = [c \in Collections |-> NoRoute]
    /\ target = [err |-> "none", strategy |-> "none", shards |-> {}]
    /\ scope = [d \in Databases |-> NoScope]
    /\ audit = [c \in Collections |-> NewAudit]
    /\ errors = FALSE /\ failed = {}
    /\ reply = "none"

Least(S) == CHOOSE x \in S : \A y \in S : x <= y
With(f, x, v) == [y \in DOMAIN f \cup {x} |-> IF y = x THEN v ELSE f[y]]
Without(f, S) == [y \in DOMAIN f \ S |-> f[y]]

-----------------------------------------------------------------------------
(* Evaluation.  An observation is a function from shards to definitions.     *)

Difference(code, names, shards, specs) ==
    [code |-> code, names |-> names, shards |-> shards, specs |-> specs]
Inconclusive == Difference("consistency_inconclusive", {}, {}, {})
Warnings == {"missing_on_shard", "name_mismatch", "spec_mismatch", "shard_key_support_missing"}

AllOf(obs) == UNION {obs[s] : s \in DOMAIN obs}
NamesIn(D) == {d.name : d \in D}
SpecsIn(D) == {d.spec : d \in D}
Called(n, D) == {d \in D : d.name = n}
Meaning(p, D) == {d \in D : d.spec = p}
Building(obs) == {d \in AllOf(obs) : d.building}
Observed(expected, obs) == expected \cap DOMAIN obs

(* markBuildingDefinitions *)
Mark(D, builds) == {[d EXCEPT !.building = @ \/ d.name \in builds] : d \in D}

(* The code counts holders; it does not ask whether they are the expected. *)
OnSome(holders, expected) == holders # {}
OnAll(holders, expected) == Cardinality(holders) = Cardinality(expected)

(* compareLegacyDefinitions, which leaves out what is being built. *)
Candidates(expected, obs, names, specs) ==
    LET kept == [s \in DOMAIN obs |->
                   {d \in obs[s] : d.name \notin names /\ d.spec \notin specs}]
        holders(n) == {s \in DOMAIN obs : Called(n, kept[s]) # {}}
        knowers(p) == {s \in DOMAIN obs : Meaning(p, kept[s]) # {}}
        namesOf(p) == NamesIn(UNION {Meaning(p, kept[s]) : s \in expected})
        renamed == {p \in SpecsIn(AllOf(kept)) :
                      OnAll(knowers(p), expected) /\ Cardinality(namesOf(p)) > 1}
        rest == NamesIn(AllOf(kept)) \ UNION {namesOf(p) : p \in renamed}
        lacking == {n \in rest : ~OnAll(holders(n), expected)}
        specsOf(n) == SpecsIn(Called(n, AllOf(kept)))
        reference(n) == UNION {SpecsIn(Called(n, kept[s])) :
                                 s \in {t \in expected \cap holders(n) :
                                          \A u \in expected \cap holders(n) : t <= u}}
    IN  {Difference("name_mismatch", namesOf(p), expected, {p}) : p \in renamed}
          \cup {Difference("missing_on_shard", {n}, expected \ holders(n), reference(n)) :
                    n \in lacking}
          \cup {Difference("spec_mismatch", {n}, expected, specsOf(n)) :
                    n \in {m \in rest \ lacking : Cardinality(specsOf(m)) > 1}}

FirstCandidates(expected, obs) ==
    Candidates(Observed(expected, obs), obs,
               NamesIn(Building(obs)), SpecsIn(Building(obs)))

(* What both observations show; the first alone would do for a hasty one. *)
Hasty(before, after) == before
Stable(before, after) == before \cap after

(* evaluateLegacyIndexConsistency *)
Legacy(expected, first, reread, second) ==
    LET shards == Observed(expected, first)
        before == FirstCandidates(expected, first)
        again == before # {} /\ reread /\ shards \subseteq DOMAIN second
        built == Building(first) \cup (IF again THEN Building(second) ELSE {})
        after == Candidates(shards, second, NamesIn(built), SpecsIn(built))
        stable == IF again THEN Stable(before, after) ELSE {}
        complete == shards = expected /\ (before = {} \/ again)
        vague == ~complete \/ stable # before
    IN  [complete |-> complete,
         state |-> CASE stable # {} -> "inconsistent"
                     [] stable = {} /\ (vague \/ built # {}) -> "inconclusive"
                     [] OTHER -> "consistent",
         diffs |-> stable \cup (IF vague THEN {Inconclusive} ELSE {})
                     \cup {Difference("build_in_progress", {n}, {}, {}) :
                               n \in NamesIn(built)}]

(* evaluateOfficialIndexConsistency *)
Official(expected, seen, issues) ==
    LET code == [missing |-> "missing_on_shard", differs |-> "spec_mismatch",
                 unmapped |-> "consistency_inconclusive",
                 unknown |-> "consistency_inconclusive"]
        certain == issues \cap {"missing", "differs", "shard key"}
        complete == expected \subseteq seen
        vague == ~complete \/ issues \cap {"unmapped", "unknown"} # {}
    IN  [complete |-> complete,
         state |-> CASE certain # {} -> "inconsistent"
                     [] certain = {} /\ vague -> "inconclusive"
                     [] OTHER -> "consistent",
         diffs |-> {Difference(IF i = "shard key" THEN "shard_key_support_missing"
                               ELSE code[i], {}, {}, {}) : i \in certain}
                     \cup (IF vague THEN {Inconclusive} ELSE {})]

(* incompleteConsistencyEvaluation *)
Incomplete == [complete |-> FALSE, state |-> "inconclusive", diffs |-> {Inconclusive}]

(* applyConsistencyCoverageGap; trusting the strategy, one would not ask     *)
(* which shards the collection is visible on.                                *)
Trusting(v, lost) == v
WithGap(v, lost) ==
    IF ~lost THEN v
    ELSE [complete |-> FALSE, diffs |-> v.diffs \cup {Inconclusive},
          state |-> IF v.state = "inconsistent" THEN v.state ELSE "inconclusive"]

(* applyCollectionIndexBuilds *)
WithBuilds(v, builds) ==
    [v EXCEPT !.diffs = @ \cup {Difference("build_in_progress", {n}, {}, {}) : n \in builds},
              !.state = IF builds # {} /\ @ = "consistent" THEN "inconclusive" ELSE @]

-----------------------------------------------------------------------------
(* collectIndexConsistency, before the collections.  A reading that succeeds *)
(* does so while the context is live.                                        *)

Fails(e) == failed' = failed \cup {e}

(* Routing: the collection's metadata and then its chunks, which may be gone *)
(* by then.                                                                  *)
ReadRouting(c) ==
    /\ phase = "routing" /\ kind[c] # "view" /\ routing[c].err = Unread
    /\ \/ /\ ~done
          /\ \E S \in IF kind[c] = "sharded" THEN {owners[c], {}} ELSE {{}} :
                routing' = [routing EXCEPT ![c] =
                    [err |-> "none", sharded |-> kind[c] = "sharded", expected |-> S]]
          /\ UNCHANGED failed
       \/ \E e \in Why :
             routing' = [routing EXCEPT ![c].err = e] /\ Fails(e)
    /\ UNCHANGED <<cluster, fixed, done, phase, target, scope, audit, errors, reply>>

Sharded == {c \in Collections : routing[c].err = "none" /\ routing[c].sharded}

EndRouting ==
    /\ phase = "routing"
    /\ \A c \in Collections : kind[c] # "view" => routing[c].err # Unread
    /\ phase' = IF Sharded # {} THEN "version" ELSE "dispatch"
    /\ UNCHANGED <<cluster, fixed, done, discovered, audit, outcome, reply>>

(* compareVersion *)
AtLeast(v, w) ==
    \/ v[1] > w[1]
    \/ v[1] = w[1] /\ v[2] > w[2]
    \/ v[1] = w[1] /\ v[2] = w[2] /\ v[3] >= w[3]

(* indexConsistencyStrategyForVersion *)
StrategyFor(v) ==
    CASE v = <<>> -> "unsupported"
      [] v # <<>> /\ (~AtLeast(v, <<3, 4, 0>>) \/ AtLeast(v, <<8, 0, 0>>)) -> "unsupported"
      [] v # <<>> /\ AtLeast(v, <<3, 4, 0>>) /\ ~AtLeast(v, <<4, 2, 4>>) -> "direct"
      [] v # <<>> /\ AtLeast(v, <<4, 2, 4>>) /\ ~AtLeast(v, <<7, 0, 0>>) -> "stats"
      [] OTHER -> "metadata"

ReadVersion ==
    /\ phase = "version"
    /\ \/ /\ ~done
          /\ target' = [target EXCEPT !.strategy = StrategyFor(version)]
          /\ phase' = IF StrategyFor(version) = "unsupported" THEN "dispatch" ELSE "shards"
          /\ UNCHANGED failed
       \/ \E e \in Why :
             target' = [target EXCEPT !.err = e] /\ phase' = "dispatch" /\ Fails(e)
    /\ UNCHANGED <<cluster, fixed, done, routing, scope, audit, errors, reply>>

ByDatabase == target.strategy = "metadata" /\ ~filtered

(* listShards; a shard may have been added or removed since the routing. *)
ReadShards ==
    /\ phase = "shards"
    /\ \/ /\ ~done
          /\ \E S \in {Shards} \cup {Shards \ {s} : s \in Shards} :
                target' = [target EXCEPT !.shards = S]
          /\ phase' = IF ByDatabase THEN "scopes" ELSE "dispatch"
          /\ UNCHANGED failed
       \/ \E e \in Why :
             target' = [target EXCEPT !.err = e] /\ phase' = "dispatch" /\ Fails(e)
    /\ UNCHANGED <<cluster, fixed, done, routing, scope, audit, errors, reply>>

Said(C) == [err |-> "none", issues |-> C]

(* checkMetadataConsistency of a whole database, one after the other, until  *)
(* the context is done: what is left then keeps the zero value.              *)
ReadScope(d) ==
    LET left == {DatabaseOf[c] : c \in Sharded} \ {e \in Databases : scope[e].err # Unread}
    IN
    /\ phase = "scopes" /\ d \in left
    /\ \/ /\ ~done
          /\ \E f \in [{c \in Collections : DatabaseOf[c] = d} -> Answers] :
                scope' = [scope EXCEPT ![d] =
                    Said(UNION {{<<c, i>> : i \in f[c]} : c \in DOMAIN f})]
          /\ UNCHANGED failed
       \/ \E e \in Why :
             scope' = [scope EXCEPT ![d].err = e] /\ Fails(e)
    /\ phase' = IF done \/ left = {d} THEN "dispatch" ELSE "scopes"
    /\ UNCHANGED <<cluster, fixed, done, routing, target, audit, errors, reply>>

-----------------------------------------------------------------------------
(* One goroutine for each collection, as many at a time as Concurrency says. *)

Queued == {c \in Collections : audit[c].at = "queued"}
Running == {c \in Collections : audit[c].at \notin {"queued", "done"}}

Becomes(c, a) == audit' = [audit EXCEPT ![c] = a]

(* metadataIssuesForNamespace, and the zero value of a database not read. *)
OfNamespace(c) ==
    LET s == scope[DatabaseOf[c]] IN
    [err |-> IF s.err = Unread THEN "none" ELSE s.err,
     issues |-> {i \in s.issues : i[1] = c}]

Dispatch(c) ==
    /\ phase = "dispatch" /\ ~done
    /\ c \in Queued /\ c = Least(Queued)
    /\ Cardinality(Running) < Concurrency
    /\ Becomes(c, [audit[c] EXCEPT !.at = "start", !.strategy = target.strategy,
                     !.official = IF ByDatabase THEN OfNamespace(c) ELSE @])
    /\ UNCHANGED <<cluster, fixed, done, phase, discovered, outcome, reply>>

(* acquireDiagnosticSlot fails: the rest is left out. *)
EndDispatch ==
    /\ phase = "dispatch"
    /\ \/ Queued = {} /\ UNCHANGED errors
       \/ Queued # {} /\ done /\ errors' = TRUE
    /\ phase' = "waiting"
    /\ UNCHANGED <<cluster, fixed, done, discovered, audit, failed, reply>>

(* IndexAudit, when nothing but the consistency was asked for. *)
Return ==
    LET results == {c \in Collections : audit[c].at = "done"} IN
    /\ phase = "waiting" /\ Running = {}
    /\ phase' = "returned"
    /\ reply' = CASE ~errors -> "ok"
                  [] errors /\ results # {} -> "partial"
                  [] errors /\ results = {} -> "error"
    /\ UNCHANGED <<cluster, fixed, done, discovered, audit, outcome>>

-----------------------------------------------------------------------------
(* auditIndexConsistencyCollection *)

Expected(c) == routing[c].expected

Conclude(c, a, v) ==
    /\ Becomes(c, [a EXCEPT !.at = "done", !.verdict = v])
    /\ errors' = (errors \/ a.faulty)

Blank == NoVerdict
Skipped == [NoVerdict EXCEPT !.state = "skipped"]

(* A view, a collection that is not sharded, a version nobody supports. *)
NotAudited(c) ==
    \/ kind[c] = "view"
    \/ routing[c].err = "none" /\ (~routing[c].sharded \/ target.strategy = "unsupported")

WhyBlocked(c) == IF routing[c].err # "none" THEN routing[c].err ELSE target.err
Blocked(c) ==
    \/ WhyBlocked(c) # "none"
    \/ Expected(c) = {}
    \/ ~(Expected(c) \subseteq target.shards)

Start(c) ==
    /\ audit[c].at = "start"
    /\ \/ /\ NotAudited(c)
          /\ Conclude(c, audit[c], Skipped)
       \/ /\ ~NotAudited(c) /\ Blocked(c)
          /\ Conclude(c, [audit[c] EXCEPT !.faulty = ~Excused(WhyBlocked(c))], Incomplete)
       \/ /\ ~NotAudited(c) /\ ~Blocked(c)
          /\ Becomes(c, [audit[c] EXCEPT !.at =
                 IF @ = "start" /\ target.strategy = "metadata" /\ filtered
                 THEN "metadata" ELSE "visibility"])
          /\ UNCHANGED errors
    /\ UNCHANGED <<cluster, fixed, done, phase, discovered, failed, reply>>

(* checkMetadataConsistency of this collection. *)
ReadMetadata(c) ==
    LET told(s) == Becomes(c, [audit[c] EXCEPT !.at = "visibility", !.official = s]) IN
    /\ audit[c].at = "metadata"
    /\ \/ ~done /\ (\E I \in Answers : told(Said({<<c, i>> : i \in I}))) /\ UNCHANGED failed
       \/ \E e \in Why : told([NoScope EXCEPT !.err = e]) /\ Fails(e)
    /\ UNCHANGED <<cluster, fixed, done, phase, discovered, errors, reply>>

(* collStats: where the collection is visible, and what is being built. *)
ReadVisibility(c) ==
    LET sees(s) == Becomes(c, [audit[c] EXCEPT !.at = "choose", !.seen = s])
        building(S) == NamesIn({d \in UNION {catalog[c][s] : s \in S} : d.building})
    IN
    /\ audit[c].at = "visibility"
    /\ \/ /\ ~done
          /\ \E S \in {owners[c]} \cup {owners[c] \ {s} : s \in owners[c]} :
                sees([err |-> "none", shards |-> S, builds |-> building(S)])
          /\ UNCHANGED failed
       \/ \E e \in Why : sees([NotSeen EXCEPT !.err = e]) /\ Fails(e)
    /\ UNCHANGED <<cluster, fixed, done, phase, discovered, errors, reply>>

(* A failure of time is not made good by another strategy. *)
OutOfTime(e) == done \/ e = "timeout"

(* Only the first fallback says where it came from and why. *)
FromLast(a, to, why) == [from |-> a.strategy, to |-> to, reason |-> why]
FallBack(a, to, why) ==
    IF a.fallback = NoFallback THEN [from |-> a.strategy, to |-> to, reason |-> why]
    ELSE [a.fallback EXCEPT !.to = to]

ToDirect(c, a) == [a EXCEPT !.at = "direct", !.todo = Expected(c), !.first = Nothing]

(* What the server said is the answer, unless it said nothing. *)
Choose(c) ==
    LET a == audit[c]
        e == a.official.err
        b == [a EXCEPT !.faulty = @ \/ ~Excused(e)]
    IN
    /\ a.at = "choose"
    /\ \/ /\ a.strategy = "metadata" /\ e # "none" /\ OutOfTime(e)
          /\ Conclude(c, b, Incomplete)
       \/ /\ a.strategy = "metadata" /\ e # "none" /\ ~OutOfTime(e)
          /\ Becomes(c, [b EXCEPT !.at = "stats", !.strategy = "stats",
                                  !.fallback = FallBack(a, "stats", e)])
          /\ UNCHANGED errors
       \/ /\ a.strategy = "metadata" /\ e = "none"
          /\ Becomes(c, [a EXCEPT !.at = "finish"])
          /\ UNCHANGED errors
       \/ /\ a.strategy = "stats"
          /\ Becomes(c, [a EXCEPT !.at = "stats"])
          /\ UNCHANGED errors
       \/ /\ a.strategy = "direct"
          /\ Becomes(c, ToDirect(c, a))
          /\ UNCHANGED errors
    /\ UNCHANGED <<cluster, fixed, done, phase, discovered, failed, reply>>

-----------------------------------------------------------------------------
(* collectLegacyIndexConsistency *)

StatsFail(c) ==
    /\ audit[c].at \in {"stats", "reading"}
    /\ \E e \in Why :
          /\ Becomes(c, [audit[c] EXCEPT !.at = "judge", !.why = e, !.first = Nothing])
          /\ Fails(e)
    /\ UNCHANGED <<cluster, fixed, done, phase, discovered, errors, reply>>

(* $indexStats goes to the shards that own chunks now, in no order. *)
StartStats(c) ==
    /\ audit[c].at = "stats" /\ ~done
    /\ Becomes(c, [audit[c] EXCEPT !.at = "reading", !.todo = owners[c]])
    /\ UNCHANGED <<cluster, fixed, done, phase, discovered, outcome, reply>>

ReadStats(c) ==
    LET a == audit[c] IN
    /\ a.at = "reading" /\ ~done
    /\ \E s \in a.todo :
          Becomes(c, [a EXCEPT !.todo = @ \ {s}, !.first = With(@, s, catalog[c][s]),
                               !.at = IF a.todo = {s} THEN "judge" ELSE @])
    /\ UNCHANGED <<cluster, fixed, done, phase, discovered, outcome, reply>>

(* If it left out an expected shard, or failed, each shard is asked. *)
Judge(c) ==
    LET a == audit[c]
        whole == a.why = "none" /\ Expected(c) \subseteq DOMAIN a.first
        reason == IF a.why = "none" THEN "incomplete_coverage" ELSE a.why
        b == [a EXCEPT !.faulty = @ \/ ~Excused(a.why)]
    IN
    /\ a.at = "judge"
    /\ \/ whole /\ Becomes(c, [a EXCEPT !.at = "weigh"])
       \/ ~whole /\ OutOfTime(reason) /\ Becomes(c, [b EXCEPT !.at = "cut"])
       \/ /\ ~whole /\ ~OutOfTime(reason)
          /\ Becomes(c, ToDirect(c, [b EXCEPT !.strategy = "direct",
                                              !.fallback = FallBack(a, "direct", reason)]))
    /\ UNCHANGED <<cluster, fixed, done, phase, discovered, outcome, reply>>

(* listIndexes, which does not say what is being built. *)
Listed(c, s) == {[d EXCEPT !.building = FALSE] : d \in catalog[c][s]}

(* collectDirectDefinitions, in the order of the shards: a shard that fails  *)
(* is passed over, and the end of the context ends the loop.                 *)
ReadShard(c, s, observed, next) ==
    LET a == audit[c]
        rest == a.todo \ {s}
        fault == [a EXCEPT !.faulty = TRUE, !.todo = {}, !.at = next]
        pass(e) == [a EXCEPT !.faulty = @ \/ ~Excused(e), !.todo = rest,
                             !.at = IF rest = {} THEN next ELSE @]
    IN
    \/ done /\ Becomes(c, fault) /\ Fails("timeout")
    \/ ~done /\ (\E e \in Reasons : Becomes(c, pass(e)) /\ Fails(e))
    \/ ~done /\ Becomes(c, observed) /\ UNCHANGED failed

ReadDirect(c) ==
    LET a == audit[c]
        s == Least(a.todo)
        observed == [a EXCEPT !.first = With(@, s, Listed(c, s)), !.todo = @ \ {s},
                              !.at = IF a.todo = {s} THEN "weigh" ELSE @]
    IN
    /\ a.at = "direct"
    /\ ReadShard(c, s, observed, "weigh")
    /\ UNCHANGED <<cluster, fixed, done, phase, discovered, errors, reply>>

(* confirmLegacyDifferences: what differs is read once more. *)
Weigh(c) ==
    LET a == audit[c]
        first == [s \in DOMAIN a.first |-> Mark(a.first[s], a.seen.builds)]
        shards == Observed(Expected(c), first)
        found == FirstCandidates(Expected(c), first)
        affected == (UNION {d.shards : d \in found})
                      \cup (IF \E d \in found : d.code = "missing_on_shard"
                            THEN shards ELSE {})
        b == [a EXCEPT !.first = first]
    IN
    /\ a.at = "weigh"
    /\ \/ /\ Cardinality(shards) < 2 \/ found = {}
          /\ Becomes(c, [b EXCEPT !.at = "finish"])
          /\ UNCHANGED lately
       \/ /\ Cardinality(shards) >= 2 /\ found # {} /\ done
          /\ Becomes(c, [b EXCEPT !.at = "finish", !.faulty = TRUE])
          /\ UNCHANGED lately
       \/ /\ Cardinality(shards) >= 2 /\ found # {} /\ ~done
          /\ Becomes(c, [b EXCEPT !.at = "confirm", !.reread = TRUE,
                                  !.todo = affected \cap shards,
                                  !.second = Without(first, affected)])
          /\ lately' = [lately EXCEPT ![c] = {catalog[c]}]
    /\ UNCHANGED <<catalog, owners, was, changes, fixed, done, phase, discovered, outcome,
                   reply>>

Confirm(c) ==
    LET a == audit[c]
        s == Least(a.todo)
        observed == [a EXCEPT !.second = With(@, s, Mark(Listed(c, s), a.seen.builds)),
                              !.todo = @ \ {s},
                              !.at = IF a.todo = {s} THEN "finish" ELSE @]
    IN
    /\ a.at = "confirm"
    /\ ReadShard(c, s, observed, "finish")
    /\ UNCHANGED <<cluster, fixed, done, phase, discovered, errors, reply>>

(* The evaluation, less what was not visible or is being built. *)
Finish(c) ==
    LET a == audit[c]
        e == Expected(c)
        lost == a.seen.err # "none" \/ ~(e \subseteq a.seen.shards)
        v == CASE a.at = "cut" -> Incomplete
               [] a.at = "finish" /\ a.strategy = "metadata" ->
                      Official(e, a.seen.shards, {i[2] : i \in a.official.issues})
               [] OTHER -> Legacy(e, a.first, a.reread, a.second)
    IN
    /\ a.at \in {"finish", "cut"}
    /\ Conclude(c, [a EXCEPT !.faulty = @ \/ ~Excused(IF lost THEN a.seen.err ELSE "none")],
                WithBuilds(WithGap(v, lost), a.seen.builds))
    /\ UNCHANGED <<cluster, fixed, done, phase, discovered, failed, reply>>

-----------------------------------------------------------------------------
(* The caller, and the cluster. *)

Cancel ==
    /\ ~done /\ phase # "returned"
    /\ done' = TRUE
    /\ UNCHANGED <<cluster, fixed, phase, discovered, audit, outcome, reply>>

(* Before the routing is read, a change is another beginning; after the last *)
(* reading it cannot be seen.                                                *)
Changes(c, s, D) ==
    /\ changes < MaxChanges /\ changes' = changes + 1
    /\ kind[c] = "sharded" /\ routing[c].err = "none"
    /\ audit[c].at \in {"queued", "start", "metadata", "visibility", "choose", "stats",
                       "reading", "judge", "direct", "weigh", "confirm"}
    /\ catalog' = [catalog EXCEPT ![c][s] = D]
    /\ was' = [was EXCEPT ![c] = @ \cup {catalog'[c]}]
    /\ lately' = [lately EXCEPT ![c] = IF audit[c].reread THEN @ \cup {catalog'[c]} ELSE @]
    /\ UNCHANGED <<fixed, done, phase, discovered, audit, outcome, reply>>

(* The servers keep to OneEach. *)
StartBuild(c, s) ==
    /\ \E n \in Names \ NamesIn(catalog[c][s]), p \in Specs \ SpecsIn(catalog[c][s]) :
          Changes(c, s, catalog[c][s] \cup {[name |-> n, spec |-> p, building |-> TRUE]})
    /\ UNCHANGED owners

FinishBuild(c, s) ==
    /\ \E d \in catalog[c][s] :
          /\ d.building
          /\ Changes(c, s, (catalog[c][s] \ {d}) \cup {[d EXCEPT !.building = FALSE]})
    /\ UNCHANGED owners

Drop(c, s) ==
    /\ \E d \in catalog[c][s] : Changes(c, s, catalog[c][s] \ {d})
    /\ UNCHANGED owners

(* The first chunk comes to shard s, and the indexes of its donor with it;   *)
(* or the last chunk leaves it, and the definitions stay.                    *)
MoveChunk(c, s) ==
    \/ /\ s \notin owners[c]
       /\ \E t \in owners[c] : Changes(c, s, catalog[c][t])
       /\ owners' = [owners EXCEPT ![c] = @ \cup {s}]
    \/ /\ s \in owners[c] /\ owners[c] # {s}
       /\ Changes(c, s, catalog[c][s])
       /\ owners' = [owners EXCEPT ![c] = @ \ {s}]

-----------------------------------------------------------------------------
AuditStep(c) ==
    \/ Start(c) \/ ReadMetadata(c) \/ ReadVisibility(c) \/ Choose(c)
    \/ StartStats(c) \/ ReadStats(c) \/ StatsFail(c) \/ Judge(c)
    \/ ReadDirect(c) \/ Weigh(c) \/ Confirm(c) \/ Finish(c)

Step ==
    \/ EndRouting \/ ReadVersion \/ ReadShards \/ EndDispatch \/ Return
    \/ \E d \in Databases : ReadScope(d)
    \/ \E c \in Collections : ReadRouting(c) \/ Dispatch(c) \/ AuditStep(c)

Next ==
    \/ Step \/ Cancel
    \/ \E c \in Collections, s \in Shards :
          StartBuild(c, s) \/ FinishBuild(c, s) \/ Drop(c, s) \/ MoveChunk(c, s)
    \/ phase = "returned" /\ UNCHANGED vars

Spec == Init /\ [][Next]_vars

-----------------------------------------------------------------------------
(* Properties *)

Done(c) == audit[c].at = "done"
ByDefinitions(c) == Done(c) /\ audit[c].strategy \in {"stats", "direct"}

TypeOK ==
    /\ catalog \in [Collections -> [Shards -> SUBSET Definitions]]
    /\ owners \in [Collections -> SUBSET Shards]
    /\ changes \in 0 .. MaxChanges
    /\ done \in BOOLEAN /\ errors \in BOOLEAN
    /\ failed \subseteq Reasons
    /\ phase \in {"routing", "version", "shards", "scopes", "dispatch", "waiting", "returned"}
    /\ reply \in {"none", "ok", "partial", "error"}
    /\ target.strategy \in {"none", "unsupported", "direct", "stats", "metadata"}
    /\ \A c \in Collections :
          LET a == audit[c] IN
          /\ a.at \in {"queued", "start", "metadata", "visibility", "choose", "stats",
                       "reading", "judge", "direct", "weigh", "confirm", "finish", "cut",
                       "done"}
          /\ a.todo \subseteq Shards
          /\ a.first \in [DOMAIN a.first -> SUBSET Definitions]
          /\ a.second \in [DOMAIN a.second -> SUBSET Definitions]
          /\ a.verdict.state \in {"none", "skipped", "consistent", "inconsistent", "inconclusive"}
          /\ a.at = "done" <=> a.verdict.state # "none"

(* Pairs of catalogs of W: one catalog twice, if there are at most two.      *)
Moments(W) == {m \in W \X W : (\E a, b \in W : W = {a, b}) => m[1] = m[2]}

(* What a difference says, each side of it, held at a moment; indexes of the *)
(* kinds in K may have been left out of the comparison.                      *)
Shown(d, W, expected, K) ==
    CASE d.code = "missing_on_shard" ->
             /\ d.shards # {}
             /\ \A t \in d.shards : \E m \in Moments(W), s \in expected, n \in d.names :
                   /\ Called(n, m[1][s]) # {}
                   /\ SpecsIn(Called(n, m[2][t])) \subseteq K
      [] d.code = "spec_mismatch" ->
             \E m \in Moments(W), s, t \in expected, n \in d.names :
                \E i \in Called(n, m[1][s]), j \in Called(n, m[2][t]) : i.spec # j.spec
      [] d.code = "name_mismatch" ->
             \E m \in Moments(W), s, t \in expected, r \in d.specs :
                \E i \in Meaning(r, m[1][s]), j \in Meaning(r, m[2][t]) : i.name # j.name
      [] OTHER -> TRUE

ReadExpected(c) == DOMAIN audit[c].first \subseteq Expected(c)

(* "Two observations that agree, and only then a warning" and "a building    *)
(* index or concurrent DDL yields no legacy warning that was not confirmed"  *)
(* (08-sharded-index-consistency-audit.md:208, :282): whatever is created,   *)
(* built or dropped between the readings, both sides of a difference that is *)
(* reported were there after the first reading was over, and at one moment   *)
(* if the cluster has changed only once since: a change seen in passing is   *)
(* not reported.  Only an index of the same kind as one that was seen being  *)
(* built may be called missing where it is not: the comparison leaves the    *)
(* kind out.                                                                 *)
WarningsAreReal ==
    \A c \in Collections :
        ByDefinitions(c) /\ ReadExpected(c) =>
            \A d \in audit[c].verdict.diffs : d.code \in Warnings =>
                Shown(d, lately[c], Expected(c),
                      SpecsIn(Building(audit[c].first) \cup Building(audit[c].second)))

Facts(D) == {<<d.name, d.spec>> : d \in D}
Alike(c) == \A s, t \in Expected(c) : Facts(catalog[c][s]) = Facts(catalog[c][t])

(* What is being built on an expected shard is left out, wherever it has its *)
(* name, and so is what is of the same kind.                                 *)
InBuild(c) ==
    LET all == UNION {catalog[c][t] : t \in Expected(c)} IN
    {d \in all : d.name \in NamesIn({e \in all : e.building})}
Settled(c, s) ==
    {d \in catalog[c][s] : d.name \notin NamesIn(InBuild(c)) /\ d.spec \notin SpecsIn(InBuild(c))}
Agree(c) == \A s, t \in Expected(c) : Facts(Settled(c, s)) = Facts(Settled(c, t))

Calm(c) == \A cat \in was[c], s \in Expected(c) : cat[s] = catalog[c][s]
OnlyExpected(c) == ReadExpected(c) /\ audit[c].seen.shards \subseteq Expected(c)

(* Where nobody changes the definitions, the verdict is right: "inconsistent" *)
(* only if two expected shards differ, "consistent" only if none do; and of  *)
(* a whole observation it says which, about what no shard is building ("the  *)
(* build of one index does not suppress the other differences",              *)
(* 08-sharded-index-consistency-audit.md:210).                               *)
VerdictRight(c) ==
    LET v == audit[c].verdict IN
    /\ v.state = "inconsistent" => ~Alike(c)
    /\ v.state = "consistent" => Alike(c)
    /\ v.complete => (v.state = "inconsistent" <=> ~Agree(c))
VerdictOfCalmCluster ==
    \A c \in Collections :
        ByDefinitions(c) /\ Calm(c) /\ OnlyExpected(c) => VerdictRight(c)

(* "When the observation of a shard is missing altogether, `consistent` must *)
(* not be output" (08-sharded-index-consistency-audit.md:280), nor when a    *)
(* build is seen, nor on the word of a check that was not made.              *)
ConsistentNeedsEvidence ==
    \A c \in Collections :
        LET a == audit[c] IN
        a.verdict.state = "consistent" =>
            /\ Expected(c) # {}
            /\ Expected(c) \subseteq a.seen.shards
            /\ a.seen.builds = {}
            /\ IF a.strategy = "metadata"
               THEN /\ ByDatabase => scope[DatabaseOf[c]].err = "none"
                    /\ {i[2] : i \in a.official.issues} \subseteq {"foreign"}
               ELSE /\ Expected(c) \subseteq DOMAIN a.first
                    /\ Building(a.first) = {}

(* "The fallback must record where it came from and the reason"; what the    *)
(* server said is not checked again; and no fallback after the time is over  *)
(* (08-sharded-index-consistency-audit.md:174-176).                          *)
FallbackExplained ==
    \A c \in Collections :
        LET a == audit[c] IN
        Done(c) /\ a.strategy # "none" =>
            /\ a.strategy = target.strategy <=> a.fallback = NoFallback
            /\ a.fallback # NoFallback =>
                   /\ a.fallback.from = target.strategy /\ a.fallback.to = a.strategy
                   /\ a.fallback.reason \notin {"none", "timeout"}
                   /\ a.fallback.from = "metadata" =>
                          a.fallback.reason = a.official.err
            /\ a.official.err = "none" => a.first = Nothing

(* "When something failed and there is a result, the result and a            *)
(* PartialError are returned" (08-sharded-index-consistency-audit.md:226):   *)
(* an audit that returns no error, and that nobody cancels, has met nothing  *)
(* worse than a lack of privileges, and has a verdict of every collection.   *)
(* Left out: a collection with no shard to go to, whose early return forgets *)
(* that reading its database failed.                                         *)
FailuresReported ==
    /\ reply = "ok" /\ ~done
    /\ \A c \in Sharded : Blocked(c) => WhyBlocked(c) # "none"
    => /\ failed \subseteq {"unauthorized"}
       /\ \A c \in Collections : Done(c)

(* The same, when a chunk has come to a shard that had none at the routing:  *)
(* "an index that is only on some of the expected shards yields              *)
(* index.missing_on_shard" (08-sharded-index-consistency-audit.md:203).      *)
VerdictWhileMoving ==
    \A c \in Collections :
        ByDefinitions(c) /\ Calm(c) => VerdictRight(c)

=============================================================================
