------------------------ MODULE IndexConsistencyProofs ------------------------
(***************************************************************************)
(* Proofs about IndexConsistency, for any collections, shards, definitions *)
(* and versions, and however often the cluster changes.                    *)
(***************************************************************************)
EXTENDS IndexConsistency, WellFoundedInduction, FiniteSetTheorems, TLAPS

(***************************************************************************)
(* Types.                                                                  *)
(***************************************************************************)
Strategies == {"none", "unsupported", "direct", "stats", "metadata"}
Outcomes == {Unread, "none"} \cup Reasons
Phases == {"routing", "version", "shards", "scopes", "dispatch", "waiting", "returned"}
States == {"none", "skipped", "consistent", "inconsistent", "inconclusive"}

(* Where an audit is before its strategy is tried, and while it is.          *)
Early == {"start", "metadata", "visibility", "choose"}
Late == {"stats", "reading", "judge", "direct", "weigh", "confirm", "finish", "cut"}
Places == {"queued", "done"} \cup Early \cup Late

Fields == {"at", "strategy", "fallback", "official", "seen", "why", "todo", "first",
           "reread", "second", "faulty", "verdict"}
Observation(o) == o \in [DOMAIN o -> SUBSET Definitions]

AuditType(a) ==
    /\ DOMAIN a = Fields
    /\ a.at \in Places
    /\ a.strategy \in Strategies
    /\ a.official.err \in Outcomes /\ a.seen.err \in Outcomes
    /\ \A i \in a.official.issues : i[2] \in Issues
    /\ a.why \in {"none"} \cup Reasons
    /\ a.todo \subseteq Shards
    /\ Observation(a.first) /\ Observation(a.second)
    /\ a.reread \in BOOLEAN /\ a.faulty \in BOOLEAN
    /\ a.verdict.state \in States
    /\ a.at = "done" <=> a.verdict.state # "none"

(***************************************************************************)
(* The invariant.                                                          *)
(***************************************************************************)
ClusterOK ==
    /\ catalog \in [Collections -> [Shards -> SUBSET Definitions]]
    /\ owners \in [Collections -> SUBSET Shards]
    /\ changes \in 0 .. MaxChanges
    /\ kind \in [Collections -> Kinds]

(* What is read before the collections: a view has no routing, and nothing   *)
(* else is read if no collection is sharded.                                 *)
DiscoveredOK ==
    /\ routing \in [Collections -> [err : Outcomes, sharded : BOOLEAN, expected : SUBSET Shards]]
    /\ target \in [err : {"none"} \cup Reasons, strategy : Strategies, shards : SUBSET Shards]
    /\ DOMAIN scope = Databases
    /\ \A d \in Databases :
          /\ DOMAIN scope[d] = {"err", "issues"}
          /\ scope[d].err \in Outcomes
          /\ \A i \in scope[d].issues : i[2] \in Issues
    /\ \A c \in Collections : routing[c].err # Unread => kind[c] # "view"
    /\ target.err # "none" =>
          Sharded # {} /\ target.strategy # "unsupported" /\ phase \notin {"shards", "scopes"}
    /\ phase \in {"version", "shards", "scopes"} => Sharded # {}
    /\ phase \in {"routing", "version"} => target.strategy = "none" /\ target.err = "none"
    /\ phase \in {"routing", "version", "shards"} =>
          \A d \in Databases : scope[d].err = Unread
    /\ phase = "shards" => target.strategy # "unsupported"
    /\ phase = "scopes" => ByDatabase

(* The databases of the collections that are sharded have been asked before  *)
(* the first goroutine starts, unless the audit was cancelled.               *)
Asked(c) == ByDatabase /\ target.err = "none" /\ c \in Sharded => scope[DatabaseOf[c]].err # Unread
ScopesAsked == phase = "dispatch" /\ ~done => \A c \in Collections : Asked(c)

ControlOK ==
    /\ done \in BOOLEAN /\ errors \in BOOLEAN /\ filtered \in BOOLEAN
    /\ failed \subseteq Reasons
    /\ phase \in Phases
    /\ reply \in {"none", "ok", "partial", "error"}
    /\ reply # "none" <=> phase = "returned"
    /\ reply = "ok" => ~errors
    /\ phase = "returned" => Running = {}
    /\ phase \in {"waiting", "returned"} /\ ~errors => Queued = {}
    /\ ScopesAsked

(* A collection that is read: it is sharded and its shards can be reached.   *)
Readable(c) ==
    /\ c \in Sharded
    /\ target.err = "none"
    /\ Expected(c) # {}

FallbackOK(a) ==
    /\ a.strategy = target.strategy <=> a.fallback = NoFallback
    /\ a.fallback # NoFallback =>
          /\ DOMAIN a.fallback = {"from", "to", "reason"}
          /\ a.fallback.from = target.strategy /\ a.fallback.to = a.strategy
          /\ a.fallback.from \in {"metadata", "stats"}
          /\ a.fallback.reason \notin {"none", "timeout"}
          /\ a.fallback.from = "metadata" => a.fallback.reason = a.official.err
    /\ a.official.err = "none" => a.strategy = "metadata" /\ a.first = Nothing

(* What every place of a goroutine implies.                                  *)
PlaceOK(c, a) ==
    /\ a.at \in Early =>
          a.strategy = target.strategy /\ a.fallback = NoFallback /\ a.first = Nothing
    /\ a.at \in (Early \cup Late) \ {"start"} => Readable(c)
    /\ a.at \in {"start", "metadata", "visibility"} => a.seen.err = Unread /\ ~a.faulty
    /\ a.at = "metadata" => filtered /\ target.strategy = "metadata"
    /\ a.at \in {"stats", "reading", "judge"} => a.strategy = "stats"
    /\ a.at = "direct" => a.strategy = "direct"
    /\ a.at \in {"weigh", "confirm", "cut"} => a.strategy \in {"stats", "direct"}
    /\ a.at \in {"direct", "confirm"} => a.todo # {}
    /\ a.at = "finish" => a.strategy \in {"metadata", "stats", "direct"}
    /\ a.at = "finish" /\ a.strategy = "metadata" => a.official.err = "none"

Evidence(c, a) ==
    /\ Expected(c) # {}
    /\ Expected(c) \subseteq a.seen.shards
    /\ a.seen.builds = {}
    /\ IF a.strategy = "metadata"
       THEN /\ ByDatabase => scope[DatabaseOf[c]].err = "none"
            /\ {i[2] : i \in a.official.issues} \subseteq {"foreign"}
       ELSE /\ Expected(c) \subseteq DOMAIN a.first
            /\ Building(a.first) = {}

AuditOK(c, a) ==
    /\ AuditType(a)
    /\ a.at = "queued" => a = NewAudit
    /\ a.at # "queued" =>
          /\ phase \in {"dispatch", "waiting", "returned"}
          /\ Asked(c)
          /\ ByDatabase => a.official = OfNamespace(c)
          /\ FallbackOK(a)
    /\ PlaceOK(c, a)
    /\ a.verdict.state = "consistent" => Evidence(c, a)

AuditsOK ==
    /\ DOMAIN audit = Collections
    /\ \A c \in Collections : AuditOK(c, audit[c])

(* What has failed for another reason than privileges, and is not reported   *)
(* yet, is carried by a collection whose audit is not over.                  *)
Bad == {"failed", "timeout"}
Owes(c, a) ==
    /\ a.at # "done"
    /\ \/ a.faulty
       \/ routing[c].err \in Bad
       \/ c \in Sharded /\ target.err \in Bad
       \/ /\ c \in Sharded /\ ByDatabase /\ target.err = "none"
          /\ scope[DatabaseOf[c]].err \in Bad /\ a.at \in {"queued", "start"}
       \/ /\ a.at \in {"visibility", "choose"} /\ a.strategy = "metadata"
          /\ a.official.err \in Bad
       \/ a.seen.err \in Bad
       \/ a.at = "judge" /\ a.why \in Bad

(* A collection with no shard to go to, of which nothing is said.            *)
Stranded ==
    /\ phase \in {"dispatch", "waiting", "returned"}
    /\ \E c \in Sharded : Blocked(c) /\ WhyBlocked(c) = "none"

FailureOwed ==
    \/ failed \subseteq {"unauthorized"}
    \/ done \/ errors \/ Stranded
    \/ \E c \in Collections : Owes(c, audit[c])

ConsistencyInv ==
    /\ ClusterOK /\ DiscoveredOK /\ ControlOK /\ AuditsOK
    /\ FailureOwed

-----------------------------------------------------------------------------
(* Lemmas about the operators. *)

LEMMA Updated ==
  ASSUME NEW o, Observation(o), NEW s, NEW D \in SUBSET Definitions
  PROVE  Observation(With(o, s, D))
BY DEF Observation, With

LEMMA Reduced ==
  ASSUME NEW o, Observation(o), NEW S
  PROVE  Observation(Without(o, S))
BY DEF Observation, Without

LEMMA MarkedTyped ==
  ASSUME NEW D \in SUBSET Definitions, NEW builds
  PROVE  Mark(D, builds) \in SUBSET Definitions
BY DEF Mark, Definitions

LEMMA MarkedObservation ==
  ASSUME NEW o, Observation(o), NEW builds
  PROVE  Observation([s \in DOMAIN o |-> Mark(o[s], builds)])
<1>1. \A s \in DOMAIN o : Mark(o[s], builds) \in SUBSET Definitions
  BY MarkedTyped DEF Observation
<1> QED
  BY <1>1 DEF Observation

LEMMA ListedTyped ==
  ASSUME ClusterOK, NEW c \in Collections, NEW s \in Shards
  PROVE  Listed(c, s) \in SUBSET Definitions
<1>1. catalog[c][s] \in SUBSET Definitions
  BY DEF ClusterOK
<1>2. \A d \in Definitions : [d EXCEPT !.building = FALSE] \in Definitions
  BY DEF Definitions
<1> QED
  BY <1>1, <1>2 DEF Listed

(* The least of some numbers is one of them.                                 *)
LEMMA LeastIsMember ==
  ASSUME NEW S \in SUBSET Nat, S # {}
  PROVE  Least(S) \in S
<1> DEFINE R == OpToRel(<, Nat)
<1>1. PICK x \in S : \A y \in S : <<y, x>> \notin R
  BY NatLessThanWellFounded, WFMin
<1>2. ASSUME NEW y \in S PROVE x <= y
  <2>1. x \in Nat /\ y \in Nat
    OBVIOUS
  <2>2. ~(y < x)
    BY <1>1, <2>1 DEF OpToRel
  <2> QED
    BY <2>1, <2>2
<1> QED
  BY <1>1, <1>2 DEF Least

(* "consistent" of what the shards listed is said of all of them, and when   *)
(* nothing was being built.                                                  *)
LEMMA LegacyState ==
  ASSUME NEW e, NEW first, NEW reread, NEW second
  PROVE  /\ DOMAIN Legacy(e, first, reread, second) = {"complete", "state", "diffs"}
         /\ Legacy(e, first, reread, second).state \in {"consistent", "inconsistent", "inconclusive"}
         /\ Legacy(e, first, reread, second).state = "consistent" =>
               e \subseteq DOMAIN first /\ Building(first) = {}
<1> DEFINE shards == Observed(e, first)
           before == FirstCandidates(e, first)
           again == before # {} /\ reread /\ shards \subseteq DOMAIN second
           built == Building(first) \cup (IF again THEN Building(second) ELSE {})
           after == Candidates(shards, second, NamesIn(built), SpecsIn(built))
           stable == IF again THEN Stable(before, after) ELSE {}
           complete == shards = e /\ (before = {} \/ again)
           vague == ~complete \/ stable # before
           state == CASE stable # {} -> "inconsistent"
                      [] stable = {} /\ (vague \/ built # {}) -> "inconclusive"
                      [] OTHER -> "consistent"
<1>1. /\ DOMAIN Legacy(e, first, reread, second) = {"complete", "state", "diffs"}
      /\ Legacy(e, first, reread, second).state = state
  BY DEF Legacy
<1>2. state = "consistent" => shards = e /\ built = {}
  <2> HIDE DEF shards, before, again, built, stable
  <2> QED
    OBVIOUS
<1>3. state \in {"consistent", "inconsistent", "inconclusive"}
  <2> HIDE DEF vague, built, stable
  <2> QED
    OBVIOUS
<1>4. shards = e => e \subseteq DOMAIN first
  BY DEF Observed
<1>5. built = {} => Building(first) = {}
  OBVIOUS
<1> HIDE DEF state, shards, built
<1> QED
  BY <1>1, <1>2, <1>3, <1>4, <1>5

(* "consistent" of what the server said needs an answer without issues.      *)
LEMMA OfficialState ==
  ASSUME NEW e, NEW seen, NEW issues
  PROVE  /\ DOMAIN Official(e, seen, issues) = {"complete", "state", "diffs"}
         /\ Official(e, seen, issues).state \in {"consistent", "inconsistent", "inconclusive"}
         /\ Official(e, seen, issues).state = "consistent" =>
               issues \cap {"missing", "differs", "shard key", "unmapped", "unknown"} = {}
<1> DEFINE certain == issues \cap {"missing", "differs", "shard key"}
           vague == ~(e \subseteq seen) \/ issues \cap {"unmapped", "unknown"} # {}
           state == CASE certain # {} -> "inconsistent"
                      [] certain = {} /\ vague -> "inconclusive"
                      [] OTHER -> "consistent"
<1>1. /\ DOMAIN Official(e, seen, issues) = {"complete", "state", "diffs"}
      /\ Official(e, seen, issues).state = state
  BY DEF Official
<1>2. state = "consistent" => certain = {} /\ ~vague
  <2> HIDE DEF certain, vague
  <2> QED
    OBVIOUS
<1>3. state \in {"consistent", "inconsistent", "inconclusive"}
  <2> HIDE DEF certain, vague
  <2> QED
    OBVIOUS
<1>4. certain = {} /\ ~vague =>
         issues \cap {"missing", "differs", "shard key", "unmapped", "unknown"} = {}
  OBVIOUS
<1> HIDE DEF state, certain, vague
<1> QED
  BY <1>1, <1>2, <1>3, <1>4

(* A collection that was not wholly visible, or has an index being built, is *)
(* not consistent.                                                           *)
Verdict(v) ==
    /\ DOMAIN v = {"complete", "state", "diffs"}
    /\ v.state \in {"consistent", "inconsistent", "inconclusive"}

LEMMA GapState ==
  ASSUME NEW v, Verdict(v)
  PROVE  /\ WithGap(v, FALSE) = v
         /\ Verdict(WithGap(v, TRUE)) /\ WithGap(v, TRUE).state # "consistent"
<1> DEFINE w == WithGap(v, TRUE)
<1>1. w = [complete |-> FALSE, diffs |-> v.diffs \cup {Inconclusive},
           state |-> IF v.state = "inconsistent" THEN v.state ELSE "inconclusive"]
  BY DEF WithGap
<1> HIDE DEF w
<1>2. w.state = IF v.state = "inconsistent" THEN v.state ELSE "inconclusive"
  BY <1>1
<1>3. DOMAIN w = {"complete", "diffs", "state"}
  BY <1>1
<1>4. Verdict(w) /\ w.state # "consistent"
  BY <1>2, <1>3 DEF Verdict
<1> QED
  BY <1>4 DEF w, WithGap

LEMMA BuildState ==
  ASSUME NEW v, Verdict(v), NEW builds
  PROVE  /\ WithBuilds(v, builds).state \in {"consistent", "inconsistent", "inconclusive"}
         /\ WithBuilds(v, builds).state = "consistent" => v.state = "consistent" /\ builds = {}
<1>1. WithBuilds(v, builds).state =
         IF builds # {} /\ v.state = "consistent" THEN "inconclusive" ELSE v.state
  BY DEF WithBuilds, Verdict
<1> QED
  BY <1>1 DEF Verdict

-----------------------------------------------------------------------------
(* The steps of one goroutine. *)

(* What is read before the goroutines start is left alone.                   *)
Frozen == UNCHANGED <<kind, filtered, version, done, phase, routing, target, scope>>

Begun(p) == p \in {"dispatch", "waiting", "returned"}

LEMMA AuditStable ==
  ASSUME UNCHANGED <<filtered, routing, target, scope>>, Begun(phase) => Begun(phase'),
         NEW c, NEW a, AuditOK(c, a)
  PROVE  AuditOK(c, a)'
<1>1. /\ Asked(c) => Asked(c)'
      /\ ByDatabase' = ByDatabase /\ OfNamespace(c)' = OfNamespace(c)
      /\ FallbackOK(a) => FallbackOK(a)'
  BY DEF Asked, ByDatabase, OfNamespace, FallbackOK, Sharded
<1>2. PlaceOK(c, a)'
  BY DEF AuditOK, PlaceOK, Readable, Sharded, Expected
<1>3. Evidence(c, a) => Evidence(c, a)'
  BY <1>1 DEF Evidence, Expected
<1> QED
  BY <1>1, <1>2, <1>3 DEF AuditOK, Begun

LEMMA OwesStable ==
  ASSUME Frozen, NEW c, NEW a, Owes(c, a)
  PROVE  Owes(c, a)'
BY DEF Frozen, Owes, Sharded, ByDatabase

LEMMA StrandedStable ==
  ASSUME Frozen, Stranded
  PROVE  Stranded'
BY DEF Frozen, Stranded, Sharded, Blocked, WhyBlocked, Expected

(* A goroutine that goes on, or starts, keeps the invariant if its own part  *)
(* does, and if what failed is still owed or has been reported.              *)
Going(c, a) ==
    /\ Becomes(c, a)
    /\ Frozen /\ UNCHANGED <<catalog, owners, changes, reply>>
    /\ phase = "dispatch" \/ audit[c].at \notin {"queued", "done"}
    /\ audit[c].at # "done" /\ a.at # "queued"
    /\ AuditOK(c, a)
    /\ errors' \in BOOLEAN /\ (errors => errors')
    /\ failed' \subseteq Reasons
    /\ failed' \subseteq failed \cup {"unauthorized"} \/ done \/ Owes(c, a)
    /\ Owes(c, audit[c]) => errors' \/ done \/ Stranded \/ Owes(c, a)

LEMMA GoingKeeps ==
  ASSUME ConsistencyInv, NEW c \in Collections, NEW a, Going(c, a)
  PROVE  ConsistencyInv'
<1>1. ClusterOK' /\ DiscoveredOK'
  BY DEF ConsistencyInv, Going, Frozen, ClusterOK, DiscoveredOK, Sharded, ByDatabase
<1>2. /\ DOMAIN audit' = Collections /\ audit'[c] = a
      /\ \A k \in Collections \ {c} : audit'[k] = audit[k]
  BY DEF ConsistencyInv, AuditsOK, Going, Becomes
<1>3. AuditsOK'
  <2>1. ASSUME NEW k \in Collections PROVE AuditOK(k, audit[k])'
    <3>1. CASE k = c
      BY <1>2, <3>1, AuditStable DEF Going, Frozen
    <3>2. CASE k # c
      BY <1>2, <3>2, AuditStable DEF Going, Frozen, ConsistencyInv, AuditsOK
    <3> QED
      BY <3>1, <3>2
  <2> QED
    BY <1>2, <2>1 DEF AuditsOK
<1>4. ControlOK'
  <2>1. Queued' \subseteq Queued
    BY <1>2 DEF Queued, Going
  <2>2. phase # "returned"
    BY DEF ConsistencyInv, ControlOK, Going, Running
  <2>3. ScopesAsked'
    BY DEF ConsistencyInv, ControlOK, ScopesAsked, Asked, ByDatabase, Sharded, Going, Frozen
  <2> QED
    BY <2>1, <2>2, <2>3 DEF ConsistencyInv, ControlOK, Going, Frozen
<1>5. FailureOwed'
  <2>1. CASE done \/ errors'
    BY <2>1 DEF FailureOwed, Going, Frozen
  <2>2. CASE Stranded
    BY <2>2, StrandedStable DEF FailureOwed, Going
  <2>3. CASE Owes(c, a)
    <3>1. Owes(c, a)'
      BY <2>3, OwesStable DEF Going
    <3> QED
      BY <1>2, <3>1 DEF FailureOwed
  <2>4. ASSUME NEW k \in Collections \ {c}, Owes(k, audit[k]) PROVE FailureOwed'
    <3>1. Owes(k, audit[k])'
      BY <1>2, <2>4, OwesStable DEF Going
    <3> QED
      BY <1>2, <3>1 DEF FailureOwed
  <2>5. CASE failed' \subseteq {"unauthorized"}
    BY <2>5 DEF FailureOwed
  <2> QED
    BY <2>1, <2>2, <2>3, <2>4, <2>5 DEF ConsistencyInv, FailureOwed, Going
<1> QED
  BY <1>1, <1>3, <1>4, <1>5 DEF ConsistencyInv

(* The end of an audit.                                                      *)
LEMMA ConcludeKeeps ==
  ASSUME ConsistencyInv, NEW c \in Collections, NEW b, NEW v, Conclude(c, b, v),
         Frozen, UNCHANGED <<catalog, owners, changes, failed, reply>>,
         audit[c].at \in Early \cup Late,
         DOMAIN b = Fields, b.faulty \in BOOLEAN,
         \A x \in Fields \ {"faulty"} : b[x] = audit[c][x],
         v.state \in States \ {"none"},
         v.state = "consistent" => Evidence(c, b),
         Owes(c, audit[c]) => b.faulty \/ done \/ Stranded
  PROVE  ConsistencyInv'
<1> DEFINE a == audit[c]
           d == [b EXCEPT !.at = "done", !.verdict = v]
<1>1. AuditOK(c, a) /\ a.at # "queued" /\ a.at # "done"
  BY DEF ConsistencyInv, AuditsOK, Early, Late
<1>2. /\ DOMAIN d = Fields /\ d.at = "done" /\ d.verdict = v /\ d.faulty \in BOOLEAN
      /\ d.strategy = a.strategy /\ d.fallback = a.fallback /\ d.official = a.official
      /\ d.seen = a.seen /\ d.why = a.why /\ d.todo = a.todo /\ d.first = a.first
      /\ d.reread = a.reread /\ d.second = a.second
      /\ b.strategy = a.strategy /\ b.official = a.official /\ b.seen = a.seen
      /\ b.first = a.first
  BY DEF Fields
<1>3. Becomes(c, d) /\ errors' = (errors \/ b.faulty)
  BY DEF Conclude
<1> HIDE DEF d
<1>4. AuditType(d)
  BY <1>1, <1>2 DEF AuditOK, AuditType, Places
<1>5. Evidence(c, b) => Evidence(c, d)
  BY <1>2 DEF Evidence
<1>6. FallbackOK(a) => FallbackOK(d)
  BY <1>2 DEF FallbackOK
<1>7. PlaceOK(c, d)
  BY <1>2 DEF PlaceOK, Early, Late
<1>8. AuditOK(c, d)
  BY <1>1, <1>2, <1>4, <1>5, <1>6, <1>7 DEF AuditOK
<1>9. Going(c, d)
  BY <1>1, <1>2, <1>3, <1>8 DEF Going, ConsistencyInv, ControlOK
<1> QED
  BY <1>9, GoingKeeps

LEMMA StartKeeps ==
  ASSUME ConsistencyInv, NEW c \in Collections, Start(c)
  PROVE  ConsistencyInv'
<1> DEFINE a == audit[c]
<1>1. /\ AuditOK(c, a) /\ a.at = "start" /\ DOMAIN a = Fields /\ a.faulty \in BOOLEAN
      /\ phase \in {"dispatch", "waiting", "returned"}
  BY DEF ConsistencyInv, AuditsOK, AuditOK, AuditType, Start
<1>2. Frozen /\ UNCHANGED <<catalog, owners, changes, failed, reply>>
  BY DEF Start, Frozen, cluster, fixed, discovered
<1>3. routing[c].err # "none" => routing[c].err \in {Unread} \cup Reasons
  BY DEF ConsistencyInv, DiscoveredOK, Outcomes
<1>4. a.seen.err \notin Bad /\ (Owes(c, a) => routing[c].err \in Bad \/ c \in Sharded)
  BY <1>1 DEF AuditOK, PlaceOK, Owes, Bad, Unread
<1>5. CASE NotAudited(c) /\ Conclude(c, audit[c], Skipped)
  <2>1. routing[c].err \notin Bad
    BY <1>5 DEF NotAudited, ConsistencyInv, DiscoveredOK, Bad, Unread
  <2>2. c \in Sharded => target.strategy = "unsupported" /\ target.err = "none" /\ ~ByDatabase
    BY <1>5 DEF NotAudited, ConsistencyInv, DiscoveredOK, Sharded, ByDatabase, Unread
  <2>3. Owes(c, a) => a.faulty
    BY <1>1, <1>4, <2>1, <2>2 DEF Owes, Bad
  <2>4. Skipped.state = "skipped"
    BY DEF Skipped, NoVerdict
  <2> QED
    BY <1>1, <1>2, <1>5, <2>3, <2>4, ConcludeKeeps DEF States, Early
<1>6. ASSUME ~NotAudited(c), Blocked(c),
             Conclude(c, [audit[c] EXCEPT !.faulty = ~Excused(WhyBlocked(c))], Incomplete)
      PROVE  ConsistencyInv'
  <2> DEFINE b == [audit[c] EXCEPT !.faulty = ~Excused(WhyBlocked(c))]
  <2>1. /\ DOMAIN b = Fields /\ b.faulty = ~Excused(WhyBlocked(c)) /\ b.faulty \in BOOLEAN
        /\ \A x \in Fields \ {"faulty"} : b[x] = a[x]
    BY <1>1 DEF Fields, Excused
  <2>2. Incomplete.state = "inconclusive"
    BY DEF Incomplete
  <2>3. WhyBlocked(c) \in Bad => b.faulty
    BY <2>1 DEF Excused, Bad
  <2>4. c \in Sharded /\ WhyBlocked(c) = "none" => Stranded
    BY <1>1, <1>6 DEF Stranded
  <2>5. routing[c].err \in Bad => WhyBlocked(c) \in Bad
    BY DEF WhyBlocked, Bad
  <2>6. c \in Sharded => WhyBlocked(c) = target.err
    BY DEF WhyBlocked, Sharded
  <2>7. Owes(c, a) => b.faulty \/ Stranded
    BY <1>1, <1>4, <2>3, <2>4, <2>5, <2>6 DEF AuditOK, PlaceOK, Owes
  <2> HIDE DEF b
  <2> QED
    BY <1>1, <1>2, <1>6, <2>1, <2>2, <2>7, ConcludeKeeps DEF States, Early, b
<1>7. ASSUME ~NotAudited(c), ~Blocked(c), errors' = errors,
             Becomes(c, [audit[c] EXCEPT !.at =
                 IF @ = "start" /\ target.strategy = "metadata" /\ filtered
                 THEN "metadata" ELSE "visibility"])
      PROVE  ConsistencyInv'
  <2> DEFINE b == [a EXCEPT !.at = IF target.strategy = "metadata" /\ filtered
                                   THEN "metadata" ELSE "visibility"]
  <2>1. Becomes(c, b)
    BY <1>1, <1>7
  <2>2. /\ DOMAIN b = Fields /\ b.at \in {"metadata", "visibility"}
        /\ b.at = IF target.strategy = "metadata" /\ filtered THEN "metadata" ELSE "visibility"
        /\ \A x \in Fields \ {"at"} : b[x] = a[x]
    BY <1>1 DEF Fields
  <2> HIDE DEF b
  <2>3. Readable(c)
    BY <1>7 DEF NotAudited, Blocked, WhyBlocked, Readable, Sharded
  <2>4. AuditOK(c, b)
    <3>1. /\ b.strategy = a.strategy /\ b.fallback = a.fallback /\ b.official = a.official
          /\ b.seen = a.seen /\ b.why = a.why /\ b.todo = a.todo /\ b.first = a.first
          /\ b.reread = a.reread /\ b.second = a.second /\ b.faulty = a.faulty
          /\ b.verdict = a.verdict
      BY <2>2 DEF Fields
    <3>2. AuditType(b)
      BY <1>1, <2>2, <3>1 DEF AuditOK, AuditType, Places, Early
    <3>3. PlaceOK(c, b)
      BY <1>1, <2>2, <2>3, <3>1 DEF AuditOK, PlaceOK, Early, Late
    <3>4. FallbackOK(a) => FallbackOK(b)
      BY <3>1 DEF FallbackOK
    <3> QED
      BY <1>1, <2>2, <3>1, <3>2, <3>3, <3>4 DEF AuditOK, AuditType
  <2>5. Owes(c, a) => Owes(c, b)
    <3>1. routing[c].err = "none" /\ target.err = "none"
      BY <2>3 DEF Readable, Sharded
    <3>2. Owes(c, a) => ByDatabase /\ scope[DatabaseOf[c]].err \in Bad
      BY <1>1, <1>4, <3>1 DEF AuditOK, PlaceOK, Owes, Bad
    <3>3. ByDatabase /\ scope[DatabaseOf[c]].err \in Bad => a.official.err \in Bad
      BY <1>1 DEF AuditOK, OfNamespace, Bad, Unread
    <3>4. ByDatabase => b.at = "visibility" /\ b.strategy = "metadata"
      BY <1>1, <2>2 DEF AuditOK, PlaceOK, ByDatabase, Early, Fields
    <3>5. b.official = a.official
      BY <2>2 DEF Fields
    <3> QED
      BY <3>2, <3>3, <3>4, <3>5 DEF Owes
  <2> QED
    BY <1>1, <1>2, <1>7, <2>1, <2>2, <2>4, <2>5, GoingKeeps DEF Going, ConsistencyInv, ControlOK
<1> QED
  BY <1>5, <1>6, <1>7 DEF Start

(* What is known of an audit that runs, and a step that does not end it.     *)
LEMMA RunningFacts ==
  ASSUME ConsistencyInv, NEW c \in Collections, audit[c].at \in Early \cup Late
  PROVE  /\ AuditType(audit[c]) /\ PlaceOK(c, audit[c]) /\ FallbackOK(audit[c])
         /\ ByDatabase => audit[c].official = OfNamespace(c)
         /\ audit[c].verdict.state = "none"
         /\ phase \in {"dispatch", "waiting", "returned"}
BY DEF ConsistencyInv, AuditsOK, AuditOK, AuditType, Early, Late

LEMMA MoveKeeps ==
  ASSUME ConsistencyInv, NEW c \in Collections, NEW b, Becomes(c, b),
         Frozen, UNCHANGED <<catalog, owners, changes, reply, errors>>,
         audit[c].at \in Early \cup Late, b.at \in Early \cup Late,
         AuditType(b), PlaceOK(c, b), FallbackOK(b),
         ByDatabase => b.official = audit[c].official,
         failed' \subseteq Reasons,
         failed' \subseteq failed \cup {"unauthorized"} \/ done \/ Owes(c, b),
         Owes(c, audit[c]) => done \/ Stranded \/ Owes(c, b)
  PROVE  ConsistencyInv'
<1>1. Asked(c) /\ (ByDatabase => audit[c].official = OfNamespace(c))
      /\ phase \in {"dispatch", "waiting", "returned"}
  BY DEF ConsistencyInv, AuditsOK, AuditOK, Early, Late
<1>2. AuditOK(c, b)
  BY <1>1 DEF AuditOK, AuditType, Early, Late
<1>3. Going(c, b)
  BY <1>2 DEF Going, ConsistencyInv, ControlOK, Early, Late
<1> QED
  BY <1>3, GoingKeeps

(* An audit that has been started was not blocked: it owes nothing but what  *)
(* it met itself.                                                            *)
LEMMA OwesWhileRunning ==
  ASSUME ConsistencyInv, NEW c \in Collections, audit[c].at \in (Early \cup Late) \ {"start"},
         Owes(c, audit[c])
  PROVE  \/ audit[c].faulty
         \/ /\ audit[c].at \in {"visibility", "choose"} /\ audit[c].strategy = "metadata"
            /\ audit[c].official.err \in Bad
         \/ audit[c].seen.err \in Bad
         \/ audit[c].at = "judge" /\ audit[c].why \in Bad
<1>1. Readable(c)
  BY RunningFacts DEF PlaceOK
<1> QED
  BY <1>1 DEF Readable, Sharded, Owes, Bad, Early, Late

LEMMA WhyIsReason == \A e \in Why : e \in Reasons /\ (e = "unauthorized" \/ e \in Bad)
BY DEF Why, Reasons, Bad

LEMMA ReadMetadataKeeps ==
  ASSUME ConsistencyInv, NEW c \in Collections, ReadMetadata(c)
  PROVE  ConsistencyInv'
<1> DEFINE a == audit[c]
<1>1. /\ Frozen /\ UNCHANGED <<catalog, owners, changes, reply, errors>>
      /\ a.at = "metadata" /\ a.at \in Early
  BY DEF ReadMetadata, Frozen, cluster, fixed, discovered, Early
<1>2. /\ AuditType(a) /\ PlaceOK(c, a) /\ FallbackOK(a) /\ a.verdict.state = "none"
      /\ filtered /\ a.strategy = "metadata" /\ a.first = Nothing /\ ~ByDatabase
  BY <1>1, RunningFacts DEF PlaceOK, ByDatabase
<1>3. ~Owes(c, a)
  BY <1>1, <1>2, OwesWhileRunning DEF PlaceOK, Bad, Unread
<1>4. ASSUME NEW s, s.err \in Outcomes, \A i \in s.issues : i[2] \in Issues,
             Becomes(c, [audit[c] EXCEPT !.at = "visibility", !.official = s]),
             failed' \subseteq Reasons,
             failed' \subseteq failed \cup {"unauthorized"} \/ s.err \in Bad
      PROVE  ConsistencyInv'
  <2> DEFINE b == [a EXCEPT !.at = "visibility", !.official = s]
  <2>1. /\ DOMAIN b = Fields /\ b.at = "visibility" /\ b.official = s
        /\ b.strategy = a.strategy /\ b.fallback = a.fallback
        /\ b.seen = a.seen /\ b.why = a.why /\ b.todo = a.todo /\ b.first = a.first
        /\ b.reread = a.reread /\ b.second = a.second /\ b.faulty = a.faulty
        /\ b.verdict = a.verdict
    BY <1>2 DEF Fields, AuditType
  <2>2. Becomes(c, b)
    BY <1>4
  <2> HIDE DEF b
  <2>3. AuditType(b)
    BY <1>2, <1>4, <2>1 DEF AuditType, Places, Early
  <2>4. PlaceOK(c, b) /\ FallbackOK(b)
    BY <1>1, <1>2, <2>1 DEF PlaceOK, FallbackOK, Early, Late
  <2>5. s.err \in Bad => Owes(c, b)
    BY <1>2, <2>1 DEF Owes
  <2> QED
    BY <1>1, <1>2, <1>3, <1>4, <2>1, <2>2, <2>3, <2>4, <2>5, MoveKeeps DEF Early
<1>5. ASSUME NEW I \in Answers, failed' = failed,
             Becomes(c, [audit[c] EXCEPT !.at = "visibility",
                                         !.official = Said({<<c, i>> : i \in I})])
      PROVE  ConsistencyInv'
  <2> DEFINE s == Said({<<c, i>> : i \in I})
  <2>1. s.err \in Outcomes /\ \A i \in s.issues : i[2] \in Issues
    BY <1>5, ConsistencyAssumption DEF Said, Outcomes
  <2>2. failed' \subseteq Reasons
    BY <1>5 DEF ConsistencyInv, ControlOK
  <2> HIDE DEF s
  <2> QED
    BY <1>4, <1>5, <2>1, <2>2 DEF s
<1>6. ASSUME NEW e \in Why, Fails(e),
             Becomes(c, [audit[c] EXCEPT !.at = "visibility",
                                         !.official = [NoScope EXCEPT !.err = e]])
      PROVE  ConsistencyInv'
  <2> DEFINE s == [NoScope EXCEPT !.err = e]
  <2>1. s.err = e /\ s.issues = {}
    BY DEF NoScope
  <2>2. failed' \subseteq Reasons /\ e \in Outcomes
    BY <1>6, WhyIsReason DEF ConsistencyInv, ControlOK, Fails, Outcomes
  <2>3. failed' \subseteq failed \cup {"unauthorized"} \/ e \in Bad
    BY <1>6, WhyIsReason DEF Fails
  <2> HIDE DEF s
  <2> QED
    BY <1>4, <1>6, <2>1, <2>2, <2>3 DEF s
<1> QED
  BY <1>5, <1>6 DEF ReadMetadata

LEMMA ReadVisibilityKeeps ==
  ASSUME ConsistencyInv, NEW c \in Collections, ReadVisibility(c)
  PROVE  ConsistencyInv'
<1> DEFINE a == audit[c]
<1>1. /\ Frozen /\ UNCHANGED <<catalog, owners, changes, reply, errors>>
      /\ a.at = "visibility" /\ a.at \in Early
  BY DEF ReadVisibility, Frozen, cluster, fixed, discovered, Early
<1>2. AuditType(a) /\ PlaceOK(c, a) /\ FallbackOK(a) /\ a.verdict.state = "none"
  BY <1>1, RunningFacts
<1>3. Owes(c, a) => a.strategy = "metadata" /\ a.official.err \in Bad
  BY <1>1, <1>2, OwesWhileRunning DEF PlaceOK, Bad, Unread
<1>4. ASSUME NEW s, s.err \in Outcomes, failed' \subseteq Reasons,
             Becomes(c, [audit[c] EXCEPT !.at = "choose", !.seen = s]),
             failed' \subseteq failed \cup {"unauthorized"} \/ s.err \in Bad
      PROVE  ConsistencyInv'
  <2> DEFINE b == [a EXCEPT !.at = "choose", !.seen = s]
  <2>1. /\ DOMAIN b = Fields /\ b.at = "choose" /\ b.official = a.official
        /\ b.strategy = a.strategy /\ b.fallback = a.fallback
        /\ b.seen = s /\ b.why = a.why /\ b.todo = a.todo /\ b.first = a.first
        /\ b.reread = a.reread /\ b.second = a.second /\ b.faulty = a.faulty
        /\ b.verdict = a.verdict
    BY <1>2 DEF Fields, AuditType
  <2>2. Becomes(c, b)
    BY <1>4
  <2> HIDE DEF b
  <2>3. AuditType(b)
    BY <1>2, <1>4, <2>1 DEF AuditType, Places, Early
  <2>4. PlaceOK(c, b) /\ FallbackOK(b)
    BY <1>1, <1>2, <2>1 DEF PlaceOK, FallbackOK, Early, Late
  <2>5. (s.err \in Bad => Owes(c, b)) /\ (Owes(c, a) => Owes(c, b))
    BY <1>3, <2>1 DEF Owes
  <2> QED
    BY <1>1, <1>4, <2>1, <2>2, <2>3, <2>4, <2>5, MoveKeeps DEF Early
<1>5. ASSUME NEW S, failed' = failed, NEW B,
             Becomes(c, [audit[c] EXCEPT !.at = "choose",
                            !.seen = [err |-> "none", shards |-> S, builds |-> B]])
      PROVE  ConsistencyInv'
  <2> DEFINE s == [err |-> "none", shards |-> S, builds |-> B]
  <2>1. s.err \in Outcomes
    BY DEF Outcomes
  <2>2. failed' \subseteq Reasons
    BY <1>5 DEF ConsistencyInv, ControlOK
  <2> HIDE DEF s
  <2> QED
    BY <1>4, <1>5, <2>1, <2>2 DEF s
<1>6. ASSUME NEW e \in Why, Fails(e),
             Becomes(c, [audit[c] EXCEPT !.at = "choose", !.seen = [NotSeen EXCEPT !.err = e]])
      PROVE  ConsistencyInv'
  <2> DEFINE s == [NotSeen EXCEPT !.err = e]
  <2>1. s.err = e
    BY DEF NotSeen
  <2>2. failed' \subseteq Reasons /\ e \in Outcomes
    BY <1>6, WhyIsReason DEF ConsistencyInv, ControlOK, Fails, Outcomes
  <2>3. failed' \subseteq failed \cup {"unauthorized"} \/ e \in Bad
    BY <1>6, WhyIsReason DEF Fails
  <2> HIDE DEF s
  <2> QED
    BY <1>4, <1>6, <2>1, <2>2, <2>3 DEF s
<1> QED
  BY <1>5, <1>6 DEF ReadVisibility

(* The first fallback says where it came from, and the next where it went.   *)
LEMMA FallBackExplains ==
  ASSUME NEW a, FallbackOK(a), a.strategy \in {"metadata", "stats"}, NEW to, NEW why,
         to \in {"stats", "direct"}, to # a.strategy, why \notin {"none", "timeout"},
         a.strategy = "metadata" => why = a.official.err /\ a.fallback = NoFallback,
         a.strategy = "stats" => to = "direct"
  PROVE  LET f == FallBack(a, to, why) IN
         /\ f # NoFallback /\ to # target.strategy
         /\ DOMAIN f = {"from", "to", "reason"}
         /\ f.from = target.strategy /\ f.to = to
         /\ f.from \in {"metadata", "stats"}
         /\ f.reason \notin {"none", "timeout"}
         /\ f.from = "metadata" => f.reason = a.official.err
<1> DEFINE f == FallBack(a, to, why)
<1>1. CASE a.fallback = NoFallback
  <2>1. f.from = a.strategy /\ f.to = to /\ f.reason = why
        /\ DOMAIN f = {"from", "to", "reason"} /\ a.strategy = target.strategy
    BY <1>1 DEF FallBack, FallbackOK
  <2>2. f # NoFallback
    BY <2>1 DEF NoFallback
  <2> HIDE DEF f
  <2> QED
    BY <2>1, <2>2 DEF f
<1>2. CASE a.fallback # NoFallback
  <2>1. f.from = a.fallback.from /\ f.to = to /\ f.reason = a.fallback.reason
        /\ DOMAIN f = {"from", "to", "reason"}
    BY <1>2 DEF FallBack, FallbackOK
  <2>2. /\ a.fallback.from = target.strategy /\ a.fallback.from \in {"metadata", "stats"}
        /\ a.fallback.reason \notin {"none", "timeout"} /\ a.strategy # target.strategy
        /\ a.fallback.from = "metadata" => a.fallback.reason = a.official.err
    BY <1>2 DEF FallbackOK
  <2>3. f # NoFallback
    BY <2>1, <2>2 DEF NoFallback
  <2>4. to # target.strategy
    BY <1>2, <2>2
  <2> HIDE DEF f
  <2> QED
    BY <2>1, <2>2, <2>3, <2>4 DEF f
<1> QED
  BY <1>1, <1>2

LEMMA ChooseKeeps ==
  ASSUME ConsistencyInv, NEW c \in Collections, Choose(c)
  PROVE  ConsistencyInv'
<1> DEFINE a == audit[c]
           e == a.official.err
           d == [a EXCEPT !.faulty = @ \/ ~Excused(e)]
<1>1. /\ Frozen /\ UNCHANGED <<catalog, owners, changes, reply, failed>>
      /\ a.at = "choose" /\ a.at \in Early /\ failed' \subseteq Reasons
  BY DEF Choose, Frozen, cluster, fixed, discovered, Early, ConsistencyInv, ControlOK
<1>2. /\ AuditType(a) /\ PlaceOK(c, a) /\ FallbackOK(a) /\ a.verdict.state = "none"
      /\ a.strategy = target.strategy /\ a.fallback = NoFallback /\ a.first = Nothing
      /\ Readable(c)
  BY <1>1, RunningFacts DEF PlaceOK, Early
<1>3. Owes(c, a) => \/ a.faulty \/ a.seen.err \in Bad
                    \/ a.strategy = "metadata" /\ e \in Bad
  BY <1>1, <1>2, OwesWhileRunning
<1>4. e \in Bad => ~Excused(e)
  BY DEF Bad, Excused
<1>5. /\ DOMAIN d = Fields /\ d.faulty = (a.faulty \/ ~Excused(e)) /\ d.faulty \in BOOLEAN
      /\ \A x \in Fields \ {"faulty"} : d[x] = a[x]
  BY <1>2 DEF AuditType, Fields, Excused
<1>6. ASSUME OutOfTime(e), Conclude(c, d, Incomplete) PROVE ConsistencyInv'
  <2>1. e = "timeout" => d.faulty
    BY <1>5 DEF Excused
  <2>2. Owes(c, a) => d.faulty \/ done
    BY <1>3, <1>4, <1>5, <1>6, <2>1 DEF OutOfTime
  <2>3. Incomplete.state = "inconclusive"
    BY DEF Incomplete
  <2> HIDE DEF d
  <2> QED
    BY <1>1, <1>5, <1>6, <2>2, <2>3, ConcludeKeeps DEF States
<1>7. ASSUME NEW b, Becomes(c, b), errors' = errors, DOMAIN b = Fields,
             b.at \in {"stats", "direct", "finish"},
             b.strategy \in Strategies, b.todo \subseteq Shards, b.faulty \in BOOLEAN,
             b.first = Nothing, \A x \in {"official", "seen", "why", "reread", "second", "verdict"} : b[x] = a[x],
             PlaceOK(c, b), FallbackOK(b),
             Owes(c, a) => b.faulty \/ a.seen.err \in Bad
      PROVE  ConsistencyInv'
  <2>1. /\ b.official = a.official /\ b.seen = a.seen /\ b.why = a.why /\ b.reread = a.reread
        /\ b.second = a.second /\ b.verdict = a.verdict
    BY <1>7
  <2>2. AuditType(b)
    BY <1>2, <1>7, <2>1 DEF AuditType, Places, Late
  <2>3. Owes(c, a) => Owes(c, b)
    BY <1>7, <2>1 DEF Owes
  <2> QED
    BY <1>1, <1>7, <2>1, <2>2, <2>3, MoveKeeps DEF Late
<1>8. ASSUME a.strategy = "metadata", e # "none", ~OutOfTime(e), errors' = errors,
             Becomes(c, [d EXCEPT !.at = "stats", !.strategy = "stats",
                                  !.fallback = FallBack(a, "stats", e)])
      PROVE  ConsistencyInv'
  <2> DEFINE b == [d EXCEPT !.at = "stats", !.strategy = "stats",
                            !.fallback = FallBack(a, "stats", e)]
  <2>1. /\ DOMAIN b = Fields /\ b.at = "stats" /\ b.strategy = "stats"
        /\ b.fallback = FallBack(a, "stats", e)
        /\ \A x \in Fields \ {"at", "strategy", "fallback"} : b[x] = d[x]
    BY <1>5 DEF Fields
  <2>2. /\ b.todo = a.todo /\ b.first = a.first /\ b.official = a.official
        /\ b.seen = a.seen /\ b.faulty = (a.faulty \/ ~Excused(e)) /\ b.faulty \in BOOLEAN
        /\ \A x \in {"official", "seen", "why", "reread", "second", "verdict"} : b[x] = a[x]
    BY <1>5, <2>1 DEF Fields
  <2>3. Becomes(c, b)
    BY <1>8
  <2> HIDE DEF b, d
  <2>4. PlaceOK(c, b)
    BY <1>2, <2>1, <2>2 DEF PlaceOK, Early, Late
  <2>5. FallbackOK(b)
    BY <1>2, <1>8, <2>1, <2>2, FallBackExplains DEF FallbackOK, OutOfTime
  <2> QED
    BY <1>2, <1>3, <1>4, <1>7, <1>8, <2>1, <2>2, <2>3, <2>4, <2>5 DEF Strategies, AuditType
<1>9. ASSUME NEW p, NEW S, errors' = errors, S \subseteq Shards,
             Becomes(c, [a EXCEPT !.at = p, !.todo = S, !.first = Nothing]),
             \/ p = "finish" /\ a.strategy = "metadata" /\ e = "none"
             \/ p = "stats" /\ a.strategy = "stats"
             \/ p = "direct" /\ a.strategy = "direct" /\ S # {}
      PROVE  ConsistencyInv'
  <2> DEFINE b == [a EXCEPT !.at = p, !.todo = S, !.first = Nothing]
  <2>1. /\ DOMAIN b = Fields /\ b.at = p /\ b.todo = S /\ b.first = Nothing
        /\ \A x \in Fields \ {"at", "todo", "first"} : b[x] = a[x]
    BY <1>2 DEF Fields, AuditType
  <2>2. /\ b.strategy = a.strategy /\ b.fallback = a.fallback /\ b.official = a.official
        /\ b.faulty = a.faulty
        /\ \A x \in {"official", "seen", "why", "reread", "second", "verdict"} : b[x] = a[x]
    BY <2>1 DEF Fields
  <2>3. Becomes(c, b)
    BY <1>9
  <2> HIDE DEF b
  <2>4. PlaceOK(c, b)
    BY <1>2, <1>9, <2>1, <2>2 DEF PlaceOK, Early, Late
  <2>5. FallbackOK(b)
    BY <1>2, <2>1, <2>2 DEF FallbackOK
  <2>6. Owes(c, a) => b.faulty \/ a.seen.err \in Bad
    BY <1>3, <1>9, <2>2 DEF Bad
  <2> QED
    BY <1>2, <1>7, <1>9, <2>1, <2>2, <2>3, <2>4, <2>5, <2>6 DEF AuditType
<1>10. ASSUME NEW p, Becomes(c, [a EXCEPT !.at = p])
       PROVE  Becomes(c, [a EXCEPT !.at = p, !.todo = a.todo, !.first = Nothing])
  <2>1. [a EXCEPT !.at = p] = [a EXCEPT !.at = p, !.todo = a.todo, !.first = Nothing]
    BY <1>2 DEF AuditType, Fields
  <2> QED
    BY <1>10, <2>1
<1>11. a.todo \subseteq Shards /\ Expected(c) \subseteq Shards /\ Expected(c) # {}
  BY <1>2 DEF AuditType, Readable, Expected, ConsistencyInv, DiscoveredOK
<1>12. CASE a.strategy = "metadata" /\ e = "none" /\ Becomes(c, [a EXCEPT !.at = "finish"])
            /\ UNCHANGED errors
  BY <1>9, <1>10, <1>11, <1>12
<1>13. CASE a.strategy = "stats" /\ Becomes(c, [a EXCEPT !.at = "stats"]) /\ UNCHANGED errors
  BY <1>9, <1>10, <1>11, <1>13
<1>14. CASE a.strategy = "direct" /\ Becomes(c, ToDirect(c, a)) /\ UNCHANGED errors
  BY <1>9, <1>11, <1>14 DEF ToDirect
<1> QED
  BY <1>6, <1>8, <1>12, <1>13, <1>14 DEF Choose

(* A step among the readings of the definitions: what the server said, what  *)
(* was visible and the fallback stay as they are.                            *)
Kept == {"strategy", "fallback", "official", "seen", "verdict"}
Readings == {"stats", "reading", "judge", "direct", "weigh", "confirm"}

LEMMA ReadingKeeps ==
  ASSUME ConsistencyInv, NEW c \in Collections, NEW b, Becomes(c, b),
         Frozen, UNCHANGED <<catalog, owners, changes, reply, errors>>,
         audit[c].at \in Readings, b.at \in Late, DOMAIN b = Fields,
         \A x \in Kept : b[x] = audit[c][x],
         b.why \in {"none"} \cup Reasons, b.todo \subseteq Shards,
         Observation(b.first), Observation(b.second),
         b.reread \in BOOLEAN, b.faulty \in BOOLEAN,
         b.at \in {"stats", "reading", "judge"} => b.strategy = "stats",
         b.at = "direct" => b.strategy = "direct",
         b.at \in {"direct", "confirm"} => b.todo # {},
         failed' \subseteq Reasons,
         \/ failed' \subseteq failed \cup {"unauthorized"} \/ done
         \/ b.faulty \/ (b.at = "judge" /\ b.why \in Bad),
         audit[c].faulty => b.faulty,
         audit[c].at = "judge" => audit[c].why \notin Bad
  PROVE  ConsistencyInv'
<1> DEFINE a == audit[c]
<1>1. /\ AuditType(a) /\ PlaceOK(c, a) /\ FallbackOK(a) /\ a.at \in Early \cup Late
      /\ Readable(c) /\ a.strategy \in {"stats", "direct"}
  BY RunningFacts DEF PlaceOK, Readings, Late
<1>2. /\ b.strategy = a.strategy /\ b.fallback = a.fallback /\ b.official = a.official
      /\ b.seen = a.seen /\ b.verdict = a.verdict
  BY DEF Kept
<1>3. AuditType(b)
  BY <1>1, <1>2 DEF AuditType, Late, Early, Places, Readings
<1>4. PlaceOK(c, b)
  BY <1>1, <1>2 DEF PlaceOK, Late, Early
<1>5. FallbackOK(b)
  BY <1>1, <1>2 DEF FallbackOK
<1>6. Owes(c, a) => Owes(c, b)
  <2>1. a.at \in (Early \cup Late) \ {"start"} /\ a.at \notin {"visibility", "choose"}
    BY DEF Readings, Late
  <2>2. Owes(c, a) => a.faulty \/ a.seen.err \in Bad
    BY <2>1, OwesWhileRunning
  <2> QED
    BY <1>2, <2>2 DEF Owes, Late
<1>7. failed' \subseteq failed \cup {"unauthorized"} \/ done \/ Owes(c, b)
  BY DEF Owes, Late
<1> QED
  BY <1>1, <1>2, <1>3, <1>4, <1>5, <1>6, <1>7, MoveKeeps

(* What is known of an audit that reads definitions.                         *)
LEMMA ReadingFacts ==
  ASSUME ConsistencyInv, NEW c \in Collections, audit[c].at \in Readings
  PROVE  /\ AuditType(audit[c]) /\ PlaceOK(c, audit[c]) /\ FallbackOK(audit[c])
         /\ DOMAIN audit[c] = Fields
         /\ audit[c].strategy \in {"stats", "direct"}
         /\ Expected(c) # {} /\ Expected(c) \subseteq Shards
<1>1. AuditType(audit[c]) /\ PlaceOK(c, audit[c]) /\ FallbackOK(audit[c])
  BY RunningFacts DEF Readings, Late
<1>2. Expected(c) # {} /\ audit[c].strategy \in {"stats", "direct"}
  BY <1>1 DEF PlaceOK, Readings, Late, Readable
<1> QED
  BY <1>1, <1>2 DEF AuditType, Expected, ConsistencyInv, DiscoveredOK

LEMMA NothingObserved == Observation(Nothing)
BY DEF Observation, Nothing

LEMMA StatsStepsKeep ==
  ASSUME ConsistencyInv, NEW c \in Collections, StartStats(c) \/ StatsFail(c) \/ ReadStats(c)
  PROVE  ConsistencyInv'
<1> DEFINE a == audit[c]
<1>1. /\ Frozen /\ UNCHANGED <<catalog, owners, changes, reply, errors>>
      /\ a.at \in Readings /\ a.at \in {"stats", "reading"}
  BY DEF StartStats, StatsFail, ReadStats, Frozen, cluster, fixed, discovered, outcome, Readings
<1>2. /\ AuditType(a) /\ DOMAIN a = Fields /\ a.strategy = "stats"
      /\ failed \subseteq Reasons /\ owners[c] \subseteq Shards
  BY <1>1, ReadingFacts DEF PlaceOK, ConsistencyInv, ControlOK, ClusterOK
<1>3. CASE StartStats(c)
  <2> DEFINE b == [a EXCEPT !.at = "reading", !.todo = owners[c]]
  <2>1. /\ DOMAIN b = Fields /\ b.at = "reading" /\ b.todo = owners[c] /\ b.why = a.why
        /\ b.first = a.first /\ b.second = a.second /\ b.reread = a.reread
        /\ b.faulty = a.faulty /\ b.strategy = a.strategy
        /\ \A x \in Kept : b[x] = a[x]
    BY <1>2 DEF Fields, Kept
  <2>2. Becomes(c, b) /\ failed' = failed
    BY <1>3 DEF StartStats, outcome
  <2> HIDE DEF b
  <2> QED
    BY <1>1, <1>2, <2>1, <2>2, ReadingKeeps DEF AuditType, Late
<1>4. CASE StatsFail(c)
  <2>1. PICK e \in Why :
           /\ Becomes(c, [audit[c] EXCEPT !.at = "judge", !.why = e, !.first = Nothing])
           /\ Fails(e)
    BY <1>4 DEF StatsFail
  <2> DEFINE b == [a EXCEPT !.at = "judge", !.why = e, !.first = Nothing]
  <2>2. /\ DOMAIN b = Fields /\ b.at = "judge" /\ b.todo = a.todo /\ b.why = e
        /\ b.first = Nothing /\ b.second = a.second /\ b.reread = a.reread
        /\ b.faulty = a.faulty /\ b.strategy = a.strategy
        /\ \A x \in Kept : b[x] = a[x]
    BY <1>2 DEF Fields, Kept
  <2>3. Becomes(c, b)
    BY <2>1
  <2> HIDE DEF b
  <2>4. e \in Reasons /\ failed' = failed \cup {e} /\ (e = "unauthorized" \/ e \in Bad)
    BY <2>1, WhyIsReason DEF Fails
  <2> QED
    BY <1>1, <1>2, <2>2, <2>3, <2>4, NothingObserved, ReadingKeeps DEF AuditType, Late
<1>5. CASE ReadStats(c)
  <2>1. PICK s \in a.todo :
           Becomes(c, [a EXCEPT !.todo = @ \ {s}, !.first = With(@, s, catalog[c][s]),
                                !.at = IF a.todo = {s} THEN "judge" ELSE @])
    BY <1>5 DEF ReadStats
  <2> DEFINE b == [a EXCEPT !.todo = @ \ {s}, !.first = With(@, s, catalog[c][s]),
                            !.at = IF a.todo = {s} THEN "judge" ELSE @]
  <2>2. /\ DOMAIN b = Fields /\ b.at \in {"judge", a.at} /\ b.todo = a.todo \ {s} /\ b.why = a.why
        /\ b.first = With(a.first, s, catalog[c][s]) /\ b.second = a.second
        /\ b.reread = a.reread /\ b.faulty = a.faulty /\ b.strategy = a.strategy
        /\ \A x \in Kept : b[x] = a[x]
    BY <1>2 DEF Fields, Kept
  <2>3. Becomes(c, b) /\ failed' = failed
    BY <1>5, <2>1 DEF ReadStats, outcome
  <2> HIDE DEF b
  <2>4. catalog[c][s] \in SUBSET Definitions
    BY <1>2, <2>1 DEF AuditType, ConsistencyInv, ClusterOK
  <2>5. Observation(b.first)
    BY <1>2, <2>2, <2>4, Updated DEF AuditType
  <2> QED
    BY <1>1, <1>2, <2>2, <2>3, <2>5, ReadingKeeps DEF AuditType, Late
<1> QED
  BY <1>3, <1>4, <1>5

LEMMA JudgeKeeps ==
  ASSUME ConsistencyInv, NEW c \in Collections, Judge(c)
  PROVE  ConsistencyInv'
<1> DEFINE a == audit[c]
           reason == IF a.why = "none" THEN "incomplete_coverage" ELSE a.why
           d == [a EXCEPT !.faulty = @ \/ ~Excused(a.why)]
<1>1. /\ Frozen /\ UNCHANGED <<catalog, owners, changes, reply, errors>>
      /\ a.at = "judge" /\ a.at \in Readings /\ failed' = failed /\ failed' \subseteq Reasons
  BY DEF Judge, Frozen, cluster, fixed, discovered, outcome, Readings, ConsistencyInv, ControlOK
<1>2. /\ AuditType(a) /\ PlaceOK(c, a) /\ FallbackOK(a) /\ DOMAIN a = Fields
      /\ a.strategy = "stats" /\ Expected(c) # {} /\ Expected(c) \subseteq Shards
  BY <1>1, ReadingFacts DEF PlaceOK
<1>3. /\ DOMAIN d = Fields /\ d.faulty = (a.faulty \/ ~Excused(a.why)) /\ d.faulty \in BOOLEAN
      /\ \A x \in Fields \ {"faulty"} : d[x] = a[x]
  BY <1>2 DEF AuditType, Fields, Excused
<1>4. a.why \in Bad => d.faulty
  BY <1>3 DEF Bad, Excused
<1>5. CASE a.why = "none" /\ Becomes(c, [a EXCEPT !.at = "weigh"])
  <2> DEFINE b == [a EXCEPT !.at = "weigh"]
  <2>1. /\ DOMAIN b = Fields /\ b.at = "weigh" /\ b.todo = a.todo /\ b.why = a.why
        /\ b.first = a.first /\ b.second = a.second /\ b.reread = a.reread
        /\ b.faulty = a.faulty /\ b.strategy = a.strategy
        /\ \A x \in Kept : b[x] = a[x]
    BY <1>2 DEF Fields, Kept
  <2>2. Becomes(c, b)
    BY <1>5
  <2> HIDE DEF b
  <2> QED
    BY <1>1, <1>2, <1>5, <2>1, <2>2, ReadingKeeps DEF AuditType, Late, Bad
<1>6. ASSUME Becomes(c, [d EXCEPT !.at = "cut"]) PROVE ConsistencyInv'
  <2> DEFINE b == [d EXCEPT !.at = "cut"]
  <2>1. /\ DOMAIN b = Fields /\ b.at = "cut"
        /\ \A x \in Fields \ {"at"} : b[x] = d[x]
    BY <1>3 DEF Fields
  <2>2. /\ b.strategy = a.strategy /\ b.fallback = a.fallback /\ b.official = a.official
        /\ b.seen = a.seen /\ b.why = a.why /\ b.todo = a.todo /\ b.first = a.first
        /\ b.reread = a.reread /\ b.second = a.second /\ b.verdict = a.verdict
        /\ b.faulty = d.faulty
    BY <1>3, <2>1 DEF Fields
  <2>3. Becomes(c, b)
    BY <1>6
  <2> HIDE DEF b, d
  <2>4. AuditType(b) /\ PlaceOK(c, b) /\ FallbackOK(b)
    <3>1. AuditType(b)
      BY <1>1, <1>2, <1>3, <2>1, <2>2 DEF AuditType, Places, Late
    <3>2. PlaceOK(c, b)
      BY <1>1, <1>2, <2>1, <2>2 DEF PlaceOK, Early, Late
    <3>3. FallbackOK(b)
      BY <1>2, <2>2 DEF FallbackOK
    <3> QED
      BY <3>1, <3>2, <3>3
  <2>5. Owes(c, a) => Owes(c, b)
    <3>1. Owes(c, a) => a.faulty \/ a.seen.err \in Bad \/ a.why \in Bad
      BY <1>1, OwesWhileRunning DEF Late
    <3> QED
      BY <1>3, <1>4, <2>1, <2>2, <3>1 DEF Owes
  <2> QED
    BY <1>1, <2>1, <2>2, <2>3, <2>4, <2>5, MoveKeeps DEF Late
<1>7. ASSUME ~OutOfTime(reason), Becomes(c, ToDirect(c, [d EXCEPT !.strategy = "direct",
                                                  !.fallback = FallBack(a, "direct", reason)]))
      PROVE  ConsistencyInv'
  <2> DEFINE f == FallBack(a, "direct", reason)
             b == ToDirect(c, [d EXCEPT !.strategy = "direct", !.fallback = f])
  <2>1. /\ DOMAIN b = Fields /\ b.at = "direct" /\ b.strategy = "direct" /\ b.fallback = f
        /\ b.todo = Expected(c) /\ b.first = Nothing
        /\ \A x \in Fields \ {"at", "strategy", "fallback", "todo", "first"} : b[x] = d[x]
    <3> HIDE DEF f, d
    <3> QED
      BY <1>3 DEF Fields, ToDirect
  <2>2. /\ b.official = a.official /\ b.seen = a.seen /\ b.why = a.why
        /\ b.reread = a.reread /\ b.second = a.second /\ b.verdict = a.verdict
        /\ b.faulty = d.faulty
    <3> HIDE DEF b
    <3> QED
      BY <1>3, <2>1 DEF Fields
  <2>3. Becomes(c, b)
    BY <1>7
  <2>4. reason \notin {"none", "timeout"}
    BY <1>7 DEF OutOfTime
  <2>5. /\ f # NoFallback /\ "direct" # target.strategy
        /\ DOMAIN f = {"from", "to", "reason"}
        /\ f.from = target.strategy /\ f.to = "direct"
        /\ f.from \in {"metadata", "stats"}
        /\ f.reason \notin {"none", "timeout"}
        /\ f.from = "metadata" => f.reason = a.official.err
    <3> HIDE DEF reason
    <3> QED
      BY <1>2, <2>4, FallBackExplains
  <2> HIDE DEF b, d, f
  <2>6. AuditType(b)
    BY <1>1, <1>2, <1>3, <2>1, <2>2, NothingObserved DEF AuditType, Places, Late, Strategies
  <2>7. PlaceOK(c, b)
    BY <1>1, <1>2, <2>1, <2>2 DEF PlaceOK, Early, Late, Readings
  <2>8. FallbackOK(b)
    <3>1. a.official.err # "none"
      BY <1>2 DEF FallbackOK
    <3> QED
      BY <2>1, <2>2, <2>5, <3>1 DEF FallbackOK
  <2>9. Owes(c, a) => Owes(c, b)
    <3>1. Owes(c, a) => a.faulty \/ a.seen.err \in Bad \/ a.why \in Bad
      BY <1>1, OwesWhileRunning DEF Late
    <3> QED
      BY <1>3, <1>4, <2>1, <2>2, <3>1 DEF Owes
  <2> QED
    BY <1>1, <2>1, <2>2, <2>3, <2>6, <2>7, <2>8, <2>9, MoveKeeps DEF Late
<1> QED
  BY <1>5, <1>6, <1>7 DEF Judge

(* Reading a shard: what it lists, or not, or the end of the readings.       *)
LEMMA ReadShardKeeps ==
  ASSUME ConsistencyInv, NEW c \in Collections, NEW s, NEW observed, NEW next,
         ReadShard(c, s, observed, next),
         Frozen, UNCHANGED <<catalog, owners, changes, reply, errors>>,
         audit[c].at \in {"direct", "confirm"}, next \in {"weigh", "finish"},
         DOMAIN observed = Fields, \A x \in Kept : observed[x] = audit[c][x],
         observed.at = IF audit[c].todo = {s} THEN next ELSE audit[c].at,
         observed.todo = audit[c].todo \ {s}, observed.why = audit[c].why,
         observed.reread = audit[c].reread, observed.faulty = audit[c].faulty,
         Observation(observed.first), Observation(observed.second)
  PROVE  ConsistencyInv'
<1> DEFINE a == audit[c]
<1>1. a.at \in Readings /\ failed \subseteq Reasons
  BY DEF Readings, ConsistencyInv, ControlOK
<1>2. /\ AuditType(a) /\ PlaceOK(c, a) /\ DOMAIN a = Fields
      /\ a.at = "direct" => a.strategy = "direct"
  BY <1>1, ReadingFacts DEF PlaceOK, AuditType, FallbackOK
<1>3. ASSUME done, Fails("timeout"),
             Becomes(c, [a EXCEPT !.faulty = TRUE, !.todo = {}, !.at = next])
      PROVE  ConsistencyInv'
  <2> DEFINE b == [a EXCEPT !.faulty = TRUE, !.todo = {}, !.at = next]
  <2>1. /\ DOMAIN b = Fields /\ b.at = next /\ b.todo = {} /\ b.why = a.why
        /\ b.first = a.first /\ b.second = a.second /\ b.reread = a.reread
        /\ b.faulty /\ b.faulty \in BOOLEAN /\ b.strategy = a.strategy
        /\ \A x \in Kept : b[x] = a[x]
    BY <1>2 DEF Fields, Kept
  <2>2. Becomes(c, b) /\ failed' \subseteq Reasons
    BY <1>1, <1>3 DEF Fails, Reasons
  <2> HIDE DEF b
  <2> QED
    <3>1. /\ b.at \in Late /\ b.at \notin {"stats", "reading", "judge", "direct", "confirm"}
          /\ a.at # "judge"
      BY <2>1 DEF Late
    <3>2. /\ b.todo \subseteq Shards /\ b.why \in {"none"} \cup Reasons
          /\ Observation(b.first) /\ Observation(b.second) /\ b.reread \in BOOLEAN
      BY <1>2, <2>1 DEF AuditType
    <3> QED
      BY <1>1, <1>3, <2>1, <2>2, <3>1, <3>2, ReadingKeeps
<1>4. ASSUME NEW e \in Reasons, Fails(e),
             Becomes(c, [a EXCEPT !.faulty = @ \/ ~Excused(e), !.todo = a.todo \ {s},
                                  !.at = IF a.todo \ {s} = {} THEN next ELSE @])
      PROVE  ConsistencyInv'
  <2> DEFINE b == [a EXCEPT !.faulty = @ \/ ~Excused(e), !.todo = a.todo \ {s},
                            !.at = IF a.todo \ {s} = {} THEN next ELSE @]
  <2>1. /\ DOMAIN b = Fields /\ b.at = (IF a.todo \ {s} = {} THEN next ELSE a.at)
        /\ b.todo = a.todo \ {s} /\ b.why = a.why
        /\ b.first = a.first /\ b.second = a.second /\ b.reread = a.reread
        /\ b.strategy = a.strategy
        /\ \A x \in Kept : b[x] = a[x]
    BY <1>2 DEF Fields, Kept
  <2>2. Becomes(c, b) /\ failed' \subseteq Reasons
    BY <1>1, <1>4 DEF Fails
  <2>3. b.faulty = (a.faulty \/ ~Excused(e))
    BY <1>2 DEF Fields
  <2>4. b.faulty \in BOOLEAN /\ (a.faulty => b.faulty) /\ (~Excused(e) => b.faulty)
    BY <1>2, <2>3 DEF AuditType, Excused
  <2>5. failed' \subseteq failed \cup {"unauthorized"} \/ b.faulty
    BY <1>4, <2>4 DEF Fails, Excused, Reasons
  <2> HIDE DEF b
  <2> QED
    <3>1. /\ b.at \in Late /\ b.at \notin {"stats", "reading", "judge"}
          /\ b.at = "direct" => b.strategy = "direct"
          /\ b.at \in {"direct", "confirm"} => b.todo # {}
          /\ a.at # "judge"
      BY <1>2, <2>1 DEF Late
    <3>2. /\ b.todo \subseteq Shards /\ b.why \in {"none"} \cup Reasons
          /\ Observation(b.first) /\ Observation(b.second) /\ b.reread \in BOOLEAN
      BY <1>2, <2>1 DEF AuditType
    <3> QED
      BY <1>1, <2>1, <2>2, <2>4, <2>5, <3>1, <3>2, ReadingKeeps
<1>5. ASSUME Becomes(c, observed), failed' = failed PROVE ConsistencyInv'
  <2>1. observed.strategy = a.strategy
    BY DEF Kept
  <2>2. a.todo # {}
    BY <1>2 DEF PlaceOK
  <2> QED
    BY <1>1, <1>2, <1>5, <2>1, <2>2, ReadingKeeps DEF AuditType, Late
<1> QED
  BY <1>3, <1>4, <1>5 DEF ReadShard

LEMMA ReadDirectKeeps ==
  ASSUME ConsistencyInv, NEW c \in Collections, ReadDirect(c)
  PROVE  ConsistencyInv'
<1> DEFINE a == audit[c]
           s == Least(a.todo)
           b == [a EXCEPT !.first = With(@, s, Listed(c, s)), !.todo = @ \ {s},
                          !.at = IF a.todo = {s} THEN "weigh" ELSE @]
<1>1. /\ Frozen /\ UNCHANGED <<catalog, owners, changes, reply, errors>>
      /\ a.at = "direct" /\ a.at \in Readings /\ ReadShard(c, s, b, "weigh")
  BY DEF ReadDirect, Frozen, cluster, fixed, discovered, Readings
<1>2. AuditType(a) /\ DOMAIN a = Fields /\ a.todo # {}
  BY <1>1, ReadingFacts DEF PlaceOK
<1>3. s \in Shards
  BY <1>2, LeastIsMember, ConsistencyAssumption DEF AuditType
<1>4. /\ DOMAIN b = Fields /\ b.at = (IF a.todo = {s} THEN "weigh" ELSE a.at)
      /\ b.todo = a.todo \ {s} /\ b.why = a.why
      /\ b.first = With(a.first, s, Listed(c, s)) /\ b.second = a.second
      /\ b.reread = a.reread /\ b.faulty = a.faulty
      /\ \A x \in Kept : b[x] = a[x]
  <2> HIDE DEF s
  <2> QED
    BY <1>2 DEF Fields, Kept
<1> HIDE DEF b, s
<1>5. Observation(b.first) /\ Observation(b.second)
  BY <1>2, <1>3, <1>4, ListedTyped, Updated DEF AuditType, ConsistencyInv
<1> QED
  BY <1>1, <1>4, <1>5, ReadShardKeeps

LEMMA ConfirmKeeps ==
  ASSUME ConsistencyInv, NEW c \in Collections, Confirm(c)
  PROVE  ConsistencyInv'
<1> DEFINE a == audit[c]
           s == Least(a.todo)
           b == [a EXCEPT !.second = With(@, s, Mark(Listed(c, s), a.seen.builds)),
                          !.todo = @ \ {s},
                          !.at = IF a.todo = {s} THEN "finish" ELSE @]
<1>1. /\ Frozen /\ UNCHANGED <<catalog, owners, changes, reply, errors>>
      /\ a.at = "confirm" /\ a.at \in Readings /\ ReadShard(c, s, b, "finish")
  BY DEF Confirm, Frozen, cluster, fixed, discovered, Readings
<1>2. AuditType(a) /\ DOMAIN a = Fields /\ a.todo # {}
  BY <1>1, ReadingFacts DEF PlaceOK
<1>3. s \in Shards
  BY <1>2, LeastIsMember, ConsistencyAssumption DEF AuditType
<1>4. /\ DOMAIN b = Fields /\ b.at = (IF a.todo = {s} THEN "finish" ELSE a.at)
      /\ b.todo = a.todo \ {s} /\ b.why = a.why
      /\ b.second = With(a.second, s, Mark(Listed(c, s), a.seen.builds))
      /\ b.first = a.first /\ b.reread = a.reread /\ b.faulty = a.faulty
      /\ \A x \in Kept : b[x] = a[x]
  <2> HIDE DEF s
  <2> QED
    BY <1>2 DEF Fields, Kept
<1> HIDE DEF b, s
<1>5. Mark(Listed(c, s), a.seen.builds) \in SUBSET Definitions
  BY <1>3, ListedTyped, MarkedTyped DEF ConsistencyInv
<1>6. Observation(b.first) /\ Observation(b.second)
  BY <1>2, <1>4, <1>5, Updated DEF AuditType
<1> QED
  BY <1>1, <1>4, <1>6, ReadShardKeeps

(* A difference that is not a shard without the index names all the shards   *)
(* that were observed.                                                       *)
LEMMA CandidateShards ==
  ASSUME NEW S, NEW obs, NEW names, NEW specs, NEW d \in Candidates(S, obs, names, specs)
  PROVE  d.code = "missing_on_shard" \/ d.shards = S
<1>1. \A ns, ps : /\ Difference("name_mismatch", ns, S, ps).shards = S
                  /\ Difference("spec_mismatch", ns, S, ps).shards = S
  BY DEF Difference
<1>2. \A ns, ss, ps : Difference("missing_on_shard", ns, ss, ps).code = "missing_on_shard"
  BY DEF Difference
<1> QED
  BY <1>1, <1>2 DEF Candidates

LEMMA WeighKeeps ==
  ASSUME ConsistencyInv, NEW c \in Collections, Weigh(c)
  PROVE  ConsistencyInv'
<1> DEFINE a == audit[c]
           first == [s \in DOMAIN a.first |-> Mark(a.first[s], a.seen.builds)]
           shards == Observed(Expected(c), first)
           found == FirstCandidates(Expected(c), first)
           affected == (UNION {d.shards : d \in found})
                         \cup (IF \E d \in found : d.code = "missing_on_shard"
                               THEN shards ELSE {})
           marked == [a EXCEPT !.first = first]
<1>1. /\ Frozen /\ UNCHANGED <<catalog, owners, changes, reply, errors, failed>>
      /\ a.at = "weigh" /\ a.at \in Readings /\ failed' \subseteq Reasons
  BY DEF Weigh, Frozen, fixed, discovered, outcome, Readings, ConsistencyInv, ControlOK
<1>2. /\ AuditType(a) /\ DOMAIN a = Fields /\ a.strategy \in {"stats", "direct"}
      /\ Expected(c) \subseteq Shards
  BY <1>1, ReadingFacts
<1>3. Observation(first)
  BY <1>2, MarkedObservation DEF AuditType
<1>4. shards \subseteq Shards
  BY <1>2 DEF Observed
<1>5. \/ Becomes(c, [marked EXCEPT !.at = "finish"])
      \/ Becomes(c, [marked EXCEPT !.at = "finish", !.faulty = TRUE])
      \/ /\ Cardinality(shards) >= 2 /\ found # {}
         /\ Becomes(c, [marked EXCEPT !.at = "confirm", !.reread = TRUE,
                                 !.todo = affected \cap shards,
                                 !.second = Without(first, affected)])
  BY <1>1 DEF Weigh
<1>6. Cardinality(shards) >= 2 /\ found # {} => affected \cap shards # {}
  <2>1. SUFFICES ASSUME Cardinality(shards) >= 2, found # {} PROVE affected \cap shards # {}
    OBVIOUS
  <2>2. shards # {}
    <3> HIDE DEF shards
    <3> QED
      BY <2>1, FS_EmptySet
  <2>3. PICK g \in found : TRUE
    BY <2>1
  <2>4. g.code = "missing_on_shard" \/ g.shards = shards
    BY <2>3, CandidateShards DEF FirstCandidates
  <2> DEFINE lacking == IF \E d \in found : d.code = "missing_on_shard" THEN shards ELSE {}
             naming == UNION {d.shards : d \in found}
  <2>7. affected = naming \cup lacking
    OBVIOUS
  <2> HIDE DEF shards, found
  <2>5. CASE g.code = "missing_on_shard"
    <3>1. lacking = shards
      BY <2>3, <2>5
    <3> HIDE DEF naming, lacking, affected
    <3> QED
      BY <2>2, <2>7, <3>1
  <2>6. CASE g.shards = shards
    <3>1. shards \subseteq affected
      BY <2>3, <2>6
    <3> QED
      BY <2>2, <3>1
  <2> QED
    BY <2>4, <2>5, <2>6
<1> HIDE DEF first, shards, found, affected
<1>7. /\ DOMAIN marked = Fields /\ marked.first = first
      /\ \A x \in Fields \ {"first"} : marked[x] = a[x]
  BY <1>2 DEF Fields
<1>8. ASSUME NEW b, Becomes(c, b), DOMAIN b = Fields,
             b.at = "finish" \/ (b.at = "confirm" /\ b.todo # {}),
             b.todo \subseteq Shards, b.first = first, Observation(b.second),
             b.reread \in BOOLEAN, b.faulty \in BOOLEAN, a.faulty => b.faulty,
             \A x \in Kept \cup {"why"} : b[x] = a[x]
      PROVE  ConsistencyInv'
  <2>1. b.why = a.why /\ (\A x \in Kept : b[x] = a[x])
    BY <1>8
  <2> QED
    BY <1>1, <1>2, <1>3, <1>8, <2>1, ReadingKeeps DEF AuditType, Late
<1>9. ASSUME Becomes(c, [marked EXCEPT !.at = "finish"]) PROVE ConsistencyInv'
  <2> DEFINE b == [marked EXCEPT !.at = "finish"]
  <2>1. /\ DOMAIN b = Fields /\ b.at = "finish" /\ b.todo = a.todo /\ b.first = first
        /\ b.second = a.second /\ b.reread = a.reread /\ b.faulty = a.faulty
        /\ \A x \in Kept \cup {"why"} : b[x] = a[x]
    <3> HIDE DEF marked
    <3> QED
      BY <1>7 DEF Fields, Kept
  <2>2. Becomes(c, b)
    BY <1>9
  <2> HIDE DEF b, marked
  <2> QED
    BY <1>2, <1>8, <2>1, <2>2 DEF AuditType
<1>10. ASSUME Becomes(c, [marked EXCEPT !.at = "finish", !.faulty = TRUE]) PROVE ConsistencyInv'
  <2> DEFINE b == [marked EXCEPT !.at = "finish", !.faulty = TRUE]
  <2>1. /\ DOMAIN b = Fields /\ b.at = "finish" /\ b.todo = a.todo /\ b.first = first
        /\ b.second = a.second /\ b.reread = a.reread /\ b.faulty /\ b.faulty \in BOOLEAN
        /\ \A x \in Kept \cup {"why"} : b[x] = a[x]
    <3> HIDE DEF marked
    <3> QED
      BY <1>7 DEF Fields, Kept
  <2>2. Becomes(c, b)
    BY <1>10
  <2> HIDE DEF b, marked
  <2> QED
    BY <1>2, <1>8, <2>1, <2>2 DEF AuditType
<1>11. ASSUME Cardinality(shards) >= 2, found # {},
              Becomes(c, [marked EXCEPT !.at = "confirm", !.reread = TRUE,
                                   !.todo = affected \cap shards,
                                   !.second = Without(first, affected)])
       PROVE  ConsistencyInv'
  <2> DEFINE b == [marked EXCEPT !.at = "confirm", !.reread = TRUE,
                            !.todo = affected \cap shards,
                            !.second = Without(first, affected)]
  <2>1. /\ DOMAIN b = Fields /\ b.at = "confirm" /\ b.todo = affected \cap shards
        /\ b.first = first /\ b.second = Without(first, affected)
        /\ b.reread \in BOOLEAN /\ b.faulty = a.faulty
        /\ \A x \in Kept \cup {"why"} : b[x] = a[x]
    <3> HIDE DEF marked
    <3> QED
      BY <1>7 DEF Fields, Kept
  <2>2. Becomes(c, b)
    BY <1>11
  <2>3. Observation(Without(first, affected))
    BY <1>3, Reduced
  <2> HIDE DEF b, marked
  <2> QED
    BY <1>2, <1>4, <1>6, <1>8, <1>11, <2>1, <2>2, <2>3 DEF AuditType
<1> QED
  BY <1>5, <1>9, <1>10, <1>11

LEMMA FinishKeeps ==
  ASSUME ConsistencyInv, NEW c \in Collections, Finish(c)
  PROVE  ConsistencyInv'
<1> DEFINE a == audit[c]
           e == Expected(c)
           lost == a.seen.err # "none" \/ ~(e \subseteq a.seen.shards)
           codes == {i[2] : i \in a.official.issues}
           v == CASE a.at = "cut" -> Incomplete
                  [] a.at = "finish" /\ a.strategy = "metadata" ->
                         Official(e, a.seen.shards, codes)
                  [] OTHER -> Legacy(e, a.first, a.reread, a.second)
           w == WithBuilds(WithGap(v, lost), a.seen.builds)
           b == [a EXCEPT !.faulty = @ \/ ~Excused(IF lost THEN a.seen.err ELSE "none")]
<1>1. /\ Frozen /\ UNCHANGED <<catalog, owners, changes, failed, reply>>
      /\ a.at \in {"finish", "cut"} /\ a.at \in Late /\ Conclude(c, b, w)
  BY DEF Finish, Frozen, cluster, fixed, discovered, Late
<1>2. /\ AuditType(a) /\ PlaceOK(c, a) /\ DOMAIN a = Fields /\ Readable(c) /\ Asked(c)
      /\ ByDatabase => a.official = OfNamespace(c)
      /\ a.at = "finish" /\ a.strategy = "metadata" => a.official.err = "none"
  BY <1>1, RunningFacts DEF PlaceOK, AuditType, Late, Early, ConsistencyInv, AuditsOK, AuditOK
<1>3. /\ DOMAIN b = Fields /\ b.faulty \in BOOLEAN /\ (a.faulty => b.faulty)
      /\ lost /\ a.seen.err \in Bad => b.faulty
      /\ \A x \in Fields \ {"faulty"} : b[x] = a[x]
  <2> HIDE DEF lost
  <2> QED
    BY <1>2 DEF AuditType, Fields, Excused, Bad
<1>4. Owes(c, a) => b.faulty
  <2>1. Owes(c, a) => a.faulty \/ a.seen.err \in Bad
    BY <1>1, OwesWhileRunning
  <2>2. a.seen.err \in Bad => lost
    BY DEF Bad
  <2> QED
    BY <1>3, <2>1, <2>2
<1>5. /\ Verdict(v)
      /\ v.state = "consistent" =>
            IF a.strategy = "metadata"
            THEN a.at = "finish"
                 /\ codes \cap {"missing", "differs", "shard key", "unmapped", "unknown"} = {}
            ELSE e \subseteq DOMAIN a.first /\ Building(a.first) = {}
  <2>1. CASE a.at = "cut"
    <3>1. v = Incomplete
      BY <2>1
    <3> HIDE DEF v
    <3> QED
      BY <3>1 DEF Incomplete, Verdict
  <2>2. CASE a.at = "finish" /\ a.strategy = "metadata"
    <3>1. v = Official(e, a.seen.shards, codes)
      BY <2>2
    <3> HIDE DEF v, codes, e
    <3>2. /\ Verdict(v)
          /\ v.state = "consistent" =>
                codes \cap {"missing", "differs", "shard key", "unmapped", "unknown"} = {}
      BY <3>1, OfficialState DEF Verdict
    <3> QED
      BY <2>2, <3>2
  <2>3. CASE a.at = "finish" /\ a.strategy # "metadata"
    <3>1. v = Legacy(e, a.first, a.reread, a.second)
      BY <2>3
    <3> HIDE DEF v, e
    <3> QED
      BY <2>3, <3>1, LegacyState DEF Verdict
  <2> QED
    BY <1>1, <2>1, <2>2, <2>3
<1>6. /\ w.state \in {"consistent", "inconsistent", "inconclusive"}
      /\ w.state = "consistent" => v.state = "consistent" /\ ~lost /\ a.seen.builds = {}
  <2>1. CASE lost
    <3>1. w = WithBuilds(WithGap(v, TRUE), a.seen.builds)
      BY <2>1
    <3>2. Verdict(WithGap(v, TRUE)) /\ WithGap(v, TRUE).state # "consistent"
      BY <1>5, GapState
    <3> HIDE DEF v, lost, w
    <3> QED
      BY <3>1, <3>2, BuildState
  <2>2. CASE ~lost
    <3>1. w = WithBuilds(WithGap(v, FALSE), a.seen.builds)
      BY <2>2
    <3>2. WithGap(v, FALSE) = v
      BY <1>5, GapState
    <3> HIDE DEF v, lost, w
    <3> QED
      BY <1>5, <2>2, <3>1, <3>2, BuildState
  <2> QED
    BY <2>1, <2>2
<1>7. w.state = "consistent" => Evidence(c, b)
  <2>1. SUFFICES ASSUME w.state = "consistent" PROVE Evidence(c, b)
    OBVIOUS
  <2>2. /\ b.seen = a.seen /\ b.strategy = a.strategy /\ b.official = a.official
        /\ b.first = a.first
    <3> HIDE DEF b
    <3> QED
      BY <1>3 DEF Fields
  <2>3. e # {} /\ e \subseteq a.seen.shards /\ a.seen.builds = {}
    BY <1>2, <1>6, <2>1 DEF Readable
  <2>4. CASE a.strategy = "metadata"
    <3>1. codes \subseteq {"foreign"}
      <4>1. codes \subseteq Issues
        BY <1>2 DEF AuditType
      <4>2. codes \cap {"missing", "differs", "shard key", "unmapped", "unknown"} = {}
        <5> HIDE DEF codes, v, w
        <5> QED
          BY <1>5, <1>6, <2>1, <2>4
      <4> HIDE DEF codes
      <4> QED
        BY <4>1, <4>2 DEF Issues
    <3>2. a.official.err = "none"
      <4> HIDE DEF codes, v, w
      <4> QED
        BY <1>2, <1>5, <1>6, <2>1, <2>4
    <3>3. ByDatabase => scope[DatabaseOf[c]].err = "none"
      BY <1>2, <3>2 DEF Asked, Readable, OfNamespace, Unread
    <3> HIDE DEF b, w, v
    <3> QED
      BY <2>2, <2>3, <2>4, <3>1, <3>3 DEF Evidence
  <2>5. CASE a.strategy # "metadata"
    <3>1. e \subseteq DOMAIN a.first /\ Building(a.first) = {}
      <4> HIDE DEF codes, v, w, e
      <4> QED
        BY <1>5, <1>6, <2>1, <2>5
    <3> HIDE DEF b, w, v
    <3> QED
      BY <2>2, <2>3, <2>5, <3>1 DEF Evidence
  <2> QED
    BY <2>4, <2>5
<1> HIDE DEF b, w, v
<1> QED
  BY <1>1, <1>3, <1>4, <1>6, <1>7, ConcludeKeeps DEF States

LEMMA DispatchKeeps ==
  ASSUME ConsistencyInv, NEW c \in Collections, Dispatch(c)
  PROVE  ConsistencyInv'
<1> DEFINE a == audit[c]
           b == [a EXCEPT !.at = "start", !.strategy = target.strategy,
                          !.official = IF ByDatabase THEN OfNamespace(c) ELSE @]
<1>1. /\ Frozen /\ UNCHANGED <<catalog, owners, changes, reply, errors, failed>>
      /\ phase = "dispatch" /\ ~done /\ a.at = "queued" /\ Becomes(c, b)
  BY DEF Dispatch, Queued, Frozen, cluster, fixed, discovered, outcome
<1>2. /\ AuditType(a) /\ a = NewAudit /\ DOMAIN a = Fields /\ target.strategy \in Strategies
      /\ errors \in BOOLEAN /\ failed \subseteq Reasons /\ Asked(c)
  BY <1>1 DEF ConsistencyInv, AuditsOK, AuditOK, AuditType, DiscoveredOK, ControlOK, ScopesAsked
<1>3. /\ DOMAIN b = Fields /\ b.at = "start" /\ b.strategy = target.strategy
      /\ b.official = IF ByDatabase THEN OfNamespace(c) ELSE NoScope
      /\ b.seen = NotSeen /\ b.why = "none" /\ b.todo = {} /\ b.first = Nothing
      /\ b.fallback = NoFallback /\ b.reread = FALSE /\ b.second = Nothing
      /\ b.faulty = FALSE /\ b.verdict = NoVerdict
  <2>1. /\ a.official = NoScope /\ a.seen = NotSeen /\ a.why = "none" /\ a.todo = {}
        /\ a.first = Nothing /\ a.fallback = NoFallback /\ a.reread = FALSE
        /\ a.second = Nothing /\ a.faulty = FALSE /\ a.verdict = NoVerdict
    BY <1>2 DEF NewAudit
  <2> QED
    BY <1>2, <2>1 DEF Fields
<1> HIDE DEF b
<1>4. /\ b.official.err \in Outcomes /\ \A i \in b.official.issues : i[2] \in Issues
      /\ b.official.err = "none" => b.strategy = "metadata"
  <2>1. CASE ByDatabase
    <3>1. DatabaseOf[c] \in Databases
      BY DEF Databases
    <3> QED
      BY <1>3, <2>1, <3>1 DEF OfNamespace, ConsistencyInv, DiscoveredOK, Outcomes, ByDatabase
  <2>2. CASE ~ByDatabase
    BY <1>3, <2>2 DEF NoScope, Outcomes, Unread
  <2> QED
    BY <2>1, <2>2
<1>5. /\ NotSeen.err = Unread /\ NoVerdict.state = "none"
  BY DEF NotSeen, NoVerdict
<1>6. AuditType(b)
  BY <1>2, <1>3, <1>4, <1>5, NothingObserved
     DEF AuditType, Places, Early, Outcomes, States
<1>7. PlaceOK(c, b)
  BY <1>3, <1>5 DEF PlaceOK, Early, Late
<1>8. FallbackOK(b)
  BY <1>3, <1>4 DEF FallbackOK
<1>9. AuditOK(c, b)
  BY <1>1, <1>2, <1>3, <1>5, <1>6, <1>7, <1>8 DEF AuditOK
<1>10. Owes(c, a) => Owes(c, b)
  <2>1. ~a.faulty /\ a.seen.err = Unread
    BY <1>2, <1>5 DEF NewAudit
  <2> QED
    BY <1>1, <1>3, <2>1 DEF Owes, Bad, Unread
<1> QED
  BY <1>1, <1>2, <1>3, <1>9, <1>10, GoingKeeps DEF Going

LEMMA AuditKeeps ==
  ASSUME ConsistencyInv, NEW c \in Collections, AuditStep(c)
  PROVE  ConsistencyInv'
BY StartKeeps, ReadMetadataKeeps, ReadVisibilityKeeps, ChooseKeeps, StatsStepsKeep, JudgeKeeps,
   ReadDirectKeeps, WeighKeeps, ConfirmKeeps, FinishKeeps DEF AuditStep

-----------------------------------------------------------------------------
(* The steps before the goroutines start. *)

LEMMA NewAuditOK ==
  ASSUME NEW c
  PROVE  AuditOK(c, NewAudit) /\ AuditOK(c, NewAudit)'
<1>1. AuditType(NewAudit)
  <2>1. NoScope.err = Unread /\ NoScope.issues = {} /\ NotSeen.err = Unread
        /\ NoVerdict.state = "none"
    BY DEF NoScope, NotSeen, NoVerdict
  <2>2. /\ DOMAIN NewAudit = Fields /\ NewAudit.at = "queued" /\ NewAudit.strategy = "none"
        /\ NewAudit.official = NoScope /\ NewAudit.seen = NotSeen /\ NewAudit.why = "none"
        /\ NewAudit.todo = {} /\ NewAudit.first = Nothing /\ NewAudit.second = Nothing
        /\ NewAudit.reread = FALSE /\ NewAudit.faulty = FALSE /\ NewAudit.verdict = NoVerdict
    BY DEF NewAudit, Fields
  <2> QED
    BY <2>1, <2>2, NothingObserved DEF AuditType, Places, Strategies, Outcomes, States
<1>2. NewAudit.at = "queued" /\ NewAudit.verdict.state = "none"
  BY DEF NewAudit, NoVerdict
<1>3. PlaceOK(c, NewAudit) /\ PlaceOK(c, NewAudit)'
  BY <1>2 DEF PlaceOK, Early, Late
<1> QED
  BY <1>1, <1>2, <1>3 DEF AuditOK

(* Before them there are only new audits.                                    *)
LEMMA AllQueued ==
  ASSUME ConsistencyInv, ~Begun(phase)
  PROVE  \A c \in Collections : audit[c] = NewAudit
BY DEF ConsistencyInv, AuditsOK, AuditOK, Begun

LEMMA NoneRunning ==
  ASSUME ConsistencyInv, ~Begun(phase), audit' = audit
  PROVE  AuditsOK'
BY AllQueued, NewAuditOK DEF ConsistencyInv, AuditsOK

(* What has failed is owed by the collection it has been read for.           *)
LEMMA OwedBefore ==
  ASSUME ConsistencyInv, ~Begun(phase), ~done, ~errors, ~(failed \subseteq {"unauthorized"})
  PROVE  \E c \in Collections :
            \/ routing[c].err \in Bad
            \/ c \in Sharded /\ target.err \in Bad
            \/ /\ c \in Sharded /\ ByDatabase /\ target.err = "none"
               /\ scope[DatabaseOf[c]].err \in Bad
<1>1. PICK c \in Collections : Owes(c, audit[c])
  BY DEF ConsistencyInv, FailureOwed, Stranded, Begun
<1>2. audit[c] = NewAudit
  BY AllQueued
<1>3. ~audit[c].faulty /\ audit[c].at = "queued" /\ audit[c].seen.err = Unread
  BY <1>2 DEF NewAudit, NotSeen
<1> QED
  BY <1>1, <1>3 DEF Owes, Bad, Unread

(* It stays owed if what is read goes on being remembered.                   *)
LEMMA OwedAfter ==
  ASSUME ConsistencyInv, ~Begun(phase), audit' = audit, done' = done, errors' = errors,
         NEW f, failed' \subseteq failed \cup {f},
         f = "unauthorized" \/ f \in failed \/
            \E c \in Collections :
               \/ (routing[c].err \in Bad)'
               \/ (c \in Sharded /\ target.err \in Bad)'
               \/ (/\ c \in Sharded /\ ByDatabase /\ target.err = "none"
                   /\ scope[DatabaseOf[c]].err \in Bad)',
         \A c \in Collections :
            /\ routing[c].err \in Bad => (routing[c].err \in Bad)'
            /\ c \in Sharded /\ target.err \in Bad => (c \in Sharded /\ target.err \in Bad)'
            /\ c \in Sharded /\ ByDatabase /\ target.err = "none" /\ scope[DatabaseOf[c]].err \in Bad =>
                  (/\ c \in Sharded /\ ByDatabase /\ target.err = "none"
                   /\ scope[DatabaseOf[c]].err \in Bad)'
  PROVE  FailureOwed'
<1>1. CASE done \/ errors \/ failed' \subseteq {"unauthorized"}
  BY <1>1 DEF FailureOwed
<1>2. CASE ~done /\ ~errors /\ ~(failed' \subseteq {"unauthorized"})
  <2>1. PICK c \in Collections :
               \/ (routing[c].err \in Bad)'
               \/ (c \in Sharded /\ target.err \in Bad)'
               \/ (/\ c \in Sharded /\ ByDatabase /\ target.err = "none"
                   /\ scope[DatabaseOf[c]].err \in Bad)'
    <3>1. CASE failed \subseteq {"unauthorized"}
      BY <1>2, <3>1
    <3>2. CASE ~(failed \subseteq {"unauthorized"})
      BY <1>2, <3>2, OwedBefore
    <3> QED
      BY <3>1, <3>2
  <2>2. audit'[c].at = "queued"
    BY AllQueued DEF NewAudit
  <2>3. Owes(c, audit[c])'
    BY <2>1, <2>2 DEF Owes
  <2> QED
    BY <2>1, <2>3 DEF FailureOwed
<1> QED
  BY <1>1, <1>2

LEMMA ReadRoutingKeeps ==
  ASSUME ConsistencyInv, NEW c \in Collections, ReadRouting(c)
  PROVE  ConsistencyInv'
<1>1. /\ phase = "routing" /\ kind[c] # "view" /\ routing[c].err = Unread
      /\ UNCHANGED <<catalog, owners, changes, kind, version, filtered, done, phase, target, scope,
                     audit, errors, reply>>
  BY DEF ReadRouting, cluster, fixed
<1>2. PICK r \in [err : Outcomes, sharded : BOOLEAN, expected : SUBSET Shards] :
         /\ routing' = [routing EXCEPT ![c] = r]
         /\ r.err # Unread
         /\ r.err \in Bad \/ failed' = failed \/ failed' = failed \cup {"unauthorized"}
         /\ (r.err \in Reasons /\ failed' = failed \cup {r.err}) \/ failed' = failed
  <2>1. routing[c] \in [err : Outcomes, sharded : BOOLEAN, expected : SUBSET Shards]
    BY DEF ConsistencyInv, DiscoveredOK
  <2>2. owners[c] \subseteq Shards
    BY DEF ConsistencyInv, ClusterOK
  <2>3. ASSUME NEW S \in SUBSET Shards, failed' = failed,
               routing' = [routing EXCEPT ![c] =
                    [err |-> "none", sharded |-> kind[c] = "sharded", expected |-> S]]
        PROVE  \E r \in [err : Outcomes, sharded : BOOLEAN, expected : SUBSET Shards] :
                 /\ routing' = [routing EXCEPT ![c] = r]
                 /\ r.err # Unread
                 /\ r.err \in Bad \/ failed' = failed \/ failed' = failed \cup {"unauthorized"}
                 /\ (r.err \in Reasons /\ failed' = failed \cup {r.err}) \/ failed' = failed
    <3> [err |-> "none", sharded |-> kind[c] = "sharded", expected |-> S]
           \in [err : Outcomes, sharded : BOOLEAN, expected : SUBSET Shards]
      BY DEF Outcomes
    <3> WITNESS [err |-> "none", sharded |-> kind[c] = "sharded", expected |-> S]
                  \in [err : Outcomes, sharded : BOOLEAN, expected : SUBSET Shards]
    <3> QED
      BY <2>3 DEF Unread
  <2>4. ASSUME NEW e \in Why, routing' = [routing EXCEPT ![c].err = e], Fails(e)
        PROVE  \E r \in [err : Outcomes, sharded : BOOLEAN, expected : SUBSET Shards] :
                 /\ routing' = [routing EXCEPT ![c] = r]
                 /\ r.err # Unread
                 /\ r.err \in Bad \/ failed' = failed \/ failed' = failed \cup {"unauthorized"}
                 /\ (r.err \in Reasons /\ failed' = failed \cup {r.err}) \/ failed' = failed
    <3>1. e \in Reasons /\ (e = "unauthorized" \/ e \in Bad)
      BY WhyIsReason
    <3> DEFINE r == [routing[c] EXCEPT !.err = e]
    <3>2. /\ r \in [err : Outcomes, sharded : BOOLEAN, expected : SUBSET Shards]
          /\ r.err = e
      BY <2>1, <3>1 DEF Outcomes
    <3>3. routing' = [routing EXCEPT ![c] = r]
      BY <2>4
    <3> HIDE DEF r
    <3> QED
      BY <2>4, <3>1, <3>2, <3>3 DEF Fails, Unread, Reasons
  <2>5. \A S \in IF kind[c] = "sharded" THEN {owners[c], {}} ELSE {{}} : S \in SUBSET Shards
    BY <2>2
  <2> QED
    BY <2>3, <2>4, <2>5 DEF ReadRouting
<1>3. /\ routing' \in [Collections -> [err : Outcomes, sharded : BOOLEAN, expected : SUBSET Shards]]
      /\ routing'[c] = r
      /\ \A k \in Collections \ {c} : routing'[k] = routing[k]
  BY <1>2 DEF ConsistencyInv, DiscoveredOK
<1>4. target.strategy = "none" /\ target.err = "none" /\ ~Begun(phase) /\ ~ByDatabase
  BY <1>1 DEF ConsistencyInv, DiscoveredOK, Begun, ByDatabase
<1>5. ClusterOK'
  BY <1>1 DEF ConsistencyInv, ClusterOK
<1>6. DiscoveredOK'
  BY <1>1, <1>2, <1>3, <1>4 DEF ConsistencyInv, DiscoveredOK
<1>7. ControlOK'
  <2>1. failed' \subseteq Reasons
    BY <1>2 DEF ConsistencyInv, ControlOK
  <2> QED
    BY <1>1, <2>1 DEF ConsistencyInv, ControlOK, ScopesAsked, Running, Queued
<1>8. AuditsOK'
  BY <1>1, <1>4, NoneRunning
<1>9. FailureOwed'
  <2>1. \A k \in Collections : routing[k].err \in Bad => routing'[k].err \in Bad
    BY <1>1, <1>3 DEF Bad, Unread
  <2>2. r.err \in Bad \/ failed' \subseteq failed \cup {"unauthorized"}
    BY <1>2
  <2>3. CASE r.err \in Bad
    <3>1. routing'[c].err \in Bad
      BY <1>3, <2>3
    <3>2. failed' \subseteq failed \cup {r.err}
      BY <1>2
    <3> QED
      BY <1>1, <1>4, <2>1, <3>1, <3>2, OwedAfter DEF Bad
  <2>4. CASE failed' \subseteq failed \cup {"unauthorized"}
    BY <1>1, <1>4, <2>1, <2>4, OwedAfter DEF Bad
  <2> QED
    BY <2>2, <2>3, <2>4
<1> QED
  BY <1>5, <1>6, <1>7, <1>8, <1>9 DEF ConsistencyInv

LEMMA EndRoutingKeeps ==
  ASSUME ConsistencyInv, EndRouting
  PROVE  ConsistencyInv'
<1>1. /\ phase = "routing" /\ phase' = (IF Sharded # {} THEN "version" ELSE "dispatch")
      /\ UNCHANGED <<catalog, owners, changes, kind, version, filtered, done, routing, target,
                     scope, audit, errors, failed, reply>>
  BY DEF EndRouting, cluster, fixed, discovered, outcome
<1>2. Sharded' = Sharded /\ ByDatabase' = ByDatabase /\ Running' = Running /\ Queued' = Queued
  BY <1>1 DEF Sharded, ByDatabase, Running, Queued
<1>3. ClusterOK' /\ DiscoveredOK'
  BY <1>1, <1>2 DEF ConsistencyInv, ClusterOK, DiscoveredOK
<1>4. ControlOK'
  BY <1>1, <1>2 DEF ConsistencyInv, ControlOK, ScopesAsked, Asked, Phases
<1>5. AuditsOK'
  BY <1>1, NoneRunning DEF Begun
<1>6. FailureOwed'
  BY <1>1, <1>2, OwedAfter DEF Begun
<1> QED
  BY <1>3, <1>4, <1>5, <1>6 DEF ConsistencyInv

(* The version and the list of the shards.                                   *)
LEMMA TargetKeeps ==
  ASSUME ConsistencyInv, ReadVersion \/ ReadShards
  PROVE  ConsistencyInv'
<1>1. /\ phase \in {"version", "shards"} /\ ~Begun(phase)
      /\ UNCHANGED <<catalog, owners, changes, kind, version, filtered, done, routing, scope,
                     audit, errors, reply>>
  BY DEF ReadVersion, ReadShards, cluster, fixed, Begun
<1>2. /\ Sharded' = Sharded /\ Running' = Running /\ Queued' = Queued /\ Sharded # {}
      /\ target.err = "none" /\ failed \subseteq Reasons
      /\ \A d \in Databases : scope[d].err = Unread
      /\ target \in [err : {"none"} \cup Reasons, strategy : Strategies, shards : SUBSET Shards]
  BY <1>1 DEF Sharded, Running, Queued, ConsistencyInv, DiscoveredOK, ControlOK
<1>3. StrategyFor(version) \in Strategies
  BY DEF StrategyFor, Strategies
<1>4. \/ /\ failed' = failed /\ target'.err = "none"
         /\ \/ phase' = "dispatch" /\ ~ByDatabase'
            \/ phase' = "shards" /\ target'.strategy # "unsupported"
            \/ phase' = "scopes" /\ ByDatabase'
      \/ /\ target'.err \in Reasons /\ failed' = failed \cup {target'.err}
         /\ target'.err = "unauthorized" \/ target'.err \in Bad
         /\ phase' = "dispatch" /\ target'.strategy # "unsupported"
  <2>1. CASE ReadVersion
    BY <1>1, <1>2, <2>1, WhyIsReason DEF ReadVersion, Fails, ByDatabase, ConsistencyInv, DiscoveredOK
  <2>2. CASE ReadShards
    BY <1>1, <1>2, <2>2, WhyIsReason DEF ReadShards, Fails, ByDatabase, ConsistencyInv, DiscoveredOK
  <2> QED
    BY <2>1, <2>2
<1>5. target' \in [err : {"none"} \cup Reasons, strategy : Strategies, shards : SUBSET Shards]
  BY <1>2, <1>3, WhyIsReason DEF ReadVersion, ReadShards
<1>6. ClusterOK'
  BY <1>1 DEF ConsistencyInv, ClusterOK
<1>7. DiscoveredOK'
  BY <1>1, <1>2, <1>4, <1>5 DEF ConsistencyInv, DiscoveredOK, Reasons
<1>8. ControlOK'
  <2>1. ScopesAsked'
    BY <1>4 DEF ScopesAsked, Asked, Reasons
  <2> QED
    BY <1>1, <1>2, <1>4, <2>1 DEF ConsistencyInv, ControlOK, Phases
<1>9. AuditsOK'
  BY <1>1, NoneRunning
<1>10. FailureOwed'
  <2>1. \A k \in Collections : k \in Sharded => scope[DatabaseOf[k]].err \notin Bad
    BY <1>2 DEF Databases, Bad, Unread
  <2>2. CASE failed' = failed
    BY <1>1, <1>2, <2>1, <2>2, OwedAfter DEF Bad
  <2>3. CASE target'.err = "unauthorized" /\ failed' = failed \cup {"unauthorized"}
    BY <1>1, <1>2, <2>1, <2>3, OwedAfter DEF Bad
  <2>4. CASE target'.err \in Bad /\ failed' = failed \cup {target'.err}
    <3>1. PICK k \in Collections : k \in Sharded
      BY <1>2 DEF Sharded
    <3> QED
      BY <1>1, <1>2, <2>1, <2>4, <3>1, OwedAfter DEF Bad
  <2> QED
    BY <1>4, <2>2, <2>3, <2>4
<1> QED
  BY <1>6, <1>7, <1>8, <1>9, <1>10 DEF ConsistencyInv

LEMMA ReadScopeKeeps ==
  ASSUME ConsistencyInv, NEW d \in Databases, ReadScope(d)
  PROVE  ConsistencyInv'
<1> DEFINE left == {DatabaseOf[c] : c \in Sharded} \ {e \in Databases : scope[e].err # Unread}
<1>1. /\ phase = "scopes" /\ ~Begun(phase) /\ d \in left
      /\ phase' = (IF done \/ left = {d} THEN "dispatch" ELSE "scopes")
      /\ UNCHANGED <<catalog, owners, changes, kind, version, filtered, done, routing, target,
                     audit, errors, reply>>
  BY DEF ReadScope, cluster, fixed, Begun
<1>2. /\ Sharded' = Sharded /\ Running' = Running /\ Queued' = Queued
      /\ ByDatabase /\ ByDatabase' = ByDatabase /\ target.err = "none"
      /\ scope[d].err = Unread /\ DOMAIN scope = Databases /\ DOMAIN scope[d] = {"err", "issues"}
      /\ failed \subseteq Reasons
  BY <1>1 DEF Sharded, Running, Queued, ByDatabase, ConsistencyInv, DiscoveredOK, ControlOK
<1>3. /\ \A e \in Databases \ {d} : scope'[e] = scope[e]
      /\ DOMAIN scope' = Databases /\ DOMAIN scope'[d] = {"err", "issues"}
      /\ scope'[d].err \in Outcomes \ {Unread}
      /\ \A i \in scope'[d].issues : i[2] \in Issues
      /\ \/ failed' = failed
         \/ failed' = failed \cup {scope'[d].err} /\ scope'[d].err \in Reasons
  <2>1. PICK r : /\ scope' = [scope EXCEPT ![d] = r]
                 /\ DOMAIN r = {"err", "issues"} /\ r.err \in Outcomes \ {Unread}
                 /\ \A i \in r.issues : i[2] \in Issues
                 /\ failed' = failed \/ (failed' = failed \cup {r.err} /\ r.err \in Reasons)
    <3> DEFINE Read(r) == /\ scope' = [scope EXCEPT ![d] = r]
                          /\ DOMAIN r = {"err", "issues"} /\ r.err \in Outcomes \ {Unread}
                          /\ \A i \in r.issues : i[2] \in Issues
                          /\ \/ failed' = failed
                             \/ failed' = failed \cup {r.err} /\ r.err \in Reasons
    <3>1. ASSUME NEW f \in [{c \in Collections : DatabaseOf[c] = d} -> Answers], failed' = failed,
                 scope' = [scope EXCEPT ![d] =
                              Said(UNION {{<<c, i>> : i \in f[c]} : c \in DOMAIN f})]
          PROVE  \E r : Read(r)
      <4> DEFINE all == UNION {{<<c, i>> : i \in f[c]} : c \in DOMAIN f}
      <4>1. \A i \in all : i[2] \in Issues
        BY <3>1, ConsistencyAssumption
      <4> HIDE DEF all
      <4>2. /\ DOMAIN Said(all) = {"err", "issues"} /\ Said(all).err = "none"
            /\ Said(all).issues = all
        BY DEF Said
      <4>3. Read(Said(all))
        BY <3>1, <4>1, <4>2 DEF all, Outcomes, Unread
      <4> HIDE DEF Read
      <4> QED
        BY <4>3
    <3>2. ASSUME NEW e \in Why, scope' = [scope EXCEPT ![d].err = e], Fails(e)
          PROVE  \E r : Read(r)
      <4> DEFINE r == [scope[d] EXCEPT !.err = e]
      <4>1. DOMAIN r = {"err", "issues"} /\ r.err = e /\ r.issues = scope[d].issues
        BY <1>2
      <4>2. scope' = [scope EXCEPT ![d] = r]
        BY <3>2
      <4>3. \A i \in scope[d].issues : i[2] \in Issues
        BY DEF ConsistencyInv, DiscoveredOK
      <4> HIDE DEF r
      <4>4. Read(r)
        BY <3>2, <4>1, <4>2, <4>3, WhyIsReason DEF Fails, Outcomes, Reasons, Unread
      <4> HIDE DEF Read
      <4> QED
        BY <4>4
    <3>3. \E r : Read(r)
      <4> HIDE DEF Read
      <4> QED
        BY <3>1, <3>2 DEF ReadScope
    <3> QED
      BY <3>3
  <2> QED
    BY <1>2, <2>1
<1>4. ClusterOK'
  BY <1>1 DEF ConsistencyInv, ClusterOK
<1>5. DiscoveredOK'
  BY <1>1, <1>2, <1>3 DEF ConsistencyInv, DiscoveredOK
<1>6. ControlOK'
  <2>1. ASSUME phase' = "dispatch", ~done', NEW c \in Collections, c \in Sharded
        PROVE  scope'[DatabaseOf[c]].err # Unread
    <3>1. left = {d}
      BY <1>1, <2>1
    <3>2. DatabaseOf[c] \in Databases
      BY DEF Databases
    <3>3. DatabaseOf[c] = d \/ scope[DatabaseOf[c]].err # Unread
      BY <2>1, <3>1, <3>2
    <3> QED
      BY <1>3, <3>2, <3>3
  <2>2. ScopesAsked'
    BY <1>2, <2>1 DEF ScopesAsked, Asked
  <2>3. failed' \subseteq Reasons
    BY <1>2, <1>3
  <2> QED
    BY <1>1, <1>2, <2>2, <2>3 DEF ConsistencyInv, ControlOK, Phases
<1>7. AuditsOK'
  BY <1>1, NoneRunning
<1>8. FailureOwed'
  <2>1. \A c \in Collections : scope[DatabaseOf[c]].err \in Bad =>
                                   scope'[DatabaseOf[c]].err \in Bad
    BY <1>2, <1>3 DEF Databases, Bad, Unread
  <2>2. CASE failed' = failed
    BY <1>1, <1>2, <2>1, <2>2, OwedAfter
  <2>3. CASE failed' = failed \cup {scope'[d].err} /\ scope'[d].err \in Bad
    <3>1. PICK c \in Sharded : DatabaseOf[c] = d
      BY <1>1
    <3>2. c \in Collections
      BY <3>1 DEF Sharded
    <3> QED
      BY <1>1, <1>2, <2>1, <2>3, <3>1, <3>2, OwedAfter
  <2>4. CASE failed' = failed \cup {"unauthorized"}
    BY <1>1, <1>2, <2>1, <2>4, OwedAfter
  <2> QED
    BY <1>3, <2>2, <2>3, <2>4 DEF Reasons, Bad
<1> QED
  BY <1>4, <1>5, <1>6, <1>7, <1>8 DEF ConsistencyInv

-----------------------------------------------------------------------------
(* The steps that leave the audits alone. *)

LEMMA RestKeeps ==
  ASSUME ConsistencyInv, ClusterOK', ControlOK',
         UNCHANGED <<kind, filtered, routing, target, scope, audit, failed>>,
         phase' = phase \/ (Begun(phase) /\ Begun(phase')), done => done', errors => errors'
  PROVE  ConsistencyInv'
<1>1. Sharded' = Sharded /\ ByDatabase' = ByDatabase
  BY DEF Sharded, ByDatabase
<1>2. DiscoveredOK'
  <2>1. phase' = phase \/ phase' \notin {"routing", "version", "shards", "scopes"}
    BY DEF Begun
  <2>2. phase' \in {"shards", "scopes"} => phase \in {"shards", "scopes"}
    BY <2>1
  <2> QED
    BY <1>1, <2>1, <2>2 DEF ConsistencyInv, DiscoveredOK
<1>3. AuditsOK'
  <2>1. ASSUME NEW c \in Collections PROVE AuditOK(c, audit[c])'
    BY AuditStable DEF ConsistencyInv, AuditsOK
  <2> QED
    BY <2>1 DEF ConsistencyInv, AuditsOK
<1>4. Stranded => Stranded'
  BY <1>1 DEF Stranded, Blocked, WhyBlocked, Expected, Begun
<1>5. \A c \in Collections : Owes(c, audit[c]) => Owes(c, audit[c])'
  BY <1>1 DEF Owes
<1>6. FailureOwed'
  BY <1>4, <1>5 DEF ConsistencyInv, FailureOwed
<1> QED
  BY <1>2, <1>3, <1>6 DEF ConsistencyInv

LEMMA CallerKeeps ==
  ASSUME ConsistencyInv, EndDispatch \/ Return \/ Cancel
  PROVE  ConsistencyInv'
<1>1. /\ UNCHANGED <<catalog, owners, changes, kind, filtered, routing, target, scope, audit, failed>>
      /\ Running' = Running /\ Queued' = Queued
  BY DEF EndDispatch, Return, Cancel, cluster, fixed, discovered, outcome, Running, Queued
<1>2. ClusterOK'
  BY <1>1 DEF ConsistencyInv, ClusterOK
<1>3. CASE EndDispatch
  <2>1. ControlOK'
    BY <1>1, <1>3 DEF EndDispatch, ConsistencyInv, ControlOK, ScopesAsked, Phases
  <2> QED
    BY <1>1, <1>2, <1>3, <2>1, RestKeeps DEF EndDispatch, Begun
<1>4. CASE Return
  <2>1. /\ reply' \in {"ok", "partial", "error"} /\ (reply' = "ok" => ~errors)
        /\ phase = "waiting" /\ phase' = "returned" /\ Running = {}
        /\ errors' = errors /\ done' = done
    BY <1>4 DEF Return, outcome, ConsistencyInv, ControlOK
  <2>2. ControlOK'
    BY <1>1, <2>1 DEF ConsistencyInv, ControlOK, ScopesAsked, Phases
  <2> QED
    BY <1>1, <1>2, <2>1, <2>2, RestKeeps DEF Begun
<1>5. CASE Cancel
  <2>1. done' = TRUE /\ UNCHANGED <<phase, errors, reply>>
    BY <1>5 DEF Cancel, outcome
  <2>2. ControlOK'
    BY <1>1, <2>1 DEF ConsistencyInv, ControlOK, ScopesAsked
  <2> QED
    BY <1>1, <1>2, <2>1, <2>2, RestKeeps
<1> QED
  BY <1>3, <1>4, <1>5

LEMMA ChangesKeep ==
  ASSUME ConsistencyInv, NEW c \in Collections, NEW s \in Shards,
         StartBuild(c, s) \/ FinishBuild(c, s) \/ Drop(c, s) \/ MoveChunk(c, s)
  PROVE  ConsistencyInv'
<1>1. PICK D \in SUBSET Definitions : Changes(c, s, D)
  <2>1. \A t \in Shards : catalog[c][t] \in SUBSET Definitions
    BY DEF ConsistencyInv, ClusterOK
  <2>2. owners[c] \subseteq Shards
    BY DEF ConsistencyInv, ClusterOK
  <2>3. CASE StartBuild(c, s)
    <3>1. PICK n \in Names, p \in Specs :
             Changes(c, s, catalog[c][s] \cup {[name |-> n, spec |-> p, building |-> TRUE]})
      BY <2>3 DEF StartBuild
    <3>2. [name |-> n, spec |-> p, building |-> TRUE] \in Definitions
      BY DEF Definitions
    <3> QED
      BY <2>1, <3>1, <3>2
  <2>4. CASE FinishBuild(c, s)
    <3>1. PICK d \in catalog[c][s] :
             Changes(c, s, (catalog[c][s] \ {d}) \cup {[d EXCEPT !.building = FALSE]})
      BY <2>4 DEF FinishBuild
    <3>2. d \in Definitions
      BY <2>1, <3>1
    <3>3. [d EXCEPT !.building = FALSE] \in Definitions
      BY <3>2 DEF Definitions
    <3> QED
      BY <2>1, <3>1, <3>3
  <2>5. CASE Drop(c, s)
    BY <2>1, <2>5 DEF Drop
  <2>6. CASE MoveChunk(c, s)
    BY <2>1, <2>2, <2>6 DEF MoveChunk
  <2> QED
    BY <2>3, <2>4, <2>5, <2>6
<1>2. owners' \in [Collections -> SUBSET Shards]
  BY DEF StartBuild, FinishBuild, Drop, MoveChunk, ConsistencyInv, ClusterOK
<1>3. UNCHANGED <<kind, version, filtered, done, phase, routing, target, scope, audit, errors,
                  failed, reply>>
  BY <1>1 DEF Changes, fixed, discovered, outcome
<1>4. ClusterOK'
  <2>1. catalog' \in [Collections -> [Shards -> SUBSET Definitions]]
    BY <1>1 DEF Changes, ConsistencyInv, ClusterOK
  <2>2. changes \in 0 .. MaxChanges /\ changes < MaxChanges /\ changes' = changes + 1
    BY <1>1 DEF Changes, ConsistencyInv, ClusterOK
  <2>3. changes' \in 0 .. MaxChanges
    BY <2>2, ConsistencyAssumption
  <2>4. kind' \in [Collections -> Kinds]
    BY <1>3 DEF ConsistencyInv, ClusterOK
  <2> QED
    BY <1>2, <2>1, <2>3, <2>4 DEF ClusterOK
<1>5. ControlOK'
  BY <1>3 DEF ConsistencyInv, ControlOK, ScopesAsked, Asked, Running, Queued, Sharded, ByDatabase
<1> QED
  BY <1>3, <1>4, <1>5, RestKeeps

-----------------------------------------------------------------------------
(* The invariant, and the theorems. *)

LEMMA InitHolds == Init => ConsistencyInv
<1> SUFFICES ASSUME Init PROVE ConsistencyInv
  OBVIOUS
<1>1. /\ routing = [c \in Collections |-> NoRoute] /\ scope = [d \in Databases |-> NoScope]
      /\ audit = [c \in Collections |-> NewAudit] /\ phase = "routing" /\ reply = "none"
      /\ target = [err |-> "none", strategy |-> "none", shards |-> {}]
      /\ errors = FALSE /\ done = FALSE /\ failed = {}
  BY DEF Init
<1>2. /\ NoRoute \in [err : Outcomes, sharded : BOOLEAN, expected : SUBSET Shards]
      /\ NoRoute.err = Unread
      /\ DOMAIN NoScope = {"err", "issues"} /\ NoScope.err = Unread /\ NoScope.issues = {}
      /\ NewAudit.at = "queued"
  BY DEF NoRoute, NoScope, NewAudit, Outcomes
<1>3. ClusterOK
  <2>1. catalog \in [Collections -> [Shards -> SUBSET Definitions]]
    <3>1. catalog \in [Collections -> Catalogs] /\ Catalogs \subseteq [Shards -> SUBSET Definitions]
      BY ConsistencyAssumption DEF Init
    <3> QED
      BY <3>1
  <2>2. owners \in [Collections -> SUBSET Shards]
    <3>1. owners \in [Collections -> Ownings] /\ Ownings \subseteq SUBSET Shards
      BY ConsistencyAssumption DEF Init
    <3> QED
      BY <3>1
  <2>3. changes \in 0 .. MaxChanges
    <3>1. changes = 0 /\ MaxChanges \in Nat
      BY ConsistencyAssumption DEF Init
    <3> QED
      BY <3>1
  <2>4. kind \in [Collections -> Kinds]
    BY DEF Init
  <2> QED
    BY <2>1, <2>2, <2>3, <2>4 DEF ClusterOK
<1>4. Sharded = {}
  BY <1>1, <1>2 DEF Sharded, Unread
<1>5. DiscoveredOK
  BY <1>1, <1>2, <1>4 DEF DiscoveredOK, Outcomes, Strategies
<1>6. ControlOK
  BY <1>1, ConsistencyAssumption DEF Init, ControlOK, ScopesAsked, Phases
<1>7. AuditsOK
  BY <1>1, NewAuditOK DEF AuditsOK
<1>8. FailureOwed
  BY <1>1 DEF FailureOwed
<1> QED
  BY <1>3, <1>5, <1>6, <1>7, <1>8 DEF ConsistencyInv

LEMMA StepKeeps == ConsistencyInv /\ [Next]_vars => ConsistencyInv'
<1> SUFFICES ASSUME ConsistencyInv, [Next]_vars PROVE ConsistencyInv'
  OBVIOUS
<1>1. CASE Step
  BY <1>1, EndRoutingKeeps, TargetKeeps, CallerKeeps, ReadScopeKeeps, ReadRoutingKeeps,
     DispatchKeeps, AuditKeeps DEF Step
<1>2. CASE Cancel
  BY <1>2, CallerKeeps
<1>3. CASE \E c \in Collections, s \in Shards :
              StartBuild(c, s) \/ FinishBuild(c, s) \/ Drop(c, s) \/ MoveChunk(c, s)
  BY <1>3, ChangesKeep
<1>4. CASE UNCHANGED vars
  <2>1. UNCHANGED <<catalog, owners, changes, kind, version, filtered, done, phase, routing,
                    target, scope, audit, errors, failed, reply>>
    BY <1>4 DEF vars, cluster, fixed, discovered, outcome
  <2>2. ClusterOK' /\ ControlOK'
    BY <2>1 DEF ConsistencyInv, ClusterOK, ControlOK, ScopesAsked, Asked, Running, Queued,
                Sharded, ByDatabase
  <2> QED
    BY <2>1, <2>2, RestKeeps
<1> QED
  BY <1>1, <1>2, <1>3, <1>4 DEF Next

LEMMA InvAlways == Spec => []ConsistencyInv
BY InitHolds, StepKeeps, PTL DEF Spec

(* Every variable keeps its type, and a collection has a verdict exactly     *)
(* when its goroutine has ended, however the readings fail and the cluster   *)
(* changes meanwhile.                                                        *)
THEOREM ConsistencyTypeCorrect == Spec => []TypeOK
<1>1. ConsistencyInv => TypeOK
  <2> SUFFICES ASSUME ConsistencyInv PROVE TypeOK
    OBVIOUS
  <2>1. /\ catalog \in [Collections -> [Shards -> SUBSET Definitions]]
        /\ owners \in [Collections -> SUBSET Shards]
        /\ changes \in 0 .. MaxChanges
    BY DEF ConsistencyInv, ClusterOK
  <2>2. /\ done \in BOOLEAN /\ errors \in BOOLEAN /\ failed \subseteq Reasons
        /\ phase \in Phases /\ reply \in {"none", "ok", "partial", "error"}
        /\ target.strategy \in Strategies
    BY DEF ConsistencyInv, ControlOK, DiscoveredOK
  <2>3. \A c \in Collections : AuditType(audit[c])
    BY DEF ConsistencyInv, AuditsOK, AuditOK
  <2> QED
    BY <2>1, <2>2, <2>3
       DEF TypeOK, AuditType, Observation, Phases, Strategies, Places, Early, Late, States
<1> QED
  BY <1>1, InvAlways, PTL

(* auditIndexConsistencyCollection: "consistent" is never said of a          *)
(* collection one of whose expected shards was not observed, or with an      *)
(* index being built, or on the word of a check that was not made: not even  *)
(* when the audit is cancelled while the databases are asked.                *)
THEOREM EvidenceNeeded == Spec => []ConsistentNeedsEvidence
<1>1. ConsistencyInv => ConsistentNeedsEvidence
  BY DEF ConsistencyInv, AuditsOK, AuditOK, Evidence, ConsistentNeedsEvidence
<1> QED
  BY <1>1, InvAlways, PTL

(* collectLegacyIndexConsistency: a verdict reached by another strategy than *)
(* the version's says from which it came and why, no fallback is made when   *)
(* the time is over, and what the server said is not checked again.          *)
THEOREM FallbacksExplained == Spec => []FallbackExplained
<1>1. ConsistencyInv => FallbackExplained
  BY DEF ConsistencyInv, AuditsOK, AuditOK, FallbackOK, FallbackExplained, Done
<1> QED
  BY <1>1, InvAlways, PTL

(* consistencyCollectorErrors: an audit that returns no error, and that      *)
(* nobody cancels, has met nothing worse than a lack of privileges, whatever *)
(* reading failed of whatever collection, and has a verdict of every one.    *)
THEOREM FailuresTold == Spec => []FailuresReported
<1>1. ConsistencyInv => FailuresReported
  <2> SUFFICES ASSUME ConsistencyInv, reply = "ok", ~done,
                      \A c \in Sharded : Blocked(c) => WhyBlocked(c) # "none"
               PROVE  failed \subseteq {"unauthorized"} /\ \A c \in Collections : Done(c)
    BY DEF FailuresReported
  <2>1. phase = "returned" /\ ~errors /\ Running = {} /\ Queued = {}
    BY DEF ConsistencyInv, ControlOK
  <2>2. \A c \in Collections : audit[c].at = "done"
    BY <2>1 DEF Running, Queued
  <2>3. ~Stranded /\ \A c \in Collections : ~Owes(c, audit[c])
    BY <2>2 DEF Stranded, Owes
  <2> QED
    BY <2>1, <2>2, <2>3 DEF ConsistencyInv, FailureOwed, Done
<1> QED
  BY <1>1, InvAlways, PTL
====
