---------------------------- MODULE IndexAuditBatch ----------------------------
(***************************************************************************)
(* IndexAuditBatch (src/pkg/mot/index_audit_batch.go): an index audit of   *)
(* more collections than one call may scan, continued with the cursor the  *)
(* call before it returned.  Nothing is kept between two calls but the     *)
(* cursor, which the caller holds; every call lists the catalog afresh,    *)
(* one database after another, while collections come and go.              *)
(*                                                                         *)
(* A cursor binds the connection it was made under (its signature), the    *)
(* scope of the audit and the catalog (two hashes, taken here as the       *)
(* values they stand for) to a position in the sorted catalog.  A chain is *)
(* a cursor, or the end of an audit, with its history: what it has audited *)
(* so far and what has existed since it began.  The caller may use any     *)
(* cursor it was given, any number of times, or begin again.               *)
(***************************************************************************)
EXTENDS Naturals, Sequences, FiniteSets

CONSTANTS
    Refs,         \* collections as the catalog lists them: [ns, db, type]
    InOrder,      \* the sorted listing of a set of them
    Scopes,       \* what an audit is about: [dbs, names, consistency, general]
    Identities,   \* URI and authentication source of a client
    Asked,        \* values of MaxCollections, 0 where it is not given
    DefaultLimit, \* defaultMaxCollections
    MaxBatch,     \* maxIndexAuditBatchSize
    Deployments,  \* what topology detection may find: [sharded, modern]
    Initial,      \* bound: the catalogs to begin with
    MaxCalls,     \* bound: calls
    MaxChanges    \* bound: changes of the catalog

Catalogs == {S \in SUBSET Refs : \A p, q \in S : p.ns = q.ns => p = q}
Names == {r.ns : r \in Refs}

ASSUME BatchAssumption ==
    /\ \A p, q \in Refs : p.ns = q.ns => p.db = q.db  \* a name says its database
    /\ MaxBatch \in Nat /\ DefaultLimit \in 1..MaxBatch
    /\ MaxCalls \in Nat /\ MaxChanges \in Nat
    /\ Identities # {} /\ Scopes # {} /\ Asked \subseteq Nat /\ Initial \subseteq Catalogs
    /\ InOrder \in [SUBSET Refs -> Seq(Refs)]
    /\ \A S \in Catalogs : \A r \in Refs :
          r \in S <=> \E i \in 1..Len(InOrder[S]) : InOrder[S][i] = r
    /\ \A S \in Catalogs : \A i, j \in 1..Len(InOrder[S]) :
          InOrder[S][i].ns = InOrder[S][j].ns => i = j

VARIABLES
    catalog, \* the collections the server has
    call,    \* the call in progress, or the last one
    chains,  \* the cursors given out, and the audits completed
    answer,  \* what the last call returned
    calls, changes

vars == <<catalog, call, chains, answer, calls, changes>>

InScope(s, r) == r.db \in s.dbs /\ r.ns \in s.names

NewChain(id, s) ==
    [id |-> id, scope |-> s, refs |-> <<>>, processed |-> 0, index |-> 0,
     audits |-> [n \in Names |-> 0], stays |-> {r \in catalog : InScope(s, r)},
     quiet |-> TRUE, least |-> MaxBatch]

HasMore(c) == c.processed < Len(c.refs)

Asks(at, id, s, limit, raw, c) ==
    [at |-> at, id |-> id, scope |-> s, limit |-> limit, raw |-> raw, from |-> c,
     dbs |-> {}, found |-> {}, end |-> 0]

AnyOf(S) == CHOOSE x \in S : TRUE

Init ==
    /\ catalog \in Initial
    /\ call = Asks("idle", AnyOf(Identities), AnyOf(Scopes), MaxBatch, "none",
                   NewChain(AnyOf(Identities), AnyOf(Scopes)))
    /\ chains = {} /\ answer = "none"
    /\ calls = 0 /\ changes = 0

-----------------------------------------------------------------------------
(* One call.  Its context may end, and any of its reads may fail, wherever   *)
(* it is "failed": such a call returns no result and no cursor.              *)

Return(err) ==
    /\ call' = [call EXCEPT !.at = "idle", !.dbs = {}, !.found = {}, !.end = 0]
    /\ answer' = err

Limit(asked) == IF asked = 0 THEN DefaultLimit ELSE asked

(* No cursor, something that is no cursor, or one that was given out. *)
Begin ==
    /\ call.at = "idle" /\ calls < MaxCalls
    /\ \E id \in Identities, s \in Scopes, asked \in Asked,
          raw \in {"none", "garbage", "cursor"} :
       \E c \in IF raw = "cursor" THEN {h \in chains : HasMore(h)} ELSE {NewChain(id, s)} :
          /\ Limit(asked) <= MaxBatch
          /\ call' = Asks("topology", id, s, Limit(asked), raw, c)
    /\ answer' = "none"
    /\ calls' = calls + 1
    /\ UNCHANGED <<catalog, chains, changes>>

RefuseOptions ==
    /\ call.at = "idle" /\ answer # "options"
    /\ \E asked \in Asked : Limit(asked) > MaxBatch
    /\ answer' = "options"
    /\ UNCHANGED <<catalog, call, chains, calls, changes>>

(* An audit of consistency wants a mongos, a general one a server that has   *)
(* $indexStats; without it the answer is a status and an empty batch.        *)
DetectTopology ==
    /\ call.at = "topology"
    /\ \/ Return("failed")
       \/ \E d \in Deployments :
          \/ call.scope.consistency /\ ~d.sharded /\ Return("unsupported")
          \/ /\ call.scope.consistency => d.sharded
             /\ \/ call.scope.general /\ ~d.modern /\ Return("gated")
                \/ /\ call.scope.general => d.modern
                   /\ call' = [call EXCEPT !.at = "databases"]
                   /\ UNCHANGED answer
    /\ UNCHANGED <<catalog, chains, calls, changes>>

(* indexCollectionRefs: the databases, then the collections of each. *)
ListDatabases ==
    /\ call.at = "databases"
    /\ \/ Return("failed")
       \/ /\ call' = [call EXCEPT !.at = "collections",
                                  !.dbs = {r.db : r \in catalog} \cap call.scope.dbs]
          /\ UNCHANGED answer
    /\ UNCHANGED <<catalog, chains, calls, changes>>

ListCollections ==
    /\ call.at = "collections"
    /\ \E d \in call.dbs :
       \/ Return("failed")
       \/ /\ call' = [call EXCEPT
                        !.dbs = @ \ {d},
                        !.found = @ \cup {r \in catalog : r.db = d /\ InScope(call.scope, r)}]
          /\ UNCHANGED answer
    /\ UNCHANGED <<catalog, chains, calls, changes>>

(* nextIndexAuditBatch: as many whole databases as fit, or a part of the     *)
(* first one if it alone is too large; the position it ends at.              *)
Largest(S) == CHOOSE m \in S : \A n \in S : n <= m

WholeUpTo(refs, start, limit) ==
    {e \in (start + 1)..Len(refs) :
        /\ e = Len(refs) \/ refs[e].db # refs[e + 1].db
        /\ e - start <= limit}

FillUp(refs, start, limit) ==
    IF start + limit < Len(refs) THEN start + limit ELSE Len(refs)
PastTheEnd(refs, start, limit) == start + limit

NextEnd(refs, start, limit) ==
    LET whole == WholeUpTo(refs, start, limit) IN
    IF whole = {} THEN start + limit ELSE Largest(whole)

(* What indexAuditBatchStart asks of a cursor. *)
Decodes == call.raw = "cursor"
Signed == Decodes /\ call.from.id = call.id
SameScopeAndLimit == call.from.scope = call.scope /\ call.from.least = call.limit
SameScope == call.from.scope = call.scope
AnyCatalog(refs) == Len(refs) > call.from.processed
SameCatalog(refs) == call.from.refs = refs

Select ==
    LET refs == InOrder[call.found] IN
    /\ call.at = "collections" /\ call.dbs = {}
    /\ \/ /\ refs = <<>> \/ (call.raw # "none" /\ ~Signed)
          /\ Return("invalid")
       \/ /\ refs # <<>> /\ Signed
          /\ ~(SameScope /\ SameCatalog(refs))
          /\ Return("changed")
       \/ /\ refs # <<>>
          /\ call.raw = "none" \/ (Signed /\ SameScope /\ SameCatalog(refs))
          /\ call' = [call EXCEPT !.at = "audit",
                        !.end = NextEnd(refs, call.from.processed, call.limit)]
          /\ UNCHANGED answer
    /\ UNCHANGED <<catalog, chains, calls, changes>>

(* collectIndexAuditRefs over the batch: complete, partial, or nothing.  The *)
(* metadata and the cursor of the next batch go with what it returns.        *)
Batch == {InOrder[call.found][i].ns : i \in (call.from.processed + 1)..call.end}

Longer ==
    [call.from EXCEPT !.refs = InOrder[call.found], !.processed = call.end,
        !.index = @ + 1, !.least = IF call.limit < @ THEN call.limit ELSE @,
        !.audits = [n \in Names |-> @[n] + (IF n \in Batch THEN 1 ELSE 0)]]

Audit ==
    /\ call.at = "audit"
    /\ \/ Return("failed") /\ UNCHANGED chains
       \/ \E a \in {"complete", "partial"} : Return(a) /\ chains' = chains \cup {Longer}
    /\ UNCHANGED <<catalog, calls, changes>>

-----------------------------------------------------------------------------
(* The server: a collection comes or goes. *)

Noticed(c, r, S) ==
    [c EXCEPT !.stays = @ \cap S, !.quiet = @ /\ ~InScope(c.scope, r)]

Change(r, S) ==
    /\ changes < MaxChanges
    /\ changes' = changes + 1
    /\ catalog' = S
    /\ chains' = {Noticed(c, r, S) : c \in chains}
    /\ call' = [call EXCEPT !.from = Noticed(@, r, S)]
    /\ UNCHANGED <<answer, calls>>

Create(r) == catalog \cup {r} \in Catalogs /\ r \notin catalog /\ Change(r, catalog \cup {r})
Drop(r) == r \in catalog /\ Change(r, catalog \ {r})

Next ==
    \/ Begin \/ RefuseOptions
    \/ DetectTopology \/ ListDatabases \/ ListCollections \/ Select \/ Audit
    \/ \E r \in Refs : Create(r) \/ Drop(r)
    \/ call.at = "idle" /\ calls = MaxCalls /\ UNCHANGED vars

Spec == Init /\ [][Next]_vars

-----------------------------------------------------------------------------
(* Properties *)

Chains ==
    [id : Identities, scope : Scopes, refs : Seq(Refs), processed : Nat, index : Nat,
     audits : [Names -> Nat], stays : SUBSET Refs, quiet : BOOLEAN, least : 1..MaxBatch]

TypeOK ==
    /\ catalog \in Catalogs
    /\ call.at \in {"idle", "topology", "databases", "collections", "audit"}
    /\ call.raw \in {"none", "garbage", "cursor"}
    /\ call.id \in Identities /\ call.scope \in Scopes /\ call.limit \in 1..MaxBatch
    /\ call.dbs \subseteq {r.db : r \in Refs} /\ call.found \in Catalogs /\ call.end \in Nat
    /\ call.at = "audit" =>
          call.end \in (call.from.processed + 1)..Len(InOrder[call.found])
    /\ call.from \in Chains
    /\ chains \subseteq Chains
    /\ \A c \in chains : c.processed \in 1..Len(c.refs) /\ c.index <= c.processed
    /\ answer \in {"none", "options", "failed", "unsupported", "gated", "invalid", "changed",
                   "complete", "partial"}
    /\ calls \in 0..MaxCalls /\ changes \in 0..MaxChanges

(* "No repetition" (diagnostics/goals/04-index-and-capacity-audit.md:221):   *)
(* however often a cursor is used, with whatever limit, and whatever is      *)
(* created, dropped or created again between two batches or between two      *)
(* reads of one listing, no chain of batches audits a collection twice.      *)
AuditedOnce == \A c \in chains, n \in Names : c.audits[n] <= 1

(* "No omission" (04-index-and-capacity-audit.md:221; changeLog.md:10, "never *)
(* silently skips a collection"): an audit that says that nothing remains     *)
(* has audited every collection of its scope that existed all along.          *)
NothingOmitted ==
    \A c \in chains : ~HasMore(c) => \A r \in c.stays : c.audits[r.ns] = 1

(* "A whole database goes into one batch, unless it alone exceeds the limit" *)
(* (04-index-and-capacity-audit.md:68): a cursor points into the middle of a *)
(* database only if that database has more collections than the smallest     *)
(* limit of the chain.                                                       *)
WholeDatabases ==
    \A c \in chains :
        HasMore(c) /\ c.refs[c.processed].db = c.refs[c.processed + 1].db =>
            Cardinality({i \in 1..Len(c.refs) : c.refs[i].db = c.refs[c.processed].db}) > c.least

(* A cursor remains good while nothing in its scope changes, whatever the    *)
(* limit of the next call is ("MaxCollections and Concurrency are not in the *)
(* fingerprint", 04-index-and-capacity-audit.md:70).                         *)
NoSpuriousRefusal ==
    call.at = "idle" /\ call.raw = "cursor" /\ call.from.quiet
        /\ call.from.id = call.id /\ call.from.scope = call.scope
        => answer \notin {"invalid", "changed"}
=============================================================================
