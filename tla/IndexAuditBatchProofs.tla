------------------------- MODULE IndexAuditBatchProofs -------------------------
(***************************************************************************)
(* Proofs about IndexAuditBatch, for any catalog, any number of calls and  *)
(* changes, any limits, scopes and identities.                             *)
(***************************************************************************)
EXTENDS IndexAuditBatch, FiniteSetTheorems, WellFoundedInduction, TLAPS

(***************************************************************************)
(* The inductive invariant: what is true of a cursor from the moment it is *)
(* given out (Grown), and of the call that is making the next one.         *)
(***************************************************************************)
CallType ==
    [at : {"idle", "topology", "databases", "collections", "audit"}, id : Identities,
     scope : Scopes, limit : 1..MaxBatch, raw : {"none", "garbage", "cursor"},
     from : Chains, dbs : SUBSET {r.db : r \in Refs}, found : SUBSET Refs, end : Nat]

Typed ==
    /\ catalog \in Catalogs
    /\ call \in CallType
    /\ chains \subseteq Chains
    /\ answer \in {"none", "options", "failed", "unsupported", "gated", "invalid", "changed",
                   "complete", "partial"}
    /\ calls \in 0..MaxCalls /\ changes \in 0..MaxChanges

(* The part of a catalog an audit is about. *)
Within(s) == {r \in catalog : InScope(s, r)}

Distinct(refs) == \A i, j \in 1..Len(refs) : refs[i].ns = refs[j].ns => i = j

(* A chain counts an audit for every name it has passed. *)
Passed(c, n) == \E i \in 1..c.processed : c.refs[i].ns = n

ChainOK(c) ==
    /\ Distinct(c.refs)
    /\ c.processed \in 0..Len(c.refs) /\ c.index <= c.processed
    /\ \A n \in Names : c.audits[n] = IF Passed(c, n) THEN 1 ELSE 0
    /\ c.stays \subseteq Within(c.scope)

(* Position e ends a database, or is inside one that exceeds the limit. *)
GoodCut(refs, e, limit) ==
    e < Len(refs) /\ refs[e].db = refs[e + 1].db =>
        Cardinality({i \in 1..Len(refs) : refs[i].db = refs[e].db}) > limit

Grown(c) ==
    /\ ChainOK(c)
    /\ c.processed # 0
    /\ \A r \in c.stays : \E i \in 1..Len(c.refs) : c.refs[i] = r
    /\ c.quiet => c.refs = InOrder[Within(c.scope)]
    /\ GoodCut(c.refs, c.processed, c.least)

(* The call's own chain is new, or a cursor that has more. *)
FromOK ==
    /\ ChainOK(call.from)
    /\ call.raw = "cursor" => Grown(call.from) /\ HasMore(call.from)
    /\ call.raw # "cursor" =>
          /\ call.from.processed = 0
          /\ call.from.scope = call.scope

(* What has been listed, of the databases that are not left. *)
ListingOK ==
    /\ call.found \in Catalogs
    /\ \A r \in call.found : r.db \notin call.dbs
    /\ call.at \notin {"collections", "audit"} => call.found = {}
    /\ call.at \in {"collections", "audit"} /\ call.from.scope = call.scope =>
          /\ \A r \in call.from.stays : r.db \in call.dbs \/ r \in call.found
          /\ call.from.quiet =>
                call.found = {r \in Within(call.scope) : r.db \notin call.dbs}

(* A batch is cut from the catalog its cursor was about. *)
BatchOK ==
    call.at = "audit" =>
        /\ call.dbs = {} /\ call.from.scope = call.scope
        /\ call.raw = "none" \/ (call.raw = "cursor" /\ call.from.refs = InOrder[call.found])
        /\ call.end \in (call.from.processed + 1)..Len(InOrder[call.found])
        /\ GoodCut(InOrder[call.found], call.end, call.limit)

BatchInv ==
    /\ Typed
    /\ \A c \in chains : Grown(c)
    /\ FromOK /\ ListingOK /\ BatchOK
    /\ NoSpuriousRefusal

-----------------------------------------------------------------------------
(* Numbers: a set of positions has a first and a last. *)

LEMMA First ==
  ASSUME NEW S \in SUBSET Nat, S # {}
  PROVE  \E m \in S : \A n \in S : m <= n
<1>1. PICK m \in S : \A n \in S : ~ (<<n, m>> \in OpToRel(<, Nat))
  BY NatLessThanWellFounded, WFMin
<1>2. \A n \in S : m <= n
  <2> SUFFICES ASSUME NEW n \in S PROVE m <= n
    OBVIOUS
  <2>1. n \in Nat /\ m \in Nat
    OBVIOUS
  <2>2. ~(n < m)
    BY <1>1, <2>1 DEF OpToRel
  <2> QED
    BY <2>1, <2>2
<1> QED
  BY <1>2

LEMMA LargestIsLast ==
  ASSUME NEW b \in Nat, NEW S \in SUBSET (0..b), S # {}
  PROVE  Largest(S) \in S /\ \A n \in S : n <= Largest(S)
<1> DEFINE T == {b - n : n \in S}
<1>0. \A n \in S : n \in Nat /\ b - n \in Nat
  OBVIOUS
<1>1. T \in SUBSET Nat /\ T # {}
  BY <1>0
<1> HIDE DEF T
<1>2. PICK m \in T : \A n \in T : m <= n
  BY <1>1, First
<1>3. b - m \in S /\ \A n \in S : n <= b - m
  BY <1>0, <1>1, <1>2 DEF T
<1>4. \E l \in S : \A n \in S : n <= l
  BY <1>3
<1> QED
  BY <1>4, Zenon DEF Largest

-----------------------------------------------------------------------------
(* nextIndexAuditBatch *)

(* A batch is not empty, does not pass the end, and ends at a good cut: what *)
(* is cut in two exceeds the limit (index_audit_batch.go:246).               *)
LEMMA Packing ==
  ASSUME NEW T, NEW refs \in Seq(T), NEW start \in Nat, start < Len(refs),
         NEW limit \in Nat \ {0}
  PROVE  /\ NextEnd(refs, start, limit) \in (start + 1)..Len(refs)
         /\ GoodCut(refs, NextEnd(refs, start, limit), limit)
<1> DEFINE whole == WholeUpTo(refs, start, limit)
           e == NextEnd(refs, start, limit)
           n == Len(refs)
<1>0. n \in Nat
  OBVIOUS
<1>1. CASE whole # {}
  <2>1. whole \in SUBSET (0..n)
    BY <1>0 DEF WholeUpTo
  <2>2. e \in whole
    BY <1>0, <1>1, <2>1, LargestIsLast DEF NextEnd
  <2> QED
    BY <1>0, <2>2 DEF WholeUpTo, GoodCut
<1>2. CASE whole = {}
  <2>1. n - start > limit
    <3>1. n \in (start + 1)..n /\ n \notin whole
      BY <1>0, <1>2
    <3> QED
      BY <1>0, <3>1 DEF WholeUpTo
  <2>2. e = start + limit /\ e \in (start + 1)..n
    BY <1>0, <1>2, <2>1 DEF NextEnd
  <2>3. \A i \in (start + 1)..e : refs[i].db = refs[i + 1].db
    <3>1. ASSUME NEW i \in (start + 1)..e PROVE refs[i].db = refs[i + 1].db
      <4>1. i \in (start + 1)..n /\ i - start <= limit /\ i \notin whole
        BY <1>0, <1>2, <2>2
      <4> QED
        BY <4>1 DEF WholeUpTo
    <3> QED
      BY <3>1
  <2> DEFINE other == {i \in (start + 1)..(e + 1) : refs[i].db # refs[start + 1].db}
  <2>4. other = {}
    <3> SUFFICES ASSUME other # {} PROVE FALSE
      OBVIOUS
    <3>1. other \in SUBSET Nat
      OBVIOUS
    <3>2. PICK m \in other : \A k \in other : m <= k
      BY <3>1, First
    <3>3. m \in (start + 1)..(e + 1) /\ refs[m].db # refs[start + 1].db
      OBVIOUS
    <3>4. m - 1 \in (start + 1)..e
      BY <2>2, <3>3
    <3>5. m - 1 \notin other
      BY <3>2, <3>4
    <3>6. refs[m - 1].db = refs[m].db
      BY <2>3, <3>4
    <3> QED
      BY <2>2, <3>3, <3>4, <3>5, <3>6
  <2> DEFINE same == {i \in 1..n : refs[i].db = refs[e].db}
             run == (start + 1)..(e + 1)
  <2>5. run \subseteq same
    <3>1. e + 1 <= n
      BY <2>1, <2>2
    <3>2. ASSUME NEW i \in run PROVE i \in 1..n /\ refs[i].db = refs[e].db
      <4>1. i \notin other /\ e \notin other /\ e \in run
        BY <2>2, <2>4
      <4> QED
        BY <1>0, <3>1, <3>2, <4>1
    <3> QED
      BY <3>2
  <2>6. Cardinality(run) = limit + 1 /\ IsFiniteSet(same)
    <3>1. Cardinality(run) = (e + 1) - (start + 1) + 1
      BY <2>2, FS_Interval
    <3>2. IsFiniteSet(1..n) /\ same \in SUBSET (1..n)
      BY <1>0, FS_Interval
    <3>3. IsFiniteSet(same)
      BY <3>2, FS_Subset
    <3> QED
      BY <2>2, <3>1, <3>3
  <2>7. Cardinality(same) > limit
    <3>1. Cardinality(run) <= Cardinality(same)
      BY <2>5, <2>6, FS_Subset
    <3>2. Cardinality(same) \in Nat
      BY <2>6, FS_CardinalityType
    <3> QED
      BY <2>6, <3>1, <3>2
  <2> QED
    BY <2>2, <2>7 DEF GoodCut
<1> QED
  BY <1>1, <1>2

-----------------------------------------------------------------------------
(* Catalogs and chains. *)

LEMMA CatalogFacts ==
  /\ \A S \in Catalogs : S \subseteq Refs /\ InOrder[S] \in Seq(Refs)
  /\ \A S \in Catalogs : Distinct(InOrder[S])
  /\ \A S \in Catalogs, r \in Refs :
        r \in S <=> \E i \in 1..Len(InOrder[S]) : InOrder[S][i] = r
  /\ \A S \in Catalogs : \A T \in SUBSET S : T \in Catalogs
  /\ {} \in Catalogs
<1>1. \A S \in Catalogs : S \in SUBSET Refs
  BY DEF Catalogs
<1>2. \A S \in SUBSET Refs : InOrder[S] \in Seq(Refs)
  BY BatchAssumption
<1>3. \A S \in Catalogs : \A T \in SUBSET S : T \in Catalogs
  BY DEF Catalogs
<1>4. {} \in Catalogs
  BY DEF Catalogs
<1> QED
  BY <1>1, <1>2, <1>3, <1>4, BatchAssumption DEF Distinct

LEMMA NewChainOK ==
  ASSUME catalog \in Catalogs, NEW id \in Identities, NEW s \in Scopes
  PROVE  /\ NewChain(id, s) \in Chains
         /\ ChainOK(NewChain(id, s))
         /\ NewChain(id, s).processed = 0 /\ NewChain(id, s).scope = s
<1>1. catalog \subseteq Refs /\ MaxBatch \in 1..MaxBatch
  BY CatalogFacts, BatchAssumption
<1>2. <<>> \in Seq(Refs) /\ Len(<<>>) = 0
  OBVIOUS
<1>3. NewChain(id, s) \in Chains
  BY <1>1, <1>2 DEF NewChain, Chains
<1>4. ChainOK(NewChain(id, s))
  BY <1>2 DEF NewChain, ChainOK, Distinct, Passed, Within
<1> QED
  BY <1>3, <1>4 DEF NewChain

(* A change of the catalog touches what stays, and the calm, of a chain. *)
LEMMA NoticedFields ==
  ASSUME NEW c \in Chains, NEW r \in Refs, NEW S
  PROVE  /\ Noticed(c, r, S) \in Chains
         /\ Noticed(c, r, S).id = c.id /\ Noticed(c, r, S).scope = c.scope
         /\ Noticed(c, r, S).refs = c.refs /\ Noticed(c, r, S).processed = c.processed
         /\ Noticed(c, r, S).index = c.index /\ Noticed(c, r, S).audits = c.audits
         /\ Noticed(c, r, S).least = c.least
         /\ Noticed(c, r, S).stays = c.stays \cap S
         /\ Noticed(c, r, S).quiet = (c.quiet /\ ~InScope(c.scope, r))
<1>1. c.stays \cap S \in SUBSET Refs /\ (c.quiet /\ ~InScope(c.scope, r)) \in BOOLEAN
  BY DEF Chains
<1> QED
  BY <1>1 DEF Noticed, Chains

(* A good chain remains good when the catalog changes. *)
LEMMA NoticedOK ==
  ASSUME NEW c \in Chains, NEW r \in Refs, NEW S, ChainOK(c), catalog' = S,
         catalog \ {r} \subseteq S, S \subseteq catalog \cup {r}
  PROVE  /\ ChainOK(Noticed(c, r, S))'
         /\ Grown(c) => Grown(Noticed(c, r, S))'
<1> DEFINE d == Noticed(c, r, S)
<1>1. /\ d.refs = c.refs /\ d.processed = c.processed /\ d.index = c.index
      /\ d.audits = c.audits /\ d.scope = c.scope /\ d.least = c.least
      /\ d.stays = c.stays \cap S /\ d.quiet = (c.quiet /\ ~InScope(c.scope, r))
  BY NoticedFields
<1> HIDE DEF d
<1>2. ChainOK(d)'
  BY <1>1 DEF ChainOK, Within, Passed
<1>3. ~InScope(c.scope, r) => Within(c.scope)' = Within(c.scope)
  BY DEF Within
<1>4. Grown(c) => Grown(d)'
  BY <1>1, <1>2, <1>3 DEF Grown
<1> QED
  BY <1>2, <1>4 DEF d

-----------------------------------------------------------------------------
(* One lemma per step. *)

(* A step of a call that leaves the catalog, the cursors and its own alone. *)
LEMMA CalmChains ==
  ASSUME BatchInv, UNCHANGED <<catalog, chains>>, call'.from = call.from,
         call'.raw = call.raw, call'.scope = call.scope
  PROVE  (\A c \in chains : Grown(c))' /\ FromOK'
<1>1. \A c : ChainOK(c)' <=> ChainOK(c)
  BY DEF ChainOK, Within
<1>2. \A c : Grown(c)' <=> Grown(c)
  BY <1>1 DEF Grown, Within
<1>3. (\A c \in chains : Grown(c))'
  BY <1>2 DEF BatchInv
<1>4. FromOK'
  BY <1>1, <1>2 DEF BatchInv, FromOK
<1> QED
  BY <1>3, <1>4

(* What a returning call leaves: nothing listed, the cursor it was given. *)
LEMMA Returned ==
  ASSUME BatchInv, NEW e \in {"options", "failed", "unsupported", "gated", "invalid",
                              "changed", "complete", "partial"},
         Return(e), UNCHANGED <<catalog, calls, changes>>,
         chains' \subseteq Chains, \A c \in chains' : Grown(c),
         e \in {"invalid", "changed"} =>
            ~(/\ call.raw = "cursor" /\ call.from.quiet
              /\ call.from.id = call.id /\ call.from.scope = call.scope)
  PROVE  BatchInv'
<1>1. /\ call'.at = "idle" /\ call'.raw = call.raw /\ call'.from = call.from
      /\ call'.scope = call.scope /\ call'.id = call.id /\ call'.found = {}
      /\ call'.dbs = {} /\ answer' = e /\ call' \in CallType
  BY DEF BatchInv, Typed, CallType, Return
<1>2. Typed'
  BY <1>1 DEF BatchInv, Typed
<1>3. (\A c \in chains : Grown(c))'
  BY DEF BatchInv, Grown, ChainOK, Within
<1>4. FromOK'
  BY <1>1 DEF BatchInv, FromOK, Grown, ChainOK, Within
<1>5. ListingOK'
  BY <1>1, CatalogFacts DEF ListingOK
<1>6. BatchOK'
  BY <1>1 DEF BatchOK
<1>7. NoSpuriousRefusal'
  BY <1>1 DEF NoSpuriousRefusal
<1> QED
  BY <1>2, <1>3, <1>4, <1>5, <1>6, <1>7 DEF BatchInv

LEMMA BeginKept ==
  ASSUME BatchInv, Begin
  PROVE  BatchInv'
<1>0. PICK id \in Identities, s \in Scopes, asked \in Asked,
           raw \in {"none", "garbage", "cursor"} :
         \E c \in IF raw = "cursor" THEN {h \in chains : HasMore(h)} ELSE {NewChain(id, s)} :
            /\ Limit(asked) <= MaxBatch
            /\ call' = Asks("topology", id, s, Limit(asked), raw, c)
  BY DEF Begin
<1>1. PICK c \in IF raw = "cursor" THEN {h \in chains : HasMore(h)} ELSE {NewChain(id, s)} :
            /\ Limit(asked) <= MaxBatch
            /\ call' = Asks("topology", id, s, Limit(asked), raw, c)
  BY <1>0
<1>2. answer' = "none" /\ calls' = calls + 1 /\ calls < MaxCalls
      /\ UNCHANGED <<catalog, chains, changes>>
  BY DEF Begin
<1>3. Limit(asked) \in 1..MaxBatch
  BY <1>1, BatchAssumption DEF Limit
<1>4. catalog \in Catalogs /\ NewChain(id, s) \in Chains
      /\ ChainOK(NewChain(id, s)) /\ NewChain(id, s).processed = 0
      /\ NewChain(id, s).scope = s
  BY NewChainOK DEF BatchInv, Typed
<1>5. /\ c \in Chains /\ ChainOK(c)
      /\ raw = "cursor" => Grown(c) /\ HasMore(c)
      /\ raw # "cursor" => c.processed = 0 /\ c.scope = s
  BY <1>1, <1>4 DEF BatchInv, Typed, Grown
<1>6. /\ call'.at = "topology" /\ call'.raw = raw /\ call'.from = c /\ call'.scope = s
      /\ call'.found = {} /\ call'.dbs = {} /\ call' \in CallType
  BY <1>1, <1>3, <1>5 DEF Asks, CallType
<1>7. Typed'
  <2>1. calls \in Nat /\ calls + 1 \in 0..MaxCalls
    BY <1>2, BatchAssumption DEF BatchInv, Typed
  <2> QED
    BY <1>2, <1>6, <2>1 DEF BatchInv, Typed
<1>8. (\A h \in chains : Grown(h))'
  BY <1>2 DEF BatchInv, Grown, ChainOK, Within
<1>9. FromOK'
  BY <1>2, <1>5, <1>6 DEF FromOK, Grown, ChainOK, Within
<1>10. ListingOK' /\ BatchOK' /\ NoSpuriousRefusal'
  BY <1>6, CatalogFacts DEF ListingOK, BatchOK, NoSpuriousRefusal
<1> QED
  BY <1>7, <1>8, <1>9, <1>10 DEF BatchInv

LEMMA RefuseOptionsKept ==
  ASSUME BatchInv, RefuseOptions
  PROVE  BatchInv'
<1>1. answer' = "options" /\ UNCHANGED <<catalog, call, chains, calls, changes>>
  BY DEF RefuseOptions
<1>2. Typed'
  BY <1>1 DEF BatchInv, Typed
<1>3. (\A c \in chains : Grown(c))' /\ FromOK'
  BY <1>1, CalmChains
<1>4. ListingOK' /\ BatchOK' /\ NoSpuriousRefusal'
  BY <1>1 DEF BatchInv, ListingOK, BatchOK, NoSpuriousRefusal, Within
<1> QED
  BY <1>2, <1>3, <1>4 DEF BatchInv

LEMMA DetectTopologyKept ==
  ASSUME BatchInv, DetectTopology
  PROVE  BatchInv'
<1>0. call.at = "topology" /\ UNCHANGED <<catalog, chains, calls, changes>>
  BY DEF DetectTopology
<1>1. ASSUME NEW e \in {"failed", "unsupported", "gated"}, Return(e) PROVE BatchInv'
  BY <1>0, <1>1, Returned DEF BatchInv, Typed
<1>2. CASE call' = [call EXCEPT !.at = "databases"] /\ UNCHANGED answer
  <2>1. /\ call'.at = "databases" /\ call'.raw = call.raw /\ call'.from = call.from
        /\ call'.scope = call.scope /\ call'.found = call.found /\ call'.dbs = call.dbs
        /\ call' \in CallType
    BY <1>2 DEF BatchInv, Typed, CallType
  <2>2. Typed'
    BY <1>0, <1>2, <2>1 DEF BatchInv, Typed
  <2>3. (\A c \in chains : Grown(c))' /\ FromOK'
    BY <1>0, <2>1, CalmChains
  <2>4. ListingOK' /\ BatchOK' /\ NoSpuriousRefusal'
    BY <1>0, <2>1 DEF BatchInv, ListingOK, BatchOK, NoSpuriousRefusal
  <2> QED
    BY <2>2, <2>3, <2>4 DEF BatchInv
<1> QED
  BY <1>1, <1>2 DEF DetectTopology

(* Every database of a collection that stays is still to be listed. *)
LEMMA ListDatabasesKept ==
  ASSUME BatchInv, ListDatabases
  PROVE  BatchInv'
<1>0. call.at = "databases" /\ UNCHANGED <<catalog, chains, calls, changes>>
  BY DEF ListDatabases
<1>1. CASE Return("failed")
  BY <1>0, <1>1, Returned DEF BatchInv, Typed
<1>2. CASE /\ call' = [call EXCEPT !.at = "collections",
                                   !.dbs = {r.db : r \in catalog} \cap call.scope.dbs]
           /\ UNCHANGED answer
  <2> DEFINE dbs == {r.db : r \in catalog} \cap call.scope.dbs
  <2>1. dbs \in SUBSET {r.db : r \in Refs}
    BY CatalogFacts DEF BatchInv, Typed
  <2>2. \A r \in Within(call.scope) : r.db \in dbs
    BY DEF Within, InScope
  <2> HIDE DEF dbs
  <2>3. call' = [call EXCEPT !.at = "collections", !.dbs = dbs]
    BY <1>2 DEF dbs
  <2>4. /\ call'.at = "collections" /\ call'.raw = call.raw /\ call'.from = call.from
        /\ call'.scope = call.scope /\ call'.found = {} /\ call'.dbs = dbs
        /\ call' \in CallType
    BY <1>0, <2>1, <2>3 DEF BatchInv, Typed, CallType, ListingOK
  <2>5. Typed'
    BY <1>0, <1>2, <2>4 DEF BatchInv, Typed
  <2>6. (\A c \in chains : Grown(c))' /\ FromOK'
    BY <1>0, <2>4, CalmChains
  <2>7. call.from.scope = call.scope => call.from.stays \subseteq Within(call.scope)
    BY DEF BatchInv, FromOK, ChainOK
  <2>8. ListingOK'
    BY <1>0, <2>2, <2>4, <2>7, CatalogFacts DEF ListingOK, Within
  <2>9. BatchOK' /\ NoSpuriousRefusal'
    BY <2>4 DEF BatchOK, NoSpuriousRefusal
  <2> QED
    BY <2>5, <2>6, <2>8, <2>9 DEF BatchInv
<1> QED
  BY <1>1, <1>2 DEF ListDatabases

(* A listing is a catalog although its parts are of different moments. *)
LEMMA ListCollectionsKept ==
  ASSUME BatchInv, ListCollections
  PROVE  BatchInv'
<1>0. call.at = "collections" /\ UNCHANGED <<catalog, chains, calls, changes>>
  BY DEF ListCollections
<1>1. CASE Return("failed")
  BY <1>0, <1>1, Returned DEF BatchInv, Typed
<1>2. ASSUME NEW d \in call.dbs, UNCHANGED answer,
             call' = [call EXCEPT
                        !.dbs = @ \ {d},
                        !.found = @ \cup {r \in catalog : r.db = d /\ InScope(call.scope, r)}]
      PROVE  BatchInv'
  <2> DEFINE part == {r \in Within(call.scope) : r.db = d}
  <2>1. part \in SUBSET catalog /\ catalog \in Catalogs /\ call.found \in Catalogs
    BY DEF BatchInv, Typed, ListingOK, Within
  <2>2. \A r \in call.found : r.db # d /\ r.db \notin call.dbs
    BY DEF BatchInv, ListingOK
  <2>3. call.found \cup part \in Catalogs
    <3>1. call.found \subseteq Refs /\ part \subseteq Refs
      BY <2>1, CatalogFacts
    <3>2. \A p, q \in call.found \cup part : p.ns = q.ns => p = q
      <4> SUFFICES ASSUME NEW p \in call.found \cup part, NEW q \in call.found \cup part,
                          p.ns = q.ns
                   PROVE  p = q
        OBVIOUS
      <4>1. p.db = q.db
        BY <3>1, BatchAssumption
      <4> QED
        BY <2>1, <2>2, <4>1 DEF Catalogs
    <3> QED
      BY <3>1, <3>2 DEF Catalogs
  <2>4. /\ call'.at = "collections" /\ call'.raw = call.raw /\ call'.from = call.from
        /\ call'.scope = call.scope /\ call'.dbs = call.dbs \ {d}
        /\ call'.found = call.found \cup part /\ call' \in CallType
    <3>1. call.found \cup {r \in catalog : r.db = d /\ InScope(call.scope, r)}
            = call.found \cup part
      BY DEF Within
    <3>2. call.found \cup part \in SUBSET Refs
      BY <2>3, CatalogFacts
    <3> QED
      BY <1>0, <1>2, <3>1, <3>2 DEF BatchInv, Typed, CallType
  <2> HIDE DEF part
  <2>5. Typed'
    BY <1>0, <1>2, <2>4 DEF BatchInv, Typed
  <2>6. (\A c \in chains : Grown(c))' /\ FromOK'
    BY <1>0, <2>4, CalmChains
  <2>7. call.from.scope = call.scope => call.from.stays \subseteq Within(call.scope)
    BY DEF BatchInv, FromOK, ChainOK
  <2>8. ListingOK'
    BY <1>0, <2>2, <2>3, <2>4, <2>7 DEF BatchInv, ListingOK, Within, part
  <2>9. BatchOK' /\ NoSpuriousRefusal'
    BY <1>0, <2>4 DEF BatchOK, NoSpuriousRefusal
  <2> QED
    BY <2>5, <2>6, <2>8, <2>9 DEF BatchInv
<1> QED
  BY <1>1, <1>2 DEF ListCollections

(* The cursor fits the listing, or is refused; while nothing in its scope    *)
(* changed the listing is the one it was made from.                          *)
LEMMA SelectKept ==
  ASSUME BatchInv, Select
  PROVE  BatchInv'
<1> DEFINE refs == InOrder[call.found]
<1>0. /\ call.at = "collections" /\ call.dbs = {}
      /\ UNCHANGED <<catalog, chains, calls, changes>>
  BY DEF Select
<1>1. /\ call.found \in Catalogs /\ refs \in Seq(Refs) /\ Distinct(refs)
      /\ call.raw \in {"none", "garbage", "cursor"} /\ call.limit \in Nat \ {0}
  BY CatalogFacts, BatchAssumption DEF BatchInv, ListingOK, Typed, CallType
<1>2. call.raw = "cursor" /\ call.from.quiet /\ call.from.scope = call.scope =>
         call.from.refs = refs /\ refs # <<>>
  <2> SUFFICES ASSUME call.raw = "cursor", call.from.quiet, call.from.scope = call.scope
               PROVE  call.from.refs = refs /\ refs # <<>>
    OBVIOUS
  <2>1. call.found = Within(call.scope)
    BY <1>0 DEF BatchInv, ListingOK
  <2>2. call.from.refs = InOrder[Within(call.scope)]
    BY DEF BatchInv, FromOK, Grown
  <2>3. call.from.processed < Len(call.from.refs) /\ call.from.processed \in Nat
    BY DEF BatchInv, FromOK, HasMore, ChainOK
  <2>4. Len(<<>>) = 0
    OBVIOUS
  <2> QED
    BY <2>1, <2>2, <2>3, <2>4
<1>3. CASE Return("invalid") /\ (refs = <<>> \/ (call.raw # "none" /\ ~Signed))
  BY <1>0, <1>2, <1>3, Returned DEF BatchInv, Typed, Signed, Decodes
<1>4. CASE Return("changed") /\ Signed /\ ~(SameScope /\ SameCatalog(refs))
  BY <1>0, <1>2, <1>4, Returned DEF BatchInv, Typed, Signed, SameScope, SameCatalog
<1>5. CASE /\ refs # <<>> /\ UNCHANGED answer
           /\ call.raw = "none" \/ (Signed /\ SameScope /\ SameCatalog(refs))
           /\ call' = [call EXCEPT !.at = "audit",
                         !.end = NextEnd(refs, call.from.processed, call.limit)]
  <2> DEFINE end == NextEnd(refs, call.from.processed, call.limit)
  <2>1. call.from.scope = call.scope
    BY <1>5 DEF BatchInv, FromOK, SameScope
  <2>2. call.raw = "none" \/ (call.raw = "cursor" /\ call.from.refs = refs)
    BY <1>5 DEF Signed, Decodes, SameCatalog
  <2>3. call.from.processed \in Nat /\ call.from.processed < Len(refs)
    <3>1. CASE call.raw = "none"
      <4>1. call.from.processed = 0
        BY <3>1 DEF BatchInv, FromOK
      <4>2. Len(refs) # 0 /\ Len(refs) \in Nat
        BY <1>1, <1>5
      <4> QED
        BY <4>1, <4>2
    <3>2. CASE call.raw = "cursor" /\ call.from.refs = refs
      BY <3>2 DEF BatchInv, FromOK, HasMore, ChainOK
    <3> QED
      BY <2>2, <3>1, <3>2
  <2>4. end \in (call.from.processed + 1)..Len(refs) /\ GoodCut(refs, end, call.limit)
    BY <1>1, <2>3, Packing
  <2>5. end \in Nat
    BY <1>1, <2>3, <2>4
  <2> HIDE DEF end
  <2>6. call' = [call EXCEPT !.at = "audit", !.end = end]
    BY <1>5 DEF end
  <2>7. /\ call'.at = "audit" /\ call'.raw = call.raw /\ call'.from = call.from
        /\ call'.scope = call.scope /\ call'.dbs = call.dbs /\ call'.found = call.found
        /\ call'.limit = call.limit /\ call'.end = end /\ call' \in CallType
    BY <2>5, <2>6 DEF BatchInv, Typed, CallType
  <2>8. Typed'
    BY <1>0, <1>5, <2>7 DEF BatchInv, Typed
  <2>9. (\A c \in chains : Grown(c))' /\ FromOK'
    BY <1>0, <2>7, CalmChains
  <2>10. ListingOK'
    BY <1>0, <2>7 DEF BatchInv, ListingOK, Within
  <2>11. BatchOK'
    BY <1>0, <2>1, <2>2, <2>4, <2>7 DEF BatchOK
  <2>12. NoSpuriousRefusal'
    BY <2>7 DEF NoSpuriousRefusal
  <2> QED
    BY <2>8, <2>9, <2>10, <2>11, <2>12 DEF BatchInv
<1> QED
  BY <1>3, <1>4, <1>5 DEF Select

(* The next cursor is a good one: names are counted once, since the listing  *)
(* has each of them once and the batch begins where the last one ended.      *)
LEMMA LongerGrown ==
  ASSUME BatchInv, call.at = "audit"
  PROVE  Longer \in Chains /\ Grown(Longer)
<1> DEFINE refs == InOrder[call.found]
           c == call.from
           audits == [n \in Names |-> c.audits[n] + (IF n \in Batch THEN 1 ELSE 0)]
           least == IF call.limit < c.least THEN call.limit ELSE c.least
<1>0. /\ call.found \in Catalogs /\ refs \in Seq(Refs) /\ Distinct(refs)
      /\ c \in Chains /\ ChainOK(c) /\ c.scope = call.scope /\ call.dbs = {}
      /\ call.limit \in 1..MaxBatch /\ c.least \in 1..MaxBatch
  BY CatalogFacts DEF BatchInv, ListingOK, FromOK, BatchOK, Typed, CallType, Chains
<1>1. /\ call.end \in (c.processed + 1)..Len(refs) /\ GoodCut(refs, call.end, call.limit)
      /\ c.processed \in Nat /\ c.index \in Nat /\ c.index <= c.processed
  BY <1>0 DEF BatchInv, BatchOK, ChainOK, Chains
<1>2. \A n \in Names : Passed(c, n) <=> \E i \in 1..c.processed : refs[i].ns = n
  BY <1>0, <1>1 DEF BatchInv, BatchOK, FromOK, Passed
<1>3. \A n \in Names : audits[n] \in Nat /\
         audits[n] = IF \E i \in 1..call.end : refs[i].ns = n THEN 1 ELSE 0
  <2> SUFFICES ASSUME NEW n \in Names
               PROVE  audits[n] = IF \E i \in 1..call.end : refs[i].ns = n THEN 1 ELSE 0
    OBVIOUS
  <2>1. audits[n] = c.audits[n] + (IF n \in Batch THEN 1 ELSE 0)
    OBVIOUS
  <2>2. n \in Batch <=> \E i \in (c.processed + 1)..call.end : refs[i].ns = n
    BY DEF Batch
  <2>3. c.audits[n] = IF \E i \in 1..c.processed : refs[i].ns = n THEN 1 ELSE 0
    BY <1>0, <1>2 DEF ChainOK
  <2>4. (\E i \in 1..call.end : refs[i].ns = n) <=>
           (\E i \in 1..c.processed : refs[i].ns = n)
              \/ \E i \in (c.processed + 1)..call.end : refs[i].ns = n
    BY <1>0, <1>1
  <2>5. ~((\E i \in 1..c.processed : refs[i].ns = n)
              /\ \E i \in (c.processed + 1)..call.end : refs[i].ns = n)
    <3> SUFFICES ASSUME NEW i \in 1..c.processed, NEW k \in (c.processed + 1)..call.end,
                        refs[i].ns = n, refs[k].ns = n
                 PROVE  FALSE
      OBVIOUS
    <3>1. Len(refs) \in Nat
      BY <1>0
    <3>2. i \in 1..Len(refs) /\ k \in 1..Len(refs) /\ i # k
      BY <1>1, <3>1
    <3> QED
      BY <1>0, <3>2 DEF Distinct
  <2> HIDE DEF audits
  <2> QED
    BY <2>1, <2>2, <2>3, <2>4, <2>5
<1>4. audits \in [Names -> Nat] /\ least \in 1..MaxBatch /\ least <= call.limit
  BY <1>0, <1>3, BatchAssumption
<1>5. Longer = [c EXCEPT !.refs = refs, !.processed = call.end, !.index = c.index + 1,
                         !.least = least, !.audits = audits]
  BY DEF Longer
<1>6. GoodCut(refs, call.end, least)
  <2>1. IsFiniteSet(1..Len(refs))
    BY <1>0, FS_Interval
  <2>2. Cardinality({i \in 1..Len(refs) : refs[i].db = refs[call.end].db}) \in Nat
    BY <2>1, FS_Subset, FS_CardinalityType
  <2> QED
    BY <1>0, <1>1, <1>4, <2>2 DEF GoodCut
<1> HIDE DEF refs, audits, least
<1>7. /\ Longer \in Chains /\ Longer.refs = refs /\ Longer.processed = call.end
      /\ Longer.index = c.index + 1 /\ Longer.least = least /\ Longer.audits = audits
      /\ Longer.scope = c.scope /\ Longer.stays = c.stays /\ Longer.quiet = c.quiet
  <2>1. refs \in Seq(Refs) /\ call.end \in Nat /\ c.index + 1 \in Nat
    BY <1>0, <1>1
  <2> QED
    BY <1>0, <1>4, <1>5, <2>1 DEF Chains
<1>8. ChainOK(Longer)
  <2>1. Longer.processed \in 0..Len(Longer.refs) /\ Longer.index <= Longer.processed
    BY <1>0, <1>1, <1>7
  <2> QED
    BY <1>0, <1>3, <1>7, <2>1 DEF ChainOK, Passed
<1>9. \A r \in Longer.stays : \E i \in 1..Len(refs) : refs[i] = r
  <2>1. \A r \in c.stays : r \in call.found /\ r \in Refs
    BY <1>0, CatalogFacts DEF BatchInv, ListingOK
  <2> QED
    BY <1>0, <1>7, <2>1, CatalogFacts DEF refs
<1>10. Longer.quiet => refs = InOrder[Within(Longer.scope)]
  <2>1. c.quiet => call.found = Within(call.scope)
    BY <1>0 DEF BatchInv, ListingOK
  <2> QED
    BY <1>0, <1>7, <2>1 DEF refs
<1> QED
  BY <1>1, <1>6, <1>7, <1>8, <1>9, <1>10 DEF Grown

LEMMA AuditKept ==
  ASSUME BatchInv, Audit
  PROVE  BatchInv'
<1>0. call.at = "audit" /\ UNCHANGED <<catalog, calls, changes>>
  BY DEF Audit
<1>1. CASE Return("failed") /\ UNCHANGED chains
  BY <1>0, <1>1, Returned DEF BatchInv, Typed
<1>2. ASSUME NEW a \in {"complete", "partial"}, Return(a), chains' = chains \cup {Longer}
      PROVE  BatchInv'
  BY <1>0, <1>2, LongerGrown, Returned DEF BatchInv, Typed
<1> QED
  BY <1>1, <1>2 DEF Audit

(* The catalog changes between any two steps; c0 is the call's own chain.    *)
LEMMA ChangeKept ==
  ASSUME BatchInv, NEW r \in Refs, NEW S \in Catalogs, Change(r, S),
         catalog \ {r} \subseteq S, S \subseteq catalog \cup {r}
  PROVE  BatchInv'
<1>a. PICK c0 : c0 = call.from
  OBVIOUS
<1> DEFINE f == Noticed(c0, r, S)
<1>0. /\ catalog' = S /\ changes' = changes + 1 /\ changes < MaxChanges
      /\ chains' = {Noticed(c, r, S) : c \in chains}
      /\ call' = [call EXCEPT !.from = f] /\ UNCHANGED <<answer, calls>>
  BY <1>a DEF Change
<1>1. c0 \in Chains /\ ChainOK(c0)
  BY <1>a DEF BatchInv, Typed, CallType, FromOK
<1>2. /\ f \in Chains /\ f.refs = c0.refs /\ f.processed = c0.processed
      /\ f.scope = c0.scope /\ f.id = c0.id
      /\ f.stays = c0.stays \cap S
      /\ f.quiet = (c0.quiet /\ ~InScope(c0.scope, r))
  BY <1>1, NoticedFields
<1>3. ChainOK(f)' /\ (Grown(c0) => Grown(f)')
  BY <1>0, <1>1, NoticedOK
<1> HIDE DEF f
<1>4. /\ call'.from = f /\ call'.at = call.at /\ call'.raw = call.raw
      /\ call'.scope = call.scope /\ call'.id = call.id /\ call'.dbs = call.dbs
      /\ call'.found = call.found /\ call'.end = call.end /\ call'.limit = call.limit
      /\ call' \in CallType
  BY <1>0, <1>2 DEF BatchInv, Typed, CallType
<1>5. \A c \in chains : Noticed(c, r, S) \in Chains /\ Grown(Noticed(c, r, S))'
  <2>1. \A c \in chains : c \in Chains /\ Grown(c) /\ ChainOK(c)
    BY DEF BatchInv, Typed, Grown
  <2> QED
    BY <1>0, <2>1, NoticedFields, NoticedOK
<1>6. Typed'
  <2>1. changes \in Nat /\ changes + 1 \in 0..MaxChanges
    BY <1>0, BatchAssumption DEF BatchInv, Typed
  <2> QED
    BY <1>0, <1>4, <1>5, <2>1 DEF BatchInv, Typed
<1>7. (\A c \in chains : Grown(c))'
  <2> SUFFICES ASSUME NEW d \in chains' PROVE Grown(d)'
    OBVIOUS
  <2>1. PICK c \in chains : d = Noticed(c, r, S)
    BY <1>0
  <2> QED
    BY <1>5, <2>1
<1>8. FromOK'
  <2>1. (HasMore(f) <=> HasMore(c0)) /\ call'.from = f
    BY <1>2, <1>4 DEF HasMore
  <2> QED
    BY <1>a, <1>2, <1>3, <1>4, <2>1 DEF BatchInv, FromOK, HasMore
<1>9. ListingOK'
  <2>1. ~InScope(call.scope, r) => Within(call.scope)' = Within(call.scope)
    BY <1>0, <1>4 DEF Within
  <2>2. f.stays \subseteq c0.stays
    BY <1>2
  <2>3. f.quiet => c0.quiet /\ ~InScope(c0.scope, r)
    BY <1>2
  <2>4. ASSUME call.at \in {"collections", "audit"}, c0.scope = call.scope
        PROVE  /\ \A q \in f.stays : q.db \in call.dbs \/ q \in call.found
               /\ f.quiet =>
                     call.found = {q \in Within(call.scope)' : q.db \notin call.dbs}
    <3>1. /\ \A q \in c0.stays : q.db \in call.dbs \/ q \in call.found
          /\ c0.quiet => call.found = {q \in Within(call.scope) : q.db \notin call.dbs}
      BY <1>a, <2>4 DEF BatchInv, ListingOK
    <3> QED
      BY <2>1, <2>2, <2>3, <2>4, <3>1
  <2> QED
    BY <1>2, <1>4, <2>4 DEF BatchInv, ListingOK
<1>10. BatchOK' /\ NoSpuriousRefusal'
  BY <1>0, <1>a, <1>2, <1>4 DEF BatchInv, BatchOK, NoSpuriousRefusal
<1> QED
  BY <1>6, <1>7, <1>8, <1>9, <1>10 DEF BatchInv

-----------------------------------------------------------------------------
(* The theorems. *)

LEMMA BatchInitially == Init => BatchInv
<1> SUFFICES ASSUME Init PROVE BatchInv
  OBVIOUS
<1> DEFINE id == AnyOf(Identities)
           s == AnyOf(Scopes)
<1>1. id \in Identities /\ s \in Scopes
  <2>1. (\E x \in Identities : TRUE) /\ (\E x \in Scopes : TRUE)
    BY BatchAssumption
  <2> QED
    BY <2>1, Zenon DEF AnyOf
<1>2. catalog \in Catalogs
  BY BatchAssumption DEF Init
<1> HIDE DEF id, s
<1>3. /\ call = Asks("idle", id, s, MaxBatch, "none", NewChain(id, s))
      /\ chains = {} /\ answer = "none" /\ calls = 0 /\ changes = 0
  BY DEF Init, id, s
<1>4. /\ NewChain(id, s) \in Chains /\ ChainOK(NewChain(id, s))
      /\ NewChain(id, s).processed = 0 /\ NewChain(id, s).scope = s
  BY <1>1, <1>2, NewChainOK
<1>5. /\ call.at = "idle" /\ call.raw = "none" /\ call.from = NewChain(id, s)
      /\ call.scope = s /\ call.found = {} /\ call.dbs = {} /\ call \in CallType
  <2>1. MaxBatch \in 1..MaxBatch
    BY BatchAssumption
  <2> QED
    BY <1>1, <1>3, <1>4, <2>1 DEF Asks, CallType
<1>6. Typed
  BY <1>2, <1>3, <1>5, BatchAssumption DEF Typed
<1>7. FromOK
  BY <1>4, <1>5 DEF FromOK
<1>8. ListingOK /\ BatchOK /\ NoSpuriousRefusal
  BY <1>5, CatalogFacts DEF ListingOK, BatchOK, NoSpuriousRefusal
<1> QED
  BY <1>3, <1>6, <1>7, <1>8 DEF BatchInv

LEMMA BatchInductive == BatchInv /\ [Next]_vars => BatchInv'
<1> SUFFICES ASSUME BatchInv, [Next]_vars PROVE BatchInv'
  OBVIOUS
<1>1. ASSUME NEW r \in Refs, Create(r) PROVE BatchInv'
  BY <1>1, ChangeKept DEF Create
<1>2. ASSUME NEW r \in Refs, Drop(r) PROVE BatchInv'
  <2>1. catalog \ {r} \in Catalogs
    BY CatalogFacts DEF BatchInv, Typed
  <2> QED
    BY <1>2, <2>1, ChangeKept DEF Drop
<1>3. CASE UNCHANGED vars
  <2>1. UNCHANGED <<catalog, call, chains, answer, calls, changes>>
    BY <1>3 DEF vars
  <2>2. Typed'
    BY <2>1 DEF BatchInv, Typed
  <2>3. (\A c \in chains : Grown(c))' /\ FromOK'
    BY <2>1, CalmChains
  <2>4. ListingOK' /\ BatchOK' /\ NoSpuriousRefusal'
    BY <2>1 DEF BatchInv, ListingOK, BatchOK, NoSpuriousRefusal, Within
  <2> QED
    BY <2>2, <2>3, <2>4 DEF BatchInv
<1> QED
  BY <1>1, <1>2, <1>3, BeginKept, RefuseOptionsKept, DetectTopologyKept, ListDatabasesKept,
     ListCollectionsKept, SelectKept, AuditKept DEF Next

LEMMA BatchInvariant == Spec => []BatchInv
BY BatchInitially, BatchInductive, PTL DEF Spec

(* Type correctness, and with it that a batch is never empty and never       *)
(* passes the end of the catalog (index_audit_batch.go:231-252).             *)
THEOREM BatchTypeCorrect == Spec => []TypeOK
<1>1. BatchInv => TypeOK
  <2> SUFFICES ASSUME BatchInv PROVE TypeOK
    OBVIOUS
  <2>1. call \in CallType /\ Typed
    BY DEF BatchInv, Typed
  <2>2. \A c \in chains : c.processed \in 1..Len(c.refs) /\ c.index <= c.processed
    BY DEF BatchInv, Grown, ChainOK
  <2>3. call.found \in Catalogs
    BY DEF BatchInv, ListingOK
  <2>4. call.at = "audit" =>
           call.end \in (call.from.processed + 1)..Len(InOrder[call.found])
    BY DEF BatchInv, BatchOK
  <2> QED
    BY <2>1, <2>2, <2>3, <2>4 DEF Typed, CallType, TypeOK
<1> QED
  BY <1>1, BatchInvariant, PTL

(* "No repetition" (04-index-and-capacity-audit.md:221), for any catalog,    *)
(* any limits and any use of the cursors.                                    *)
THEOREM NoCollectionTwice == Spec => []AuditedOnce
<1>1. BatchInv => AuditedOnce
  BY DEF BatchInv, Grown, ChainOK, AuditedOnce
<1> QED
  BY <1>1, BatchInvariant, PTL

(* "No omission" (04-index-and-capacity-audit.md:221): what says that        *)
(* nothing remains has passed every position of a listing in which all that  *)
(* stayed is listed.                                                         *)
THEOREM NoCollectionOmitted == Spec => []NothingOmitted
<1>1. BatchInv => NothingOmitted
  <2> SUFFICES ASSUME BatchInv, NEW c \in chains, ~HasMore(c), NEW r \in c.stays
               PROVE  c.audits[r.ns] = 1
    BY DEF NothingOmitted
  <2>1. Grown(c) /\ ChainOK(c) /\ c \in Chains
    BY DEF BatchInv, Grown, Typed
  <2>2. PICK i \in 1..Len(c.refs) : c.refs[i] = r
    BY <2>1 DEF Grown
  <2>3. i \in 1..c.processed
    BY <2>1 DEF HasMore, ChainOK, Chains
  <2>4. r.ns \in Names /\ Passed(c, r.ns)
    BY <2>1, <2>2, <2>3 DEF Names, Chains, Passed
  <2> QED
    BY <2>1, <2>4 DEF ChainOK
<1> QED
  BY <1>1, BatchInvariant, PTL

(* A database is cut in two only if it exceeds the smallest limit of the     *)
(* chain (04-index-and-capacity-audit.md:68).                                *)
THEOREM DatabasesWhole == Spec => []WholeDatabases
<1>1. BatchInv => WholeDatabases
  BY DEF BatchInv, Grown, GoodCut, HasMore, WholeDatabases
<1> QED
  BY <1>1, BatchInvariant, PTL

(* While nothing in its scope changes a cursor is good, whatever the limit   *)
(* of the call that uses it (04-index-and-capacity-audit.md:70).             *)
THEOREM CursorStaysGood == Spec => []NoSpuriousRefusal
<1>1. BatchInv => NoSpuriousRefusal
  BY DEF BatchInv
<1> QED
  BY <1>1, BatchInvariant, PTL
=============================================================================
